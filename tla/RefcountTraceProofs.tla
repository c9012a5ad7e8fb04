------------------------ MODULE RefcountTraceProofs ------------------------
(***************************************************************************)
(* Theorems about RefcountTrace, for all names, rounds of a loop and       *)
(* depths of nesting, and functions of any length.                         *)
(***************************************************************************)
EXTENDS RefcountTrace, SequenceTheorems, WellFoundedInduction, TLAPS

\* A stack whose top is changed.
LEMMA SetShape ==
    ASSUME NEW S, NEW s \in Seq(S), s # <<>>, NEW e \in S
    PROVE  LET r == [s EXCEPT ![Len(s)] = e]
           IN  /\ r \in Seq(S) /\ Len(r) = Len(s) /\ DOMAIN r = 1 .. Len(s)
               /\ \A i \in 1 .. Len(s) - 1 : r[i] = s[i]
               /\ r[Len(s)] = e
OBVIOUS

\* The lower part of a sequence: a stack that is popped.
LEMMA CutShape ==
    ASSUME NEW S, NEW s \in Seq(S), NEW n \in 0 .. Len(s)
    PROVE  LET r == SubSeq(s, 1, n)
           IN  /\ r \in Seq(S) /\ Len(r) = n /\ DOMAIN r = 1 .. n
               /\ \A i \in 1 .. n : r[i] = s[i]
OBVIOUS

\* A set of numbers has a least.
LEMMA LeastElement ==
    ASSUME NEW T \in SUBSET Nat, T # {}
    PROVE  \E x \in T : \A y \in T : x <= y
<1>1. PICK x \in T : \A y \in T : ~ (<<y, x>> \in OpToRel(<, Nat))
  BY NatLessThanWellFounded, WFMin
<1>2. \A y \in T : ~ (y < x)
  BY <1>1 DEF OpToRel
<1>3. \A y \in T : x \in Nat /\ y \in Nat
  OBVIOUS
<1>4. \A y \in T : x <= y
  BY <1>2, <1>3
<1> QED
  BY <1>4

\* A set of positions has a last.
LEMMA GreatestElement ==
    ASSUME NEW n \in Nat, NEW T \in SUBSET (1 .. n), T # {}
    PROVE  \E x \in T : \A y \in T : x >= y
<1> DEFINE U == {m \in 0 .. n : n - m \in T}
<1>1. U \in SUBSET Nat
  OBVIOUS
<1>2. U # {}
  <2>1. PICK x \in T : TRUE
    OBVIOUS
  <2>2. n - x \in 0 .. n /\ n - (n - x) = x
    OBVIOUS
  <2> QED
    BY <2>1, <2>2
<1>3. PICK u \in U : \A m \in U : u <= m
  <2> HIDE DEF U
  <2> QED
    BY <1>1, <1>2, LeastElement
<1>4. ASSUME NEW y \in T PROVE n - u >= y
  <2>1. n - y \in U
    OBVIOUS
  <2> QED
    BY <1>3, <2>1
<1> QED
  BY <1>3, <1>4

Object == [count : Int, is_param : BOOLEAN, escaped : BOOLEAN, real : Nat]
State == [objects : Seq(Object), bindings : Seq([Local -> Nat]), pools : Seq(SUBSET Nat)]
Kind == {"function", "then", "else", "loop", "block", "pool"}
Block_frame ==
    [kind : Kind, on : BOOLEAN, names : SUBSET Local, gone : SUBSET Local, has_else : BOOLEAN,
     iters : Int, snap : State, closed : BOOLEAN]
Run_state ==
    [var : [Local -> Nat], rc : Seq(Int), pools : Seq(SUBSET Nat), given : SUBSET Nat,
     exact : BOOLEAN]

InRange(r) == \A v \in Local : r.var[v] \in 0 .. Len(r.rc)
TypeInv == st \in State /\ frames \in Seq(Block_frame) /\ run \in Run_state /\ InRange(run)

-----------------------------------------------------------------------------
(* What a name is bound to *)

BoundAt(s, v, m) == s.bindings[m][v] # None

LEMMA Scopes ==
    ASSUME NEW s \in State
    PROVE  /\ Len(s.bindings) \in Nat /\ DOMAIN s.bindings = 1 .. Len(s.bindings)
           /\ \A m \in DOMAIN s.bindings : /\ s.bindings[m] \in [Local -> Nat]
                                           /\ DOMAIN s.bindings[m] = Local
                                           /\ \A v \in Local : s.bindings[m][v] \in Nat
<1>1. s.bindings \in Seq([Local -> Nat])
  BY DEF State
<1>2. \A m \in DOMAIN s.bindings : s.bindings[m] \in [Local -> Nat]
  BY <1>1
<1> QED
  BY <1>1, <1>2

LEMMA Objects ==
    ASSUME NEW s \in State
    PROVE  /\ Len(s.objects) \in Nat /\ DOMAIN s.objects = 1 .. Len(s.objects)
           /\ \A i \in DOMAIN s.objects :
                 /\ s.objects[i] \in Object
                 /\ s.objects[i].count \in Int /\ s.objects[i].real \in Nat
                 /\ s.objects[i].is_param \in BOOLEAN /\ s.objects[i].escaped \in BOOLEAN
<1>1. s.objects \in Seq(Object)
  BY DEF State
<1>2. \A i \in DOMAIN s.objects : s.objects[i] \in Object
  BY <1>1
<1> QED
  BY <1>1, <1>2 DEF Object

\* The innermost scope that binds the name decides.
LEMMA ResolveTop ==
    ASSUME NEW s \in State, NEW v, NEW m \in DOMAIN s.bindings, BoundAt(s, v, m),
           \A k \in DOMAIN s.bindings : BoundAt(s, v, k) => k <= m
    PROVE  resolve(s, v) = s.bindings[m][v]
<1> DEFINE binding == {i \in DOMAIN s.bindings : s.bindings[i][v] # None}
<1>1. m \in binding /\ \A k \in binding : m >= k
  BY Scopes DEF BoundAt
<1>2. binding \subseteq Nat
  BY Scopes
<1>3. Max(binding) \in binding /\ \A k \in binding : Max(binding) >= k
  <2> HIDE DEF binding
  <2> QED
    BY <1>1 DEF Max
<1>4. Max(binding) = m
  <2> HIDE DEF binding
  <2>1. m \in Nat /\ Max(binding) \in Nat
    BY <1>1, <1>2, <1>3
  <2>2. m >= Max(binding) /\ Max(binding) >= m
    BY <1>1, <1>3
  <2> QED
    BY <2>1, <2>2
<1>5. binding # {}
  BY <1>1
<1> QED
  BY <1>4, <1>5 DEF resolve

LEMMA ResolveNone ==
    ASSUME NEW s \in State, NEW v, \A k \in DOMAIN s.bindings : ~BoundAt(s, v, k)
    PROVE  resolve(s, v) = None
BY DEF resolve, BoundAt

LEMMA ResolveIs ==
    ASSUME NEW s \in State, NEW v
    PROVE  \/ /\ \A k \in DOMAIN s.bindings : ~BoundAt(s, v, k)
              /\ resolve(s, v) = None
           \/ \E m \in DOMAIN s.bindings :
                 /\ BoundAt(s, v, m) /\ \A k \in DOMAIN s.bindings : BoundAt(s, v, k) => k <= m
                 /\ resolve(s, v) = s.bindings[m][v]
<1> DEFINE binding == {i \in DOMAIN s.bindings : BoundAt(s, v, i)}
<1>1. CASE binding = {}
  <2>1. \A k \in DOMAIN s.bindings : ~BoundAt(s, v, k)
    BY <1>1
  <2> QED
    BY <2>1, ResolveNone
<1>2. CASE binding # {}
  <2>1. binding \in SUBSET (1 .. Len(s.bindings)) /\ Len(s.bindings) \in Nat
    BY Scopes
  <2>2. PICK m \in binding : \A k \in binding : m >= k
    <3> HIDE DEF binding
    <3> QED
      BY <1>2, <2>1, GreatestElement
  <2>3. /\ m \in DOMAIN s.bindings /\ BoundAt(s, v, m)
        /\ \A k \in DOMAIN s.bindings : BoundAt(s, v, k) => k <= m
    BY <2>1, <2>2
  <2> QED
    BY <2>3, ResolveTop
<1> QED
  BY <1>1, <1>2

LEMMA ResolveType ==
    ASSUME NEW s \in State, NEW v \in Local PROVE resolve(s, v) \in Nat
BY ResolveIs, Scopes DEF None

\* Only the bindings matter.
LEMMA ResolveSame ==
    ASSUME NEW s, NEW t, t.bindings = s.bindings
    PROVE  \A v : resolve(t, v) = resolve(s, v)
BY DEF resolve

-----------------------------------------------------------------------------
(* What the operations do to a state *)

Change(op) == CASE op = "release" -> -1 [] op = "retain" -> 1 [] OTHER -> 0

SetObject(s, id, e) == [s EXCEPT !.objects = [s.objects EXCEPT ![id] = e]]

LEMMA ObjectSet ==
    ASSUME NEW s \in State, NEW id, NEW e, id \in DOMAIN s.objects => e \in Object,
           NEW t, t = SetObject(s, id, e)
    PROVE  /\ t \in State /\ t.bindings = s.bindings /\ t.pools = s.pools
           /\ Len(t.objects) = Len(s.objects) /\ DOMAIN t.objects = DOMAIN s.objects
           /\ \A i \in DOMAIN s.objects : t.objects[i] = IF i = id THEN e ELSE s.objects[i]
<1> DEFINE new == [s.objects EXCEPT ![id] = e]
<1>1. s.objects \in Seq(Object) /\ DOMAIN s.objects = 1 .. Len(s.objects)
  BY Objects DEF State
<1>2. new \in Seq(Object) /\ Len(new) = Len(s.objects)
      /\ \A i \in DOMAIN s.objects : new[i] = IF i = id THEN e ELSE s.objects[i]
  <2> DEFINE old == s.objects
  <2>1. old \in Seq(Object) /\ new = [old EXCEPT ![id] = e]
    BY <1>1
  <2> HIDE DEF old
  <2>2. CASE id \in DOMAIN old
    <3>1. e \in Object
      BY <2>2 DEF old
    <3> QED
      BY <2>1, <2>2, <3>1 DEF old
  <2>3. CASE id \notin DOMAIN old
    <3>1. new = old
      BY <2>1, <2>3
    <3> QED
      BY <1>1, <2>1, <2>3, <3>1 DEF old
  <2> QED
    BY <2>2, <2>3
<1>3. t = [s EXCEPT !.objects = new]
  BY DEF SetObject
<1> HIDE DEF new
<1>4. t \in State /\ t.bindings = s.bindings /\ t.pools = s.pools /\ t.objects = new
  BY <1>2, <1>3 DEF State
<1>5. DOMAIN new = DOMAIN s.objects
  BY DEF new
<1> QED
  BY <1>2, <1>4, <1>5

LEMMA PoolSet ==
    ASSUME NEW p \in Seq(SUBSET Nat), p # <<>>, NEW id \in Nat
    PROVE  [p EXCEPT ![Len(p)] = p[Len(p)] \cup {id}] \in Seq(SUBSET Nat)
<1>1. p[Len(p)] \in SUBSET Nat
  OBVIOUS
<1> DEFINE e == p[Len(p)] \cup {id}
<1>2. e \in SUBSET Nat
  BY <1>1
<1> HIDE DEF e
<1>3. [p EXCEPT ![Len(p)] = e] \in Seq(SUBSET Nat)
  BY <1>2, SetShape
<1> QED
  BY <1>3 DEF e

\* What becomes of the last pool.
Autoreleased(op, pools, id) ==
    IF op = "autorelease" /\ pools # <<>> THEN [pools EXCEPT ![Len(pools)] = @ \cup {id}] ELSE pools

LEMMA ApplyIs ==
    ASSUME NEW s \in State, NEW op, NEW id \in Nat, NEW t, t = apply(s, op, id)
    PROVE  /\ t \in State /\ t.bindings = s.bindings
           /\ Len(t.objects) = Len(s.objects) /\ DOMAIN t.objects = DOMAIN s.objects
           /\ \A i \in DOMAIN s.objects :
                 /\ t.objects[i].real = s.objects[i].real
                 /\ t.objects[i].is_param = s.objects[i].is_param
                 /\ t.objects[i].escaped = s.objects[i].escaped
                 /\ t.objects[i].count = s.objects[i].count + IF i = id THEN Change(op) ELSE 0
           /\ t.pools = Autoreleased(op, s.pools, id)
<1>1. \A i \in DOMAIN s.objects : s.objects[i] \in Object /\ s.objects[i].count \in Int
  BY Objects
<1>2. CASE op \in {"release", "retain"}
  <2> DEFINE e == [s.objects[id] EXCEPT !.count = s.objects[id].count + Change(op)]
  <2>1. Change(op) \in Int
    BY <1>2 DEF Change
  <2>2. id \in DOMAIN s.objects =>
           /\ e \in Object /\ e.count = s.objects[id].count + Change(op)
           /\ e.real = s.objects[id].real /\ e.is_param = s.objects[id].is_param
           /\ e.escaped = s.objects[id].escaped
    BY <1>1, <2>1 DEF Object
  <2>3. t = SetObject(s, id, e)
    <3>1. CASE op = "release"
      <4>1. Change(op) = -1
        BY <3>1 DEF Change
      <4>2. t = [s EXCEPT !.objects = [s.objects EXCEPT ![id] = [s.objects[id] EXCEPT !.count = s.objects[id].count - 1]]]
        BY <3>1 DEF apply
      <4> QED
        BY <4>1, <4>2 DEF SetObject
    <3>2. CASE op = "retain"
      <4>1. Change(op) = 1
        BY <3>2 DEF Change
      <4>2. t = [s EXCEPT !.objects = [s.objects EXCEPT ![id] = [s.objects[id] EXCEPT !.count = s.objects[id].count + 1]]]
        BY <3>2 DEF apply
      <4> QED
        BY <4>1, <4>2 DEF SetObject
    <3> QED
      BY <1>2, <3>1, <3>2
  <2> HIDE DEF e
  <2>4. /\ t \in State /\ t.bindings = s.bindings /\ t.pools = s.pools
        /\ Len(t.objects) = Len(s.objects) /\ DOMAIN t.objects = DOMAIN s.objects
        /\ \A i \in DOMAIN s.objects : t.objects[i] = IF i = id THEN e ELSE s.objects[i]
    <3>1. id \in DOMAIN s.objects => e \in Object
      BY <2>2
    <3> QED
      BY <2>3, <3>1, ObjectSet
  <2>5. s.pools = Autoreleased(op, s.pools, id)
    BY <1>2 DEF Autoreleased
  <2> QED
    BY <1>1, <2>2, <2>4, <2>5
<1>3. CASE op = "autorelease" /\ s.pools # <<>>
  <2>1. t = [s EXCEPT !.pools = Autoreleased(op, s.pools, id)]
    BY <1>3 DEF apply, Autoreleased
  <2>2. Autoreleased(op, s.pools, id) \in Seq(SUBSET Nat)
    BY <1>3, PoolSet DEF Autoreleased, State
  <2>3. t \in State /\ t.objects = s.objects /\ t.bindings = s.bindings
        /\ t.pools = Autoreleased(op, s.pools, id)
    BY <2>1, <2>2 DEF State
  <2>4. Change(op) = 0
    BY <1>3 DEF Change
  <2> QED
    BY <1>1, <2>3, <2>4
<1>4. CASE op \notin {"release", "retain"} /\ ~(op = "autorelease" /\ s.pools # <<>>)
  <2>1. t = s /\ Change(op) = 0 /\ Autoreleased(op, s.pools, id) = s.pools
    BY <1>4 DEF apply, Change, Autoreleased
  <2> QED
    BY <1>1, <2>1
<1> QED
  BY <1>2, <1>3, <1>4

WithObject(s, e) == [s EXCEPT !.objects = Append(s.objects, e)]

LEMMA AddObject ==
    ASSUME NEW s \in State, NEW e \in Object, NEW t, t = WithObject(s, e)
    PROVE  /\ t \in State /\ t.bindings = s.bindings /\ t.pools = s.pools
           /\ Len(t.objects) = Len(s.objects) + 1 /\ DOMAIN t.objects = 1 .. Len(s.objects) + 1
           /\ \A i \in DOMAIN s.objects : t.objects[i] = s.objects[i]
           /\ t.objects[Len(s.objects) + 1] = e
<1>1. /\ Append(s.objects, e) \in Seq(Object) /\ Len(Append(s.objects, e)) = Len(s.objects) + 1
      /\ DOMAIN Append(s.objects, e) = 1 .. Len(s.objects) + 1
      /\ \A i \in 1 .. Len(s.objects) : Append(s.objects, e)[i] = s.objects[i]
      /\ Append(s.objects, e)[Len(s.objects) + 1] = e
  BY AppendProperties DEF State
<1>2. t \in State /\ t.bindings = s.bindings /\ t.pools = s.pools /\ t.objects = Append(s.objects, e)
  BY <1>1 DEF State, WithObject
<1> QED
  BY <1>1, <1>2, Objects

\* A new object: its count is 1, and on the path it is the next of the run.
LEMMA CreateIs ==
    ASSUME TypeInv, NEW t, t = create(st, FALSE)
    PROVE  /\ t \in State /\ t.bindings = st.bindings /\ t.pools = st.pools
           /\ Len(t.objects) = Len(st.objects) + 1 /\ DOMAIN t.objects = 1 .. Len(st.objects) + 1
           /\ \A i \in DOMAIN st.objects : t.objects[i] = st.objects[i]
           /\ LET e == t.objects[Len(st.objects) + 1]
              IN  /\ e.count = 1 /\ e.is_param = FALSE /\ e.escaped = FALSE
                  /\ On => e.real = Len(run.rc) + 1
<1> DEFINE e == [count |-> 1, is_param |-> FALSE, escaped |-> FALSE,
                 real |-> IF On THEN Len(run.rc) + 1 ELSE None]
<1>1. e \in Object /\ e.count = 1 /\ e.is_param = FALSE /\ e.escaped = FALSE
      /\ (On => e.real = Len(run.rc) + 1)
  BY DEF Object, None, TypeInv, Run_state
<1>2. t = WithObject(st, e) /\ st \in State
  BY DEF create, WithObject, TypeInv
<1> HIDE DEF e
<1>3. /\ t \in State /\ t.bindings = st.bindings /\ t.pools = st.pools
      /\ Len(t.objects) = Len(st.objects) + 1 /\ DOMAIN t.objects = 1 .. Len(st.objects) + 1
      /\ \A i \in DOMAIN st.objects : t.objects[i] = st.objects[i]
      /\ t.objects[Len(st.objects) + 1] = e
  BY ONLY <1>1, <1>2, AddObject
<1> QED
  BY <1>1, <1>3

LEMMA CreateParamIs ==
    ASSUME TypeInv, NEW t, t = create(st, TRUE)
    PROVE  /\ t \in State /\ t.bindings = st.bindings /\ t.pools = st.pools
           /\ Len(t.objects) = Len(st.objects) + 1 /\ DOMAIN t.objects = 1 .. Len(st.objects) + 1
           /\ \A i \in DOMAIN st.objects : t.objects[i] = st.objects[i]
           /\ LET e == t.objects[Len(st.objects) + 1]
              IN  e.count = 1 /\ e.real = Len(run.rc) + 1
<1> DEFINE e == [count |-> 1, is_param |-> TRUE, escaped |-> FALSE, real |-> Len(run.rc) + 1]
<1>1. e \in Object /\ e.count = 1 /\ e.real = Len(run.rc) + 1
  BY DEF Object, TypeInv, Run_state
<1>2. t = WithObject(st, e) /\ st \in State
  BY DEF create, WithObject, TypeInv
<1> HIDE DEF e
<1>3. /\ t \in State /\ t.bindings = st.bindings /\ t.pools = st.pools
      /\ Len(t.objects) = Len(st.objects) + 1 /\ DOMAIN t.objects = 1 .. Len(st.objects) + 1
      /\ \A i \in DOMAIN st.objects : t.objects[i] = st.objects[i]
      /\ t.objects[Len(st.objects) + 1] = e
  BY ONLY <1>1, <1>2, AddObject
<1> QED
  BY <1>1, <1>3

LEMMA BindIs ==
    ASSUME NEW s \in State, s.bindings # <<>>, NEW v \in Local, NEW id \in Nat, NEW t, t = bind(s, v, id)
    PROVE  /\ t \in State /\ t.objects = s.objects /\ t.pools = s.pools
           /\ Len(t.bindings) = Len(s.bindings) /\ DOMAIN t.bindings = DOMAIN s.bindings
           /\ t.bindings[Len(s.bindings)][v] = id
           /\ \A m \in DOMAIN s.bindings : \A w \in Local :
                 w # v \/ m # Len(s.bindings) => t.bindings[m][w] = s.bindings[m][w]
<1> DEFINE n == Len(s.bindings)
           e == [s.bindings[n] EXCEPT ![v] = id]
           new == [s.bindings EXCEPT ![n] = e]
<1>1. s.bindings \in Seq([Local -> Nat]) /\ n \in DOMAIN s.bindings /\ DOMAIN s.bindings = 1 .. n
  BY Scopes DEF State
<1>2. e \in [Local -> Nat] /\ e[v] = id /\ \A w \in Local : w # v => e[w] = s.bindings[n][w]
  BY <1>1
<1>3. t = [s EXCEPT !.bindings = new]
  BY DEF bind
<1> HIDE DEF e
<1>4. /\ new \in Seq([Local -> Nat]) /\ Len(new) = n /\ DOMAIN new = 1 .. n
      /\ \A i \in 1 .. n - 1 : new[i] = s.bindings[i]
      /\ new[n] = e
  BY <1>1, <1>2, SetShape DEF n
<1> HIDE DEF new
<1>5. t \in State /\ t.objects = s.objects /\ t.pools = s.pools /\ t.bindings = new
  BY <1>3, <1>4 DEF State
<1>6. ASSUME NEW m \in DOMAIN s.bindings, NEW w \in Local, w # v \/ m # n
      PROVE  new[m][w] = s.bindings[m][w]
  <2>1. CASE m = n
    BY <1>2, <1>4, <1>6, <2>1
  <2>2. CASE m # n
    <3>1. n \in Nat /\ m \in 1 .. n
      BY <1>1, Scopes DEF n
    <3>2. m \in 1 .. n - 1
      BY <2>2, <3>1
    <3> QED
      BY <1>4, <3>2
  <2> QED
    BY <2>1, <2>2
<1> QED
  BY <1>1, <1>2, <1>4, <1>5, <1>6

LEMMA UnboundType == Unbound \in [Local -> Nat] /\ \A v \in Local : Unbound[v] = None
BY DEF Unbound, None

LEMMA ScopeIs ==
    ASSUME NEW s \in State, NEW t, t = Scope(s)
    PROVE  /\ t \in State /\ t.objects = s.objects /\ t.pools = s.pools
           /\ Len(t.bindings) = Len(s.bindings) + 1 /\ DOMAIN t.bindings = 1 .. Len(s.bindings) + 1
           /\ \A m \in DOMAIN s.bindings : t.bindings[m] = s.bindings[m]
           /\ \A v \in Local : t.bindings[Len(s.bindings) + 1][v] = None
<1> DEFINE new == Append(s.bindings, Unbound)
<1>1. /\ new \in Seq([Local -> Nat]) /\ Len(new) = Len(s.bindings) + 1
      /\ DOMAIN new = 1 .. Len(s.bindings) + 1
      /\ \A i \in 1 .. Len(s.bindings) : new[i] = s.bindings[i]
      /\ new[Len(s.bindings) + 1] = Unbound
  BY UnboundType, AppendProperties DEF State
<1>2. t = [s EXCEPT !.bindings = new]
  BY DEF Scope
<1> HIDE DEF new
<1>3. t \in State /\ t.objects = s.objects /\ t.pools = s.pools /\ t.bindings = new
  BY <1>1, <1>2 DEF State
<1> QED
  BY <1>1, <1>3, UnboundType, Scopes

LEMMA EndScopeIs ==
    ASSUME NEW s \in State, s.bindings # <<>>, NEW t, t = EndScope(s)
    PROVE  /\ t \in State /\ t.objects = s.objects /\ t.pools = s.pools
           /\ Len(t.bindings) = Len(s.bindings) - 1 /\ DOMAIN t.bindings = 1 .. Len(s.bindings) - 1
           /\ \A m \in DOMAIN t.bindings : m \in DOMAIN s.bindings /\ t.bindings[m] = s.bindings[m]
<1> DEFINE new == SubSeq(s.bindings, 1, Len(s.bindings) - 1)
<1>1. s.bindings \in Seq([Local -> Nat]) /\ Len(s.bindings) - 1 \in 0 .. Len(s.bindings)
  BY DEF State
<1>2. /\ new \in Seq([Local -> Nat]) /\ Len(new) = Len(s.bindings) - 1
      /\ DOMAIN new = 1 .. Len(s.bindings) - 1
      /\ \A i \in 1 .. Len(s.bindings) - 1 : new[i] = s.bindings[i]
  BY <1>1, CutShape
<1>3. t = [s EXCEPT !.bindings = new]
  BY DEF EndScope, Front
<1> HIDE DEF new
<1>4. t \in State /\ t.objects = s.objects /\ t.pools = s.pools /\ t.bindings = new
  BY <1>2, <1>3 DEF State
<1>5. DOMAIN s.bindings = 1 .. Len(s.bindings) /\ Len(s.bindings) \in Nat
  BY Scopes
<1>6. \A m \in 1 .. Len(s.bindings) - 1 : m \in DOMAIN s.bindings
  BY <1>5
<1> QED
  BY <1>2, <1>4, <1>6

LEMMA FrontType ==
    ASSUME NEW S, NEW s \in Seq(S) PROVE Front(s) \in Seq(S)
<1>1. CASE s = <<>>
  BY <1>1 DEF Front
<1>2. CASE s # <<>>
  <2>1. Len(s) - 1 \in 0 .. Len(s)
    BY <1>2
  <2> QED
    BY <2>1, CutShape DEF Front
<1> QED
  BY <1>1, <1>2

LEMMA PopPoolIs ==
    ASSUME NEW s \in State, NEW t, t = PopPool(s)
    PROVE  /\ t \in State /\ t.bindings = s.bindings /\ t.pools = Front(s.pools)
           /\ Len(t.objects) = Len(s.objects) /\ DOMAIN t.objects = DOMAIN s.objects
           /\ \A i \in DOMAIN s.objects :
                 /\ t.objects[i].real = s.objects[i].real
                 /\ t.objects[i].is_param = s.objects[i].is_param
                 /\ t.objects[i].escaped = s.objects[i].escaped
                 /\ t.objects[i].count = s.objects[i].count - IF i \in Last(s.pools) THEN 1 ELSE 0
<1> DEFINE pool == Last(s.pools)
           new == [i \in DOMAIN s.objects |->
                      IF i \in pool THEN [s.objects[i] EXCEPT !.count = s.objects[i].count - 1]
                      ELSE s.objects[i]]
<1>1. Front(s.pools) \in Seq(SUBSET Nat)
  BY FrontType DEF State
<1>2. t = [s EXCEPT !.pools = Front(s.pools), !.objects = new]
  BY DEF PopPool
<1> HIDE DEF pool
<1>3. \A i \in DOMAIN s.objects :
         /\ new[i] \in Object /\ new[i].real = s.objects[i].real
         /\ new[i].is_param = s.objects[i].is_param /\ new[i].escaped = s.objects[i].escaped
         /\ new[i].count = s.objects[i].count - IF i \in pool THEN 1 ELSE 0
  BY Objects DEF Object
<1>4. new \in Seq(Object) /\ Len(new) = Len(s.objects) /\ DOMAIN new = DOMAIN s.objects
  <2>1. new \in [1 .. Len(s.objects) -> Object] /\ Len(s.objects) \in Nat
    BY <1>3, Objects
  <2> HIDE DEF new
  <2> QED
    BY <2>1, Objects
<1> HIDE DEF new
<1>5. t \in State /\ t.bindings = s.bindings /\ t.pools = Front(s.pools) /\ t.objects = new
  BY <1>1, <1>2, <1>4 DEF State
<1> QED
  BY <1>3, <1>4, <1>5 DEF pool

-----------------------------------------------------------------------------
(* The run *)

LEMMA Updated ==
    ASSUME NEW rc \in Seq(Int), NEW k \in 1 .. Len(rc), NEW e \in Int
    PROVE  /\ [rc EXCEPT ![k] = e] \in Seq(Int) /\ Len([rc EXCEPT ![k] = e]) = Len(rc)
           /\ \A i \in 1 .. Len(rc) : [rc EXCEPT ![k] = e][i] = IF i = k THEN e ELSE rc[i]
OBVIOUS

LEMMA CountedIs ==
    ASSUME NEW rc \in Seq(Int), NEW op, NEW k \in 0 .. Len(rc)
    PROVE  /\ Counted(rc, op, k) \in Seq(Int) /\ Len(Counted(rc, op, k)) = Len(rc)
           /\ \A i \in 1 .. Len(rc) :
                 Counted(rc, op, k)[i] = rc[i] + IF i = k THEN Change(op) ELSE 0
<1>0. \A i \in 1 .. Len(rc) : rc[i] \in Int
  OBVIOUS
<1>1. CASE k = None
  BY <1>0, <1>1 DEF Counted, None
<1>2. CASE k # None /\ op = "release"
  <2>0. k \in 1 .. Len(rc) /\ rc[k] - 1 \in Int
    BY <1>0, <1>2 DEF None
  <2>1. Counted(rc, op, k) = [rc EXCEPT ![k] = rc[k] - 1] /\ Change(op) = -1
    BY <1>2 DEF Counted, Change
  <2> DEFINE new == [rc EXCEPT ![k] = rc[k] - 1]
  <2>2. /\ new \in Seq(Int) /\ Len(new) = Len(rc)
        /\ \A i \in 1 .. Len(rc) : new[i] = IF i = k THEN rc[k] - 1 ELSE rc[i]
    BY <2>0, Updated
  <2> HIDE DEF new
  <2>3. Counted(rc, op, k) = new
    BY <2>1 DEF new
  <2> QED
    BY <1>0, <2>0, <2>1, <2>2, <2>3
<1>3. CASE k # None /\ op = "retain"
  <2>0. k \in 1 .. Len(rc) /\ rc[k] + 1 \in Int
    BY <1>0, <1>3 DEF None
  <2>1. Counted(rc, op, k) = [rc EXCEPT ![k] = rc[k] + 1] /\ Change(op) = 1
    BY <1>3 DEF Counted, Change
  <2> DEFINE new == [rc EXCEPT ![k] = rc[k] + 1]
  <2>2. /\ new \in Seq(Int) /\ Len(new) = Len(rc)
        /\ \A i \in 1 .. Len(rc) : new[i] = IF i = k THEN rc[k] + 1 ELSE rc[i]
    BY <2>0, Updated
  <2> HIDE DEF new
  <2>3. Counted(rc, op, k) = new
    BY <2>1 DEF new
  <2> QED
    BY <1>0, <2>0, <2>1, <2>2, <2>3
<1>4. CASE k # None /\ op \notin {"release", "retain"}
  <2>1. Counted(rc, op, k) = rc /\ Change(op) = 0
    BY <1>4 DEF Counted, Change
  <2> QED
    BY <1>0, <2>1
<1> QED
  BY <1>1, <1>2, <1>3, <1>4

LEMMA AutoreleasedType ==
    ASSUME NEW p \in Seq(SUBSET Nat), NEW op, NEW id \in Nat
    PROVE  Autoreleased(op, p, id) \in Seq(SUBSET Nat)
BY PoolSet DEF Autoreleased

\* The objects before the operation, the new one among them.
Base(of) == IF of = Fresh THEN Append(run.rc, 1) ELSE run.rc

LEMMA BaseIs ==
    ASSUME TypeInv, Fresh \notin Local, NEW of \in Local \cup {Fresh}
    PROVE  /\ Len(Base(of)) \in Nat /\ Len(Base(of)) >= Len(run.rc)
           /\ Base(of) \in Seq(Int) /\ Len(run.rc) \in Nat /\ run.rc \in Seq(Int)
           /\ Len(Base(of)) = Len(run.rc) + (IF of = Fresh THEN 1 ELSE 0)
           /\ \A i \in 1 .. Len(run.rc) : Base(of)[i] = run.rc[i]
           /\ of = Fresh => Base(of)[Len(run.rc) + 1] = 1
           /\ RunTarget(of) \in 0 .. Len(Base(of))
           /\ of # Fresh => of \in Local /\ RunTarget(of) = run.var[of]
           /\ of = Fresh => RunTarget(of) = Len(run.rc) + 1
<1>1. run.rc \in Seq(Int) /\ Len(run.rc) \in Nat
  BY DEF TypeInv, Run_state
<1>2. CASE of = Fresh
  BY <1>1, <1>2, AppendProperties DEF Base, RunTarget
<1>3. CASE of # Fresh
  BY <1>1, <1>3 DEF Base, RunTarget, TypeInv, InRange
<1> QED
  BY <1>2, <1>3

LEMMA RunOpIs ==
    ASSUME TypeInv, Fresh \notin Local, NEW of \in Local \cup {Fresh}, NEW op, NEW r, r = RunOp(op, of)
    PROVE  /\ r \in Run_state /\ r.var = run.var /\ r.given = run.given /\ r.exact = run.exact
           /\ Len(r.rc) = Len(Base(of)) /\ RunTarget(of) \in 0 .. Len(r.rc)
           /\ \A i \in 1 .. Len(r.rc) :
                 r.rc[i] = Base(of)[i] + IF i = RunTarget(of) THEN Change(op) ELSE 0
           /\ r.pools = IF RunTarget(of) = None THEN run.pools
                        ELSE Autoreleased(op, run.pools, RunTarget(of))
           /\ InRange(r)
<1> DEFINE k == RunTarget(of)
           rc == Counted(Base(of), op, k)
           pools == IF k = None THEN run.pools ELSE Autoreleased(op, run.pools, k)
<1>1. k \in 0 .. Len(Base(of)) /\ Base(of) \in Seq(Int) /\ Len(Base(of)) >= Len(run.rc)
      /\ Len(run.rc) \in Nat /\ Len(Base(of)) \in Nat
  <2> HIDE DEF rc, pools
  <2> QED
    BY BaseIs
<1>2. /\ rc \in Seq(Int) /\ Len(rc) = Len(Base(of))
      /\ \A i \in 1 .. Len(Base(of)) : rc[i] = Base(of)[i] + IF i = k THEN Change(op) ELSE 0
  <2> HIDE DEF k
  <2> QED
    BY <1>1, CountedIs
<1>3. pools \in Seq(SUBSET Nat)
  BY <1>1, AutoreleasedType DEF TypeInv, Run_state
<1>4. r = [run EXCEPT !.rc = rc, !.pools = pools]
  BY DEF RunOp, Base, Autoreleased
<1> HIDE DEF k, rc, pools
<1>5. /\ r \in Run_state /\ r.var = run.var /\ r.given = run.given /\ r.exact = run.exact
      /\ r.rc = rc /\ r.pools = pools
  BY <1>2, <1>3, <1>4 DEF TypeInv, Run_state
<1>6. InRange(r)
  BY <1>1, <1>2, <1>5 DEF TypeInv, InRange
<1> QED
  BY <1>1, <1>2, <1>5, <1>6 DEF k, pools

LEMMA RunPopIs ==
    ASSUME TypeInv, NEW r, r = RunPop
    PROVE  /\ r \in Run_state /\ r.var = run.var /\ r.given = run.given /\ r.exact = run.exact
           /\ r.pools = Front(run.pools) /\ Len(r.rc) = Len(run.rc) /\ InRange(r)
           /\ \A i \in 1 .. Len(run.rc) :
                 r.rc[i] = run.rc[i] - IF i \in Last(run.pools) THEN 1 ELSE 0
<1> DEFINE pool == Last(run.pools)
           rc == [i \in DOMAIN run.rc |-> IF i \in pool THEN run.rc[i] - 1 ELSE run.rc[i]]
<1>1. run.rc \in Seq(Int) /\ Len(run.rc) \in Nat /\ DOMAIN run.rc = 1 .. Len(run.rc)
      /\ \A i \in 1 .. Len(run.rc) : run.rc[i] \in Int
  BY DEF TypeInv, Run_state
<1>2. rc \in [1 .. Len(run.rc) -> Int]
  BY <1>1
<1>3. Front(run.pools) \in Seq(SUBSET Nat)
  BY FrontType DEF TypeInv, Run_state
<1>4. r = [run EXCEPT !.pools = Front(run.pools), !.rc = rc]
  BY DEF RunPop
<1>5. \A i \in 1 .. Len(run.rc) : rc[i] = run.rc[i] - IF i \in pool THEN 1 ELSE 0
  BY <1>1
<1> HIDE DEF rc, pool
<1>6. rc \in Seq(Int) /\ Len(rc) = Len(run.rc)
  BY <1>1, <1>2
<1>7. /\ r \in Run_state /\ r.var = run.var /\ r.given = run.given /\ r.exact = run.exact
      /\ r.rc = rc /\ r.pools = Front(run.pools)
  BY <1>3, <1>4, <1>6 DEF TypeInv, Run_state
<1>8. InRange(r)
  BY <1>6, <1>7 DEF TypeInv, InRange
<1> QED
  BY <1>5, <1>6, <1>7, <1>8 DEF pool

-----------------------------------------------------------------------------
(* The objects of the trace and those of the run *)

ObjectsAgree(s, r) ==
    /\ Len(s.objects) = Len(r.rc) /\ s.pools = r.pools
    /\ \A i \in DOMAIN s.objects :
          /\ s.objects[i].real = i /\ s.objects[i].count = r.rc[i]
          /\ s.objects[i].escaped \/ s.objects[i].is_param => i \in r.given

LEMMA RefopIs ==
    ASSUME TypeInv, Fresh \notin Local, NEW op, NEW of \in Local \cup {Fresh},
           NEW t, t = refop(st, op, of)
    PROVE  t \in State /\ t.bindings = st.bindings /\ Target(st, of) \in Nat
<1>1. CASE of = Fresh
  <2> DEFINE s == create(st, FALSE)
             id == Target(st, of)
  <2>1. s \in State /\ s.bindings = st.bindings
    BY CreateIs DEF TypeInv
  <2>2. id \in Nat
    BY <1>1, Objects DEF Target, TypeInv
  <2>3. t = apply(s, op, id)
    BY <1>1 DEF refop
  <2> HIDE DEF s, id
  <2>4. t \in State /\ t.bindings = s.bindings
    BY <2>1, <2>2, <2>3, ApplyIs
  <2> QED
    BY <2>1, <2>2, <2>4 DEF id
<1>2. CASE of # Fresh
  <2>1. Target(st, of) = resolve(st, of) /\ Target(st, of) \in Nat
    BY <1>2, ResolveType DEF Target, TypeInv
  <2>2. t = st \/ t = apply(st, op, Target(st, of))
    BY <1>2 DEF refop
  <2>3. t \in State /\ t.bindings = st.bindings
    BY <2>1, <2>2, ApplyIs DEF TypeInv
  <2> QED
    BY <2>1, <2>3
<1> QED
  BY <1>1, <1>2

\* On the path an operation does to the count what it does to that of the trace.
LEMMA RefopAgrees ==
    ASSUME TypeInv, Fresh \notin Local, On, ObjectsAgree(st, run), NEW op,
           NEW of \in Local \cup {Fresh}, of # Fresh => resolve(st, of) = run.var[of]
    PROVE  /\ Target(st, of) = RunTarget(of)
           /\ ObjectsAgree(refop(st, op, of), RunOp(op, of))
<1> DEFINE k == RunTarget(of)
           r == RunOp(op, of)
           t == refop(st, op, of)
<1>0. Len(st.objects) = Len(run.rc) /\ Len(run.rc) \in Nat /\ DOMAIN st.objects = 1 .. Len(run.rc)
      /\ \A i \in DOMAIN st.objects : st.objects[i].count \in Int
  BY Objects, BaseIs DEF ObjectsAgree, TypeInv
<1>b. /\ Len(Base(of)) = Len(run.rc) + (IF of = Fresh THEN 1 ELSE 0)
      /\ \A i \in 1 .. Len(run.rc) : Base(of)[i] = run.rc[i]
      /\ of = Fresh => Base(of)[Len(run.rc) + 1] = 1
      /\ k \in 0 .. Len(Base(of))
      /\ of # Fresh => k = run.var[of]
      /\ of = Fresh => k = Len(run.rc) + 1
  <2> HIDE DEF r, t
  <2> QED
    BY BaseIs
<1> HIDE DEF k, r, t
<1>1. Target(st, of) = k /\ k \in Nat
  BY <1>0, <1>b DEF Target
<1>2. /\ r.given = run.given /\ Len(r.rc) = Len(Base(of)) /\ k \in 0 .. Len(r.rc)
      /\ \A i \in 1 .. Len(r.rc) : r.rc[i] = Base(of)[i] + IF i = k THEN Change(op) ELSE 0
      /\ r.pools = IF k = None THEN run.pools ELSE Autoreleased(op, run.pools, k)
  BY RunOpIs DEF r, k
<1>3. CASE of = Fresh
  <2> DEFINE s == create(st, FALSE)
  <2>1. /\ s \in State /\ s.pools = st.pools
        /\ Len(s.objects) = Len(run.rc) + 1 /\ DOMAIN s.objects = 1 .. Len(run.rc) + 1
        /\ \A i \in DOMAIN st.objects : s.objects[i] = st.objects[i]
        /\ LET e == s.objects[Len(run.rc) + 1]
           IN  /\ e.count = 1 /\ e.is_param = FALSE /\ e.escaped = FALSE
               /\ e.real = Len(run.rc) + 1
    <3> HIDE DEF s
    <3>1. /\ s \in State /\ s.pools = st.pools
          /\ Len(s.objects) = Len(st.objects) + 1 /\ DOMAIN s.objects = 1 .. Len(st.objects) + 1
          /\ \A i \in DOMAIN st.objects : s.objects[i] = st.objects[i]
          /\ LET e == s.objects[Len(st.objects) + 1]
             IN  /\ e.count = 1 /\ e.is_param = FALSE /\ e.escaped = FALSE
                 /\ On => e.real = Len(run.rc) + 1
      BY CreateIs DEF s
    <3> QED
      BY <1>0, <3>1
  <2>2. t = apply(s, op, k)
    BY <1>1, <1>3 DEF refop, t
  <2> HIDE DEF s
  <2>3. /\ Len(t.objects) = Len(s.objects) /\ DOMAIN t.objects = DOMAIN s.objects
        /\ \A i \in DOMAIN s.objects :
              /\ t.objects[i].real = s.objects[i].real
              /\ t.objects[i].is_param = s.objects[i].is_param
              /\ t.objects[i].escaped = s.objects[i].escaped
              /\ t.objects[i].count = s.objects[i].count + IF i = k THEN Change(op) ELSE 0
        /\ t.pools = Autoreleased(op, s.pools, k)
    BY <1>1, <2>1, <2>2, ApplyIs
  <2>4. /\ Len(r.rc) = Len(run.rc) + 1 /\ Base(of)[Len(run.rc) + 1] = 1 /\ k # None
        /\ \A i \in 1 .. Len(run.rc) : Base(of)[i] = run.rc[i]
    BY <1>0, <1>b, <1>2, <1>3 DEF None
  <2>5. ASSUME NEW i \in DOMAIN t.objects
        PROVE  /\ t.objects[i].real = i /\ t.objects[i].count = r.rc[i]
               /\ t.objects[i].escaped \/ t.objects[i].is_param => i \in r.given
    <3>1. CASE i \in 1 .. Len(run.rc)
      <4>1. i \in DOMAIN st.objects /\ i \in DOMAIN s.objects /\ i \in 1 .. Len(r.rc)
        BY <1>0, <2>1, <2>4, <3>1
      <4>2. s.objects[i] = st.objects[i] /\ Base(of)[i] = run.rc[i]
        BY <2>1, <2>4, <3>1, <4>1
      <4>3. st.objects[i].real = i /\ st.objects[i].count = run.rc[i]
            /\ (st.objects[i].escaped \/ st.objects[i].is_param => i \in run.given)
        BY <4>1 DEF ObjectsAgree
      <4> QED
        BY <1>2, <2>3, <4>1, <4>2, <4>3
    <3>2. CASE i = Len(run.rc) + 1
      <4>1. i \in DOMAIN s.objects /\ i \in 1 .. Len(r.rc)
        BY <1>0, <2>1, <2>4, <3>2
      <4> QED
        BY <1>2, <2>1, <2>3, <2>4, <3>2, <4>1
    <3>3. i \in 1 .. Len(run.rc) \/ i = Len(run.rc) + 1
      BY <1>0, <2>1, <2>3
    <3> QED
      BY <3>1, <3>2, <3>3
  <2>6. t.pools = r.pools
    BY <1>2, <2>1, <2>3, <2>4 DEF ObjectsAgree
  <2>7. ObjectsAgree(t, r)
    BY <2>1, <2>3, <2>4, <2>5, <2>6 DEF ObjectsAgree
  <2> QED
    BY <1>1, <2>7 DEF t, r, k
<1>4. CASE of # Fresh
  <2>1. Len(r.rc) = Len(run.rc) /\ \A i \in 1 .. Len(run.rc) : Base(of)[i] = run.rc[i]
    BY <1>0, <1>b, <1>2, <1>4
  <2>2. t = IF k = None THEN st ELSE apply(st, op, k)
    BY <1>1, <1>4 DEF refop, t
  <2>3. CASE k = None
    <3>1. \A i \in 1 .. Len(run.rc) : r.rc[i] = run.rc[i]
      <4>1. \A i \in 1 .. Len(run.rc) : i # k /\ run.rc[i] \in Int
        BY <1>0, <2>3 DEF None, ObjectsAgree
      <4> QED
        BY <1>2, <2>1, <4>1
    <3>2. ObjectsAgree(t, r)
      BY <1>0, <1>2, <2>1, <2>2, <2>3, <3>1 DEF ObjectsAgree
    <3> QED
      BY <1>1, <3>2 DEF t, r, k
  <2>4. CASE k # None
    <3>1. t = apply(st, op, k)
      BY <2>2, <2>4
    <3>2. /\ Len(t.objects) = Len(st.objects) /\ DOMAIN t.objects = DOMAIN st.objects
          /\ \A i \in DOMAIN st.objects :
                /\ t.objects[i].real = st.objects[i].real
                /\ t.objects[i].is_param = st.objects[i].is_param
                /\ t.objects[i].escaped = st.objects[i].escaped
                /\ t.objects[i].count = st.objects[i].count + IF i = k THEN Change(op) ELSE 0
          /\ t.pools = Autoreleased(op, st.pools, k)
      BY <1>1, <3>1, ApplyIs DEF TypeInv
    <3>3. t.pools = r.pools
      BY <1>2, <2>4, <3>2 DEF ObjectsAgree
    <3>4. \A i \in DOMAIN t.objects :
            /\ t.objects[i].real = i /\ t.objects[i].count = r.rc[i]
            /\ t.objects[i].escaped \/ t.objects[i].is_param => i \in r.given
      BY <1>0, <1>2, <2>1, <3>2 DEF ObjectsAgree
    <3>5. ObjectsAgree(t, r)
      BY <1>0, <2>1, <3>2, <3>3, <3>4 DEF ObjectsAgree
    <3> QED
      BY <1>1, <3>5 DEF t, r, k
  <2> QED
    BY <2>3, <2>4
<1> QED
  BY <1>3, <1>4

LEMMA PopAgrees ==
    ASSUME TypeInv, NEW s \in State, ObjectsAgree(s, run)
    PROVE  ObjectsAgree(PopPool(s), RunPop)
<1> DEFINE t == PopPool(s)
           r == RunPop
<1>1. /\ t.pools = Front(s.pools)
      /\ Len(t.objects) = Len(s.objects) /\ DOMAIN t.objects = DOMAIN s.objects
      /\ \A i \in DOMAIN s.objects :
            /\ t.objects[i].real = s.objects[i].real
            /\ t.objects[i].is_param = s.objects[i].is_param
            /\ t.objects[i].escaped = s.objects[i].escaped
            /\ t.objects[i].count = s.objects[i].count - IF i \in Last(s.pools) THEN 1 ELSE 0
  BY PopPoolIs
<1>2. /\ r.given = run.given /\ r.pools = Front(run.pools) /\ Len(r.rc) = Len(run.rc)
      /\ \A i \in 1 .. Len(run.rc) : r.rc[i] = run.rc[i] - IF i \in Last(run.pools) THEN 1 ELSE 0
  BY RunPopIs
<1>3. DOMAIN s.objects = 1 .. Len(run.rc)
  BY Objects DEF ObjectsAgree
<1> HIDE DEF t, r
<1>4. ObjectsAgree(t, r)
  BY <1>1, <1>2, <1>3 DEF ObjectsAgree
<1> QED
  BY <1>4 DEF t, r

-----------------------------------------------------------------------------
(* The names of the trace and the variables of the run *)

\* The scopes that a block opens, and those that are open in it.
Opens(kind) ==
    CASE kind = "function" -> 2 [] kind \in {"loop", "block", "pool"} -> 1 [] OTHER -> 0
Level(f) ==
    Len(f.snap.bindings) + Opens(f.kind)

\* A name of the first n blocks is bound to what its variable points to, and in no
\* block inside the one that declares it; no other name is bound.
NamesAgree(s, fs, n, var) ==
    /\ \A j \in 1 .. n : \A v \in fs[j].names :
          /\ resolve(s, v) = var[v]
          /\ \A m \in DOMAIN s.bindings : BoundAt(s, v, m) => m <= Level(fs[j])
    /\ \A v \in Local : \A m \in DOMAIN s.bindings :
          BoundAt(s, v, m) => m > 1 /\ \E j \in 1 .. n : v \in fs[j].names \cup fs[j].gone

LEMMA Frames ==
    ASSUME NEW fs \in Seq(Block_frame)
    PROVE  /\ Len(fs) \in Nat /\ DOMAIN fs = 1 .. Len(fs)
           /\ \A i \in 1 .. Len(fs) :
                 /\ fs[i] \in Block_frame /\ fs[i].kind \in Kind
                 /\ fs[i].names \in SUBSET Local /\ fs[i].gone \in SUBSET Local
                 /\ fs[i].snap \in State /\ fs[i].iters \in Int
                 /\ fs[i].on \in BOOLEAN /\ fs[i].has_else \in BOOLEAN
                 /\ fs[i].closed \in BOOLEAN
                 /\ Len(fs[i].snap.bindings) \in Nat /\ Level(fs[i]) \in Nat
                 /\ Level(fs[i]) >= Len(fs[i].snap.bindings)
<1>1. ASSUME NEW f \in Block_frame
      PROVE  /\ f.kind \in Kind /\ f.names \in SUBSET Local /\ f.gone \in SUBSET Local
             /\ f.snap \in State /\ f.iters \in Int
             /\ f.on \in BOOLEAN /\ f.has_else \in BOOLEAN /\ f.closed \in BOOLEAN
             /\ Len(f.snap.bindings) \in Nat /\ Level(f) \in Nat
             /\ Level(f) >= Len(f.snap.bindings)
  <2>1. /\ f.kind \in Kind /\ f.names \in SUBSET Local /\ f.gone \in SUBSET Local
        /\ f.snap \in State /\ f.iters \in Int
        /\ f.on \in BOOLEAN /\ f.has_else \in BOOLEAN /\ f.closed \in BOOLEAN
    BY DEF Block_frame
  <2>2. Len(f.snap.bindings) \in Nat
    BY <2>1, Scopes
  <2>3. Opens(f.kind) \in Nat
    BY DEF Opens
  <2>4. Level(f) = Len(f.snap.bindings) + Opens(f.kind)
    BY DEF Level
  <2>5. Level(f) \in Nat /\ Level(f) >= Len(f.snap.bindings)
    <3> DEFINE a == Len(f.snap.bindings)
               b == Opens(f.kind)
    <3>1. a \in Nat /\ b \in Nat
      BY <2>2, <2>3
    <3> HIDE DEF a, b
    <3>2. a + b \in Nat /\ a + b >= a
      BY <3>1
    <3> QED
      BY <2>4, <3>2 DEF a, b
  <2> QED
    BY <2>1, <2>2, <2>5
<1>2. \A i \in 1 .. Len(fs) : fs[i] \in Block_frame
  OBVIOUS
<1> QED
  BY <1>1, <1>2

LEMMA NamesKept ==
    ASSUME NEW s, NEW t, NEW fs, NEW gs, NEW n \in Nat, NEW var, NamesAgree(s, fs, n, var),
           t.bindings = s.bindings,
           \A j \in 1 .. n : /\ gs[j].names = fs[j].names /\ fs[j].gone \subseteq gs[j].gone
                            /\ Level(gs[j]) = Level(fs[j])
    PROVE  NamesAgree(t, gs, n, var)
<1>1. \A v : resolve(t, v) = resolve(s, v)
  BY ResolveSame
<1> QED
  BY <1>1 DEF NamesAgree, BoundAt

\* A block without names opens, and the names of a block that ends are gone.
LEMMA NamesOpen ==
    ASSUME NEW s, NEW fs, NEW gs, NEW n \in Nat, NEW var, NamesAgree(s, fs, n, var),
           \A j \in 1 .. n : gs[j] = fs[j], gs[n + 1].names = {}
    PROVE  NamesAgree(s, gs, n + 1, var)
<1>1. \A j \in 1 .. n + 1 : j \in 1 .. n \/ j = n + 1
  OBVIOUS
<1>2. 1 .. n \subseteq 1 .. n + 1
  OBVIOUS
<1> QED
  BY <1>1, <1>2 DEF NamesAgree

LEMMA NamesClose ==
    ASSUME NEW s, NEW fs, NEW gs, NEW n \in Nat, n > 1, NEW var, NamesAgree(s, fs, n, var),
           \A j \in 1 .. n - 1 : /\ gs[j].names = fs[j].names /\ fs[j].gone \subseteq gs[j].gone
                                /\ Level(gs[j]) = Level(fs[j]),
           fs[n].names \cup fs[n].gone \subseteq gs[n - 1].gone
    PROVE  NamesAgree(s, gs, n - 1, var)
<1>1. \A j \in 1 .. n : j \in 1 .. n - 1 \/ j = n
  OBVIOUS
<1>2. 1 .. n - 1 \subseteq 1 .. n /\ n - 1 \in 1 .. n - 1
  OBVIOUS
<1>3. ASSUME NEW v \in Local, NEW j \in 1 .. n, v \in fs[j].names \cup fs[j].gone
      PROVE  \E k \in 1 .. n - 1 : v \in gs[k].names \cup gs[k].gone
  BY <1>1, <1>2, <1>3
<1> QED
  BY <1>2, <1>3 DEF NamesAgree

LEMMA NamesScope ==
    ASSUME NEW s \in State, NEW t, t = Scope(s), NEW fs, NEW n, NEW var, NamesAgree(s, fs, n, var),
           \A j \in 1 .. n : fs[j].names \subseteq Local
    PROVE  NamesAgree(t, fs, n, var)
<1>1. /\ t \in State /\ DOMAIN t.bindings = 1 .. Len(s.bindings) + 1
      /\ \A m \in DOMAIN s.bindings : t.bindings[m] = s.bindings[m]
      /\ \A v \in Local : t.bindings[Len(s.bindings) + 1][v] = None
  BY ScopeIs
<1>2. DOMAIN s.bindings = 1 .. Len(s.bindings) /\ Len(s.bindings) \in Nat
  BY Scopes
<1>3. ASSUME NEW v \in Local, NEW m
      PROVE  /\ m \in DOMAIN s.bindings /\ BoundAt(s, v, m) => m \in DOMAIN t.bindings /\ BoundAt(t, v, m)
             /\ m \in DOMAIN t.bindings /\ BoundAt(t, v, m) => m \in DOMAIN s.bindings /\ BoundAt(s, v, m)
  BY <1>1, <1>2 DEF BoundAt
<1>4. ASSUME NEW v \in Local PROVE resolve(t, v) = resolve(s, v)
  <2>1. CASE \A k \in DOMAIN s.bindings : ~BoundAt(s, v, k)
    <3>1. \A k \in DOMAIN t.bindings : ~BoundAt(t, v, k)
      BY <1>3, <2>1
    <3>2. resolve(t, v) = None /\ resolve(s, v) = None
      BY <1>1, <2>1, <3>1, ResolveNone
    <3> QED
      BY <3>2
  <2>2. ASSUME NEW m \in DOMAIN s.bindings, BoundAt(s, v, m),
               \A k \in DOMAIN s.bindings : BoundAt(s, v, k) => k <= m
        PROVE  resolve(t, v) = resolve(s, v)
    <3>1. /\ m \in DOMAIN t.bindings /\ BoundAt(t, v, m)
          /\ \A k \in DOMAIN t.bindings : BoundAt(t, v, k) => k <= m
      BY <1>3, <2>2
    <3>2. resolve(t, v) = t.bindings[m][v] /\ resolve(s, v) = s.bindings[m][v]
      BY <1>1, <2>2, <3>1, ResolveTop
    <3> QED
      BY <1>1, <2>2, <3>2
  <2> QED
    BY <2>1, <2>2, ResolveIs
<1> QED
  BY <1>3, <1>4 DEF NamesAgree

\* The innermost scope ends, in which none of the names is bound.
LEMMA NamesEndScope ==
    ASSUME NEW s \in State, s.bindings # <<>>, NEW t, t = EndScope(s), NEW fs, NEW n, NEW var,
           NamesAgree(s, fs, n, var),
           \A j \in 1 .. n : /\ fs[j].names \subseteq Local /\ Level(fs[j]) \in Nat
                            /\ Level(fs[j]) < Len(s.bindings)
    PROVE  NamesAgree(t, fs, n, var)
<1>1. /\ t \in State /\ DOMAIN t.bindings = 1 .. Len(s.bindings) - 1
      /\ \A m \in DOMAIN t.bindings : m \in DOMAIN s.bindings /\ t.bindings[m] = s.bindings[m]
  BY EndScopeIs
<1>2. DOMAIN s.bindings = 1 .. Len(s.bindings) /\ Len(s.bindings) \in Nat
  BY Scopes
<1>3. \A v, m : m \in DOMAIN t.bindings /\ BoundAt(t, v, m) => m \in DOMAIN s.bindings /\ BoundAt(s, v, m)
  BY <1>1 DEF BoundAt
<1>4. ASSUME NEW j \in 1 .. n, NEW v \in fs[j].names PROVE resolve(t, v) = resolve(s, v)
  <2>0. ASSUME NEW m \in DOMAIN s.bindings, BoundAt(s, v, m) PROVE m \in DOMAIN t.bindings /\ BoundAt(t, v, m)
    <3>1. m <= Level(fs[j])
      BY <2>0 DEF NamesAgree
    <3>2. m \in DOMAIN t.bindings
      BY <1>1, <1>2, <3>1
    <3> QED
      BY <1>1, <2>0, <3>2 DEF BoundAt
  <2>1. CASE \A k \in DOMAIN s.bindings : ~BoundAt(s, v, k)
    <3>1. \A k \in DOMAIN t.bindings : ~BoundAt(t, v, k)
      BY <1>3, <2>1
    <3>2. resolve(t, v) = None /\ resolve(s, v) = None
      BY <1>1, <2>1, <3>1, ResolveNone
    <3> QED
      BY <3>2
  <2>2. ASSUME NEW m \in DOMAIN s.bindings, BoundAt(s, v, m),
               \A k \in DOMAIN s.bindings : BoundAt(s, v, k) => k <= m
        PROVE  resolve(t, v) = resolve(s, v)
    <3>1. m \in DOMAIN t.bindings /\ BoundAt(t, v, m)
      BY <2>0, <2>2
    <3>2. \A k \in DOMAIN t.bindings : BoundAt(t, v, k) => k <= m
      BY <1>3, <2>2
    <3>3. resolve(t, v) = t.bindings[m][v] /\ resolve(s, v) = s.bindings[m][v]
      BY <1>1, <2>2, <3>1, <3>2, ResolveTop
    <3> QED
      BY <1>1, <3>1, <3>3
  <2> QED
    BY <2>1, <2>2, ResolveIs
<1> QED
  BY <1>3, <1>4 DEF NamesAgree

\* A name that is new is not bound.
NewName(fs, n, v) == \A j \in 1 .. n : v \notin fs[j].names \cup fs[j].gone
Named(fs, gs, n, v) ==
    \A j \in 1 .. n : /\ fs[j].names \subseteq gs[j].names /\ gs[j].names \subseteq fs[j].names \cup {v}
                     /\ gs[j].gone = fs[j].gone /\ Level(gs[j]) = Level(fs[j])
Elsewhere(now, var, v) == \A w : w # v => now[w] = var[w]

LEMMA NamesDeclare ==
    ASSUME NEW s \in State, NEW fs, NEW gs, NEW n \in Nat, NEW var, NEW now, NEW v \in Local,
           NamesAgree(s, fs, n, var), NewName(fs, n, v), Named(fs, gs, n, v),
           now[v] = None, Elsewhere(now, var, v)
    PROVE  NamesAgree(s, gs, n, now)
<1>1. \A m \in DOMAIN s.bindings : ~BoundAt(s, v, m)
  BY DEF NamesAgree, NewName
<1>2. resolve(s, v) = None
  BY <1>1, ResolveNone
<1>3. ASSUME NEW j \in 1 .. n, NEW w \in gs[j].names
      PROVE  /\ resolve(s, w) = now[w]
             /\ \A m \in DOMAIN s.bindings : BoundAt(s, w, m) => m <= Level(gs[j])
  <2>1. CASE w = v
    BY <1>1, <1>2, <2>1
  <2>2. CASE w # v
    <3>1. w \in fs[j].names /\ Level(gs[j]) = Level(fs[j]) /\ now[w] = var[w]
      BY <2>2 DEF Named, Elsewhere
    <3> QED
      BY <3>1 DEF NamesAgree
  <2> QED
    BY <2>1, <2>2
<1>4. \A j \in 1 .. n : fs[j].names \cup fs[j].gone \subseteq gs[j].names \cup gs[j].gone
  BY DEF Named
<1> QED
  BY <1>3, <1>4 DEF NamesAgree

LEMMA NamesBind ==
    ASSUME NEW s \in State, Len(s.bindings) > 1, NEW v \in Local, NEW id \in Nat, id # None,
           NEW t, t = bind(s, v, id), NEW fs, NEW n, NEW var, NEW now,
           NamesAgree(s, fs, n, var),
           NEW i \in 1 .. n, v \in fs[i].names, Level(fs[i]) \in Nat, Level(fs[i]) >= Len(s.bindings),
           \A j \in 1 .. n : fs[j].names \subseteq Local /\ (j # i => v \notin fs[j].names),
           now[v] = id, Elsewhere(now, var, v)
    PROVE  NamesAgree(t, fs, n, now)
<1>0. DOMAIN s.bindings = 1 .. Len(s.bindings) /\ Len(s.bindings) \in Nat /\ s.bindings # <<>>
  BY Scopes
<1>1. /\ t \in State /\ DOMAIN t.bindings = DOMAIN s.bindings
      /\ t.bindings[Len(s.bindings)][v] = id
      /\ \A m \in DOMAIN s.bindings : \A w \in Local :
            w # v \/ m # Len(s.bindings) => t.bindings[m][w] = s.bindings[m][w]
  BY <1>0, BindIs
<1>2. resolve(t, v) = id
  <2>1. Len(s.bindings) \in DOMAIN t.bindings /\ BoundAt(t, v, Len(s.bindings))
    BY <1>0, <1>1 DEF BoundAt
  <2>2. \A k \in DOMAIN t.bindings : k <= Len(s.bindings)
    BY <1>0, <1>1
  <2> QED
    BY <1>1, <2>1, <2>2, ResolveTop
<1>3. ASSUME NEW w \in Local, w # v PROVE resolve(t, w) = resolve(s, w)
  <2>0. \A k \in DOMAIN s.bindings : t.bindings[k][w] = s.bindings[k][w] /\ (BoundAt(t, w, k) <=> BoundAt(s, w, k))
    BY <1>1, <1>3 DEF BoundAt
  <2>1. CASE \A k \in DOMAIN s.bindings : ~BoundAt(s, w, k)
    <3>1. \A k \in DOMAIN t.bindings : ~BoundAt(t, w, k)
      BY <1>1, <2>0, <2>1
    <3>2. resolve(t, w) = None /\ resolve(s, w) = None
      BY <1>1, <2>1, <3>1, ResolveNone
    <3> QED
      BY <3>2
  <2>2. ASSUME NEW m \in DOMAIN s.bindings, BoundAt(s, w, m),
               \A k \in DOMAIN s.bindings : BoundAt(s, w, k) => k <= m
        PROVE  resolve(t, w) = resolve(s, w)
    <3>1. /\ m \in DOMAIN t.bindings /\ BoundAt(t, w, m)
          /\ \A k \in DOMAIN t.bindings : BoundAt(t, w, k) => k <= m
      BY <1>1, <2>0, <2>2
    <3>2. resolve(t, w) = t.bindings[m][w] /\ resolve(s, w) = s.bindings[m][w]
      BY <1>1, <2>2, <3>1, ResolveTop
    <3> QED
      BY <2>0, <2>2, <3>2
  <2> QED
    BY <2>1, <2>2, ResolveIs
<1>4. ASSUME NEW w \in Local, NEW m \in DOMAIN t.bindings, BoundAt(t, w, m)
      PROVE  BoundAt(s, w, m) \/ (w = v /\ m = Len(s.bindings))
  BY <1>1, <1>4 DEF BoundAt
<1>5. ASSUME NEW j \in 1 .. n, NEW w \in fs[j].names
      PROVE  /\ resolve(t, w) = now[w]
             /\ \A m \in DOMAIN t.bindings : BoundAt(t, w, m) => m <= Level(fs[j])
  <2>1. CASE w = v
    <3>1. j = i
      BY <2>1
    <3>2. \A m \in DOMAIN t.bindings : m <= Level(fs[j])
      BY <1>0, <1>1, <3>1
    <3> QED
      BY <1>2, <2>1, <3>2
  <2>2. CASE w # v
    <3>1. w \in Local
      OBVIOUS
    <3>2. resolve(s, w) = var[w] /\ \A m \in DOMAIN s.bindings : BoundAt(s, w, m) => m <= Level(fs[j])
      BY DEF NamesAgree
    <3>3. now[w] = var[w]
      BY <2>2 DEF Elsewhere
    <3> QED
      BY <1>1, <1>3, <1>4, <2>2, <3>1, <3>2, <3>3
  <2> QED
    BY <2>1, <2>2
<1>6. ASSUME NEW w \in Local, NEW m \in DOMAIN t.bindings, BoundAt(t, w, m)
      PROVE  m > 1 /\ \E j \in 1 .. n : w \in fs[j].names \cup fs[j].gone
  <2>1. CASE BoundAt(s, w, m)
    BY <1>1, <2>1 DEF NamesAgree
  <2>2. CASE w = v /\ m = Len(s.bindings)
    BY <2>2
  <2> QED
    BY <1>4, <1>6, <2>1, <2>2
<1> QED
  BY <1>5, <1>6 DEF NamesAgree

-----------------------------------------------------------------------------
(* The blocks that are open *)

\* The trace forgets what it has seen in these blocks.
TakenBack(f) == f.kind = "loop" \/ (f.kind = "then" /\ f.has_else)
Branch(f) == f.kind \in {"then", "else"}

\* len scopes are open.
Nested(fs, len) ==
    /\ \A i \in 1 .. Len(fs) : (fs[i].kind = "function" <=> i = 1) /\ (TakenBack(fs[i]) => ~fs[i].on)
    /\ \A i, j \in 1 .. Len(fs) : i # j => fs[i].names \cap fs[j].names = {}
    /\ \A i \in 2 .. Len(fs) : Len(fs[i].snap.bindings) = Level(fs[i - 1])
    /\ \A i, j \in 1 .. Len(fs) : i < j => Level(fs[i]) <= Len(fs[j].snap.bindings)
    /\ \A i, j \in 1 .. Len(fs) :
          i <= j /\ (\A k \in i + 1 .. j : Branch(fs[k])) => Level(fs[i]) = Level(fs[j])
    /\ Len(fs) > 0 => Len(fs[1].snap.bindings) = 1 /\ len = Level(fs[Len(fs)])
    /\ Len(fs) = 0 => len = 1

\* The blocks below look as before.
Alike(f, g) ==
    /\ g.kind = f.kind /\ g.names = f.names /\ g.snap = f.snap /\ g.has_else = f.has_else
    /\ g.on => f.on

LEMMA NestedAlike ==
    ASSUME NEW fs \in Seq(Block_frame), NEW gs \in Seq(Block_frame), NEW len, Nested(fs, len),
           Len(gs) <= Len(fs), Len(gs) > 0, \A i \in 1 .. Len(gs) : Alike(fs[i], gs[i])
    PROVE  Nested(gs, Level(gs[Len(gs)]))
<1>1. 1 .. Len(gs) \subseteq 1 .. Len(fs) /\ 2 .. Len(gs) \subseteq 2 .. Len(fs)
      /\ Len(gs) \in Nat /\ Len(fs) \in Nat
  OBVIOUS
<1>2. \A i \in 1 .. Len(gs) :
         /\ gs[i].kind = fs[i].kind /\ gs[i].names = fs[i].names /\ gs[i].snap = fs[i].snap
         /\ Level(gs[i]) = Level(fs[i]) /\ (Branch(gs[i]) <=> Branch(fs[i]))
  BY DEF Alike, Level, Branch
<1>3. \A i \in 1 .. Len(gs) : TakenBack(gs[i]) => ~gs[i].on
  <2>1. \A i \in 1 .. Len(gs) : TakenBack(fs[i]) => ~fs[i].on
    BY <1>1 DEF Nested
  <2> QED
    BY <2>1 DEF Alike, TakenBack
<1>4. \A i \in 1 .. Len(gs) : gs[i].kind = "function" <=> i = 1
  BY <1>1, <1>2 DEF Nested
<1>5. \A i, j \in 1 .. Len(gs) : i # j => gs[i].names \cap gs[j].names = {}
  BY <1>1, <1>2 DEF Nested
<1>6. \A i \in 2 .. Len(gs) : Len(gs[i].snap.bindings) = Level(gs[i - 1])
  <2>1. \A i \in 2 .. Len(gs) : i \in 1 .. Len(gs) /\ i - 1 \in 1 .. Len(gs)
    BY <1>1
  <2> QED
    BY <1>1, <1>2, <2>1 DEF Nested
<1>7. \A i, j \in 1 .. Len(gs) : i < j => Level(gs[i]) <= Len(gs[j].snap.bindings)
  BY <1>1, <1>2 DEF Nested
<1>8. ASSUME NEW i \in 1 .. Len(gs), NEW j \in 1 .. Len(gs), i <= j,
             \A k \in i + 1 .. j : Branch(gs[k])
      PROVE  Level(gs[i]) = Level(gs[j])
  <2>1. \A k \in i + 1 .. j : k \in 1 .. Len(gs)
    BY <1>1
  <2>2. \A k \in i + 1 .. j : Branch(fs[k])
    BY <1>2, <1>8, <2>1
  <2>3. Level(fs[i]) = Level(fs[j])
    BY <1>1, <1>8, <2>2 DEF Nested
  <2> QED
    BY <1>2, <2>3
<1>9. Len(gs[1].snap.bindings) = 1
  <2>1. 1 \in 1 .. Len(gs) /\ Len(fs) > 0
    BY <1>1
  <2> QED
    BY <1>2, <2>1 DEF Nested
<1> QED
  BY <1>1, <1>3, <1>4, <1>5, <1>6, <1>7, <1>8, <1>9 DEF Nested

\* The innermost block changes.
LEMMA NestedTop ==
    ASSUME NEW fs \in Seq(Block_frame), NEW gs \in Seq(Block_frame), NEW len, Nested(fs, len),
           NEW n, n = Len(fs), Len(gs) = n, n > 0, \A i \in 1 .. n - 1 : gs[i] = fs[i],
           gs[n].kind = "function" <=> fs[n].kind = "function", Branch(gs[n]) <=> Branch(fs[n]),
           TakenBack(gs[n]) => ~gs[n].on, Level(gs[n]) = Level(fs[n]),
           Len(gs[n].snap.bindings) = Len(fs[n].snap.bindings),
           \A i \in 1 .. n - 1 : gs[n].names \cap fs[i].names = {}
    PROVE  Nested(gs, Level(gs[n]))
<1>1. n \in Nat /\ n \in 1 .. n /\ \A i \in 1 .. n : i \in 1 .. n - 1 \/ i = n
  OBVIOUS
<1>2. \A i \in 1 .. n : /\ Level(gs[i]) = Level(fs[i]) /\ (Branch(gs[i]) <=> Branch(fs[i]))
                       /\ Len(gs[i].snap.bindings) = Len(fs[i].snap.bindings)
                       /\ (gs[i].kind = "function" <=> fs[i].kind = "function")
                       /\ (TakenBack(gs[i]) => ~gs[i].on)
  BY <1>1 DEF Nested
<1>3. \A i \in 1 .. n : gs[i].kind = "function" <=> i = 1
  BY <1>2 DEF Nested
<1>4. \A i, j \in 1 .. n : i # j => gs[i].names \cap gs[j].names = {}
  <2>1. \A i, j \in 1 .. n - 1 : i # j => gs[i].names \cap gs[j].names = {}
    <3>1. \A i \in 1 .. n - 1 : i \in 1 .. Len(fs) /\ gs[i].names = fs[i].names
      BY <1>1
    <3> QED
      BY <3>1 DEF Nested
  <2>2. \A i \in 1 .. n - 1 : gs[i].names \cap gs[n].names = {} /\ gs[n].names \cap gs[i].names = {}
    OBVIOUS
  <2> QED
    BY <1>1, <2>1, <2>2
<1>5. \A i \in 2 .. n : Len(gs[i].snap.bindings) = Level(gs[i - 1])
  <2>1. \A i \in 2 .. n : i \in 1 .. n /\ i - 1 \in 1 .. n
    BY <1>1
  <2> QED
    BY <1>2, <2>1 DEF Nested
<1>6. \A i, j \in 1 .. n : i < j => Level(gs[i]) <= Len(gs[j].snap.bindings)
  BY <1>2 DEF Nested
<1>7. ASSUME NEW i \in 1 .. n, NEW j \in 1 .. n, i <= j, \A k \in i + 1 .. j : Branch(gs[k])
      PROVE  Level(gs[i]) = Level(gs[j])
  <2>1. \A k \in i + 1 .. j : k \in 1 .. n
    BY <1>1
  <2>2. \A k \in i + 1 .. j : Branch(fs[k])
    BY <1>2, <1>7, <2>1
  <2>3. Level(fs[i]) = Level(fs[j])
    BY <1>7, <2>2 DEF Nested
  <2> QED
    BY <1>2, <2>3
<1>8. Len(gs[1].snap.bindings) = 1
  <2>1. 1 \in 1 .. n
    BY <1>1
  <2> QED
    BY <1>2, <2>1 DEF Nested
<1> QED
  BY <1>1, <1>2, <1>3, <1>4, <1>5, <1>6, <1>7, <1>8 DEF Nested

LEMMA NestedOpen ==
    ASSUME NEW fs \in Seq(Block_frame), NEW len, Nested(fs, len), NEW n, n = Len(fs), n > 0,
           NEW f \in Block_frame, f.kind # "function", f.names = {}, TakenBack(f) => ~f.on,
           Len(f.snap.bindings) = len, NEW gs, gs = Append(fs, f)
    PROVE  Nested(gs, Level(f))
<1>1. /\ n \in Nat /\ Len(gs) = n + 1 /\ \A i \in 1 .. n : gs[i] = fs[i] /\ gs[n + 1] = f
      /\ \A i \in 1 .. n + 1 : i \in 1 .. n \/ i = n + 1
  <2>1. n \in Nat
    OBVIOUS
  <2>2. /\ Len(Append(fs, f)) = Len(fs) + 1 /\ \A i \in 1 .. Len(fs) : Append(fs, f)[i] = fs[i]
        /\ Append(fs, f)[Len(fs) + 1] = f
    BY AppendProperties
  <2> QED
    BY <2>1, <2>2
<1>2. len = Level(fs[n]) /\ len \in Nat
  BY Frames, <1>1 DEF Nested
<1>3. Level(f) \in Nat /\ (Branch(f) => Level(f) = len) /\ Level(f) >= len
  <2>1. Opens(f.kind) \in Nat /\ (Branch(f) => Opens(f.kind) = 0)
    BY DEF Opens, Branch
  <2>2. Level(f) = len + Opens(f.kind)
    BY DEF Level
  <2> QED
    BY <1>2, <2>1, <2>2
<1>4. \A i \in 1 .. n : Level(fs[i]) <= len
  <2>1. \A i \in 1 .. n - 1 : Level(fs[i]) <= Len(fs[n].snap.bindings)
    BY <1>1 DEF Nested
  <2>2. Len(fs[n].snap.bindings) <= Level(fs[n]) /\ Len(fs[n].snap.bindings) \in Nat
    BY Frames, <1>1
  <2>3. \A i \in 1 .. n : Level(fs[i]) \in Nat /\ (i \in 1 .. n - 1 \/ i = n)
    BY Frames, <1>1
  <2> QED
    BY <1>2, <2>1, <2>2, <2>3
<1>5. \A i \in 1 .. n + 1 : (gs[i].kind = "function" <=> i = 1) /\ (TakenBack(gs[i]) => ~gs[i].on)
  BY <1>1 DEF Nested
<1>6. \A i, j \in 1 .. n + 1 : i # j => gs[i].names \cap gs[j].names = {}
  BY <1>1 DEF Nested
<1>7. \A i \in 2 .. n + 1 : Len(gs[i].snap.bindings) = Level(gs[i - 1])
  <2>1. \A i \in 2 .. n + 1 : (i \in 2 .. n /\ i \in 1 .. n /\ i - 1 \in 1 .. n) \/ (i = n + 1 /\ i - 1 = n /\ n \in 1 .. n)
    BY <1>1
  <2> QED
    BY <1>1, <1>2, <2>1 DEF Nested
<1>8. \A i, j \in 1 .. n + 1 : i < j => Level(gs[i]) <= Len(gs[j].snap.bindings)
  <2>1. \A i, j \in 1 .. n + 1 : i < j => i \in 1 .. n /\ (j \in 1 .. n \/ j = n + 1)
    BY <1>1
  <2> QED
    BY <1>1, <1>4, <2>1 DEF Nested
<1>9. ASSUME NEW i \in 1 .. n + 1, NEW j \in 1 .. n + 1, i <= j, \A k \in i + 1 .. j : Branch(gs[k])
      PROVE  Level(gs[i]) = Level(gs[j])
  <2>1. CASE j \in 1 .. n
    <3>1. i \in 1 .. n /\ \A k \in i + 1 .. j : k \in 1 .. n
      BY <1>1, <1>9, <2>1
    <3>2. \A k \in i + 1 .. j : Branch(fs[k])
      BY <1>1, <1>9, <3>1
    <3> QED
      BY <1>1, <1>9, <2>1, <3>1, <3>2 DEF Nested
  <2>2. CASE j = n + 1 /\ i \in 1 .. n
    <3>1. \A k \in i + 1 .. n : k \in i + 1 .. j /\ k \in 1 .. n
      BY <1>1, <2>2
    <3>2. \A k \in i + 1 .. n : Branch(fs[k])
      BY <1>1, <1>9, <3>1
    <3>3. n \in 1 .. n /\ i <= n
      BY <1>1, <2>2
    <3>4. Level(fs[i]) = Level(fs[n])
      BY <2>2, <3>2, <3>3 DEF Nested
    <3>5. n + 1 \in i + 1 .. j
      BY <1>1, <2>2
    <3>6. Branch(f)
      BY <1>1, <1>9, <3>5
    <3> QED
      BY <1>1, <1>2, <1>3, <2>2, <3>4, <3>6
  <2>3. CASE j = n + 1 /\ i = n + 1
    BY <2>3
  <2> QED
    BY <1>1, <1>9, <2>1, <2>2, <2>3
<1>10. Len(gs[1].snap.bindings) = 1
  <2>1. 1 \in 1 .. n
    BY <1>1
  <2> QED
    BY <1>1, <2>1 DEF Nested
<1>11. Len(gs) = n + 1 /\ n + 1 > 0 /\ n + 1 # 0 /\ gs[n + 1] = f
  BY <1>1
<1> QED
  BY ONLY <1>5, <1>6, <1>7, <1>8, <1>9, <1>10, <1>11 DEF Nested

-----------------------------------------------------------------------------
(* The path *)

Agree(s, fs, n, r) == ObjectsAgree(s, r) /\ NamesAgree(s, fs, n, r.var)

\* The state of the trace is that of the run in every block on the path, and the
\* outermost block off the path holds it meanwhile, to give it back at its end.
Path(fs, s, r) ==
    r.exact =>
       /\ Len(fs) > 0 => fs[1].on \/ (Len(fs) = 1 /\ fs[1].closed)
       /\ \A i, j \in 1 .. Len(fs) : i < j /\ fs[j].on => fs[i].on
       /\ \A k \in 2 .. Len(fs) :
             fs[k - 1].on /\ ~fs[k].on => TakenBack(fs[k]) /\ Agree(fs[k].snap, fs, k - 1, r)
       /\ (Len(fs) > 1 => fs[Len(fs)].on) => Agree(s, fs, Len(fs), r)

AsBefore(f, g) ==
    /\ g.kind = f.kind /\ g.names = f.names /\ g.gone = f.gone /\ g.snap = f.snap
    /\ g.has_else = f.has_else /\ (g.on <=> f.on)

LEMMA AgreeKept ==
    ASSUME NEW s, NEW fs, NEW gs, NEW n \in Nat, NEW r, Agree(s, fs, n, r),
           \A j \in 1 .. n : /\ gs[j].names = fs[j].names /\ fs[j].gone \subseteq gs[j].gone
                            /\ Level(gs[j]) = Level(fs[j])
    PROVE  Agree(s, gs, n, r)
BY NamesKept DEF Agree

LEMMA PathOn ==
    ASSUME NEW gs \in Seq(Block_frame), NEW n, n = Len(gs), n > 0, NEW t, NEW r,
           \A i \in 1 .. n : gs[i].on, Agree(t, gs, n, r)
    PROVE  Path(gs, t, r)
<1>1. n \in Nat /\ 1 \in 1 .. n /\ \A k \in 2 .. n : k \in 1 .. n
  OBVIOUS
<1> QED
  BY <1>1 DEF Path

LEMMA AllOn ==
    ASSUME NEW fs \in Seq(Block_frame), NEW n, n = Len(fs), n > 0, NEW s, NEW r, Path(fs, s, r),
           r.exact, fs[n].on
    PROVE  (\A i \in 1 .. n : fs[i].on) /\ Agree(s, fs, n, r)
<1>1. n \in Nat /\ n \in 1 .. n /\ \A i \in 1 .. n : i < n \/ i = n
  OBVIOUS
<1>2. \A i \in 1 .. n : fs[i].on
  BY <1>1 DEF Path
<1> QED
  BY <1>2 DEF Path

\* Off the path, the trace does what it likes with its state.
LEMMA PathOff ==
    ASSUME NEW fs \in Seq(Block_frame), NEW gs \in Seq(Block_frame), NEW s, NEW t, NEW r,
           Path(fs, s, r), NEW n, n = Len(fs), n = Len(gs), n > 1,
           ~fs[n].on, ~gs[n].on, gs[n].snap = fs[n].snap, TakenBack(gs[n]) <=> TakenBack(fs[n]),
           \A i \in 1 .. n - 1 : AsBefore(fs[i], gs[i])
    PROVE  Path(gs, t, r)
<1> SUFFICES ASSUME r.exact PROVE Path(gs, t, r)
  BY DEF Path
<1>1. n \in Nat /\ 1 \in 1 .. n - 1 /\ \A i \in 1 .. n : i \in 1 .. n - 1 \/ i = n
  OBVIOUS
<1>2. \A i \in 1 .. n : (gs[i].on <=> fs[i].on) /\ gs[i].snap = fs[i].snap
                       /\ (TakenBack(gs[i]) <=> TakenBack(fs[i]))
  BY <1>1 DEF AsBefore, TakenBack
<1>3. \A i \in 1 .. n - 1 : /\ gs[i].names = fs[i].names /\ gs[i].gone = fs[i].gone
                           /\ Level(gs[i]) = Level(fs[i])
  BY DEF AsBefore, Level
<1>4. gs[1].on
  BY <1>1, <1>2 DEF Path
<1>5. \A i, j \in 1 .. n : i < j /\ gs[j].on => gs[i].on
  BY <1>2 DEF Path
<1>6. ASSUME NEW k \in 2 .. n, gs[k - 1].on /\ ~gs[k].on
      PROVE  TakenBack(gs[k]) /\ Agree(gs[k].snap, gs, k - 1, r)
  <2>1. k \in 1 .. n /\ k - 1 \in 1 .. n /\ k - 1 \in Nat
        /\ \A j \in 1 .. k - 1 : j \in 1 .. n - 1
    BY <1>1
  <2>2. TakenBack(fs[k]) /\ Agree(fs[k].snap, fs, k - 1, r)
    BY <1>2, <1>6, <2>1 DEF Path
  <2>3. Agree(fs[k].snap, gs, k - 1, r)
    BY <1>3, <2>1, <2>2, AgreeKept
  <2> QED
    BY <1>2, <2>1, <2>2, <2>3
<1> QED
  BY <1>4, <1>5, <1>6 DEF Path

LEMMA PathOpen ==
    ASSUME NEW fs \in Seq(Block_frame), NEW s, NEW t, NEW r, NEW q, Path(fs, s, r),
           NEW n, n = Len(fs), n > 0, ~fs[n].closed, NEW f \in Block_frame,
           NEW gs, gs = Append(fs, f), f.snap = s, f.names = {}, f.on => fs[n].on,
           fs[n].on /\ ~f.on => TakenBack(f), ~f.on => q = r, q.exact => r.exact,
           f.on /\ q.exact => Agree(t, gs, n + 1, q)
    PROVE  Path(gs, t, q)
<1> SUFFICES ASSUME q.exact, r.exact PROVE Path(gs, t, q)
  BY DEF Path
<1>1. /\ n \in Nat /\ Len(gs) = n + 1 /\ \A i \in 1 .. n : gs[i] = fs[i] /\ gs[n + 1] = f
      /\ gs \in Seq(Block_frame)
  <2>1. n \in Nat
    OBVIOUS
  <2>2. /\ Len(Append(fs, f)) = Len(fs) + 1 /\ \A i \in 1 .. Len(fs) : Append(fs, f)[i] = fs[i]
        /\ Append(fs, f)[Len(fs) + 1] = f /\ Append(fs, f) \in Seq(Block_frame)
    BY AppendProperties
  <2> QED
    BY <2>1, <2>2
<1>2. 1 \in 1 .. n /\ n \in 1 .. n /\ \A i \in 1 .. n + 1 : i \in 1 .. n \/ i = n + 1
  BY <1>1
<1>3. fs[1].on
  BY <1>2 DEF Path
<1>4. CASE f.on
  <2>1. \A i \in 1 .. n : fs[i].on
    BY <1>4, AllOn
  <2>2. \A i \in 1 .. n + 1 : gs[i].on
    BY <1>1, <1>2, <1>4, <2>1
  <2>3. Agree(t, gs, n + 1, q) /\ n + 1 > 0
    BY <1>1, <1>4
  <2> HIDE DEF Agree
  <2> QED
    BY ONLY <1>1, <2>2, <2>3, PathOn
<1>5. CASE ~f.on
  <2>1. q = r /\ ~gs[n + 1].on
    BY <1>1, <1>5
  <2>2. gs[1].on
    BY <1>1, <1>2, <1>3
  <2>3. \A i, j \in 1 .. n + 1 : i < j /\ gs[j].on => gs[i].on
    <3>1. \A i, j \in 1 .. n + 1 : i < j => i \in 1 .. n /\ (j \in 1 .. n \/ j = n + 1)
      BY <1>1
    <3> QED
      BY <1>1, <2>1, <3>1 DEF Path
  <2>4. ASSUME NEW k \in 2 .. n + 1, gs[k - 1].on /\ ~gs[k].on
        PROVE  TakenBack(gs[k]) /\ Agree(gs[k].snap, gs, k - 1, r)
    <3>1. k - 1 \in 1 .. n /\ k - 1 \in Nat /\ \A j \in 1 .. k - 1 : j \in 1 .. n
      BY <1>1
    <3>2. TakenBack(gs[k]) /\ Agree(gs[k].snap, fs, k - 1, r)
      <4>1. CASE k \in 2 .. n
        <5>1. k \in 1 .. n
          BY <1>1, <4>1
        <5> QED
          BY <1>1, <2>4, <3>1, <4>1, <5>1 DEF Path
      <4>2. CASE k = n + 1
        <5>1. k - 1 = n /\ gs[n] = fs[n] /\ fs[n].on
          BY <1>1, <1>2, <2>4, <4>2
        <5>2. Agree(s, fs, n, r)
          BY <5>1, AllOn
        <5>3. gs[k] = f /\ TakenBack(f)
          BY <1>1, <1>5, <4>2, <5>1
        <5> QED
          BY <5>1, <5>2, <5>3
      <4>3. k \in 2 .. n \/ k = n + 1
        BY <1>1
      <4> QED
        BY <4>1, <4>2, <4>3
    <3>3. \A j \in 1 .. k - 1 : gs[j].names = fs[j].names /\ fs[j].gone \subseteq gs[j].gone
                              /\ Level(gs[j]) = Level(fs[j])
      BY <1>1, <3>1
    <3>4. Agree(gs[k].snap, gs, k - 1, r)
      BY <3>1, <3>2, <3>3, AgreeKept
    <3> QED
      BY <3>2, <3>4
  <2>5. Len(gs) = n + 1 /\ n + 1 > 1
    BY <1>1
  <2> QED
    BY ONLY <2>1, <2>2, <2>3, <2>4, <2>5 DEF Path
<1> QED
  BY <1>4, <1>5

LEMMA PathClose ==
    ASSUME NEW fs \in Seq(Block_frame), NEW gs \in Seq(Block_frame), NEW s, NEW t, NEW r, NEW q,
           Path(fs, s, r), NEW n, n = Len(fs), n > 1, Len(gs) = n - 1,
           \A i \in 1 .. n - 1 : /\ gs[i].names = fs[i].names /\ fs[i].gone \subseteq gs[i].gone
                                /\ gs[i].kind = fs[i].kind /\ gs[i].snap = fs[i].snap
                                /\ gs[i].has_else = fs[i].has_else /\ (gs[i].on <=> fs[i].on),
           ~fs[n].on => q = r, q.exact => r.exact,
           fs[n - 1].on /\ q.exact => Agree(t, gs, n - 1, q)
    PROVE  Path(gs, t, q)
<1> SUFFICES ASSUME q.exact, r.exact PROVE Path(gs, t, q)
  BY DEF Path
<1>1. /\ n \in Nat /\ n - 1 \in Nat /\ 1 \in 1 .. n - 1 /\ n \in 1 .. n /\ n - 1 \in 1 .. n - 1
      /\ \A i \in 1 .. n - 1 : i \in 1 .. n /\ i < n
  OBVIOUS
<1>2. fs[1].on
  BY <1>1 DEF Path
<1>3. gs[1].on
  BY <1>1, <1>2
<1>4. \A i, j \in 1 .. n - 1 : i < j /\ gs[j].on => gs[i].on
  BY <1>1 DEF Path
<1>5. ASSUME NEW k \in 2 .. n - 1, gs[k - 1].on /\ ~gs[k].on
      PROVE  TakenBack(gs[k]) /\ Agree(gs[k].snap, gs, k - 1, q)
  <2>1. k \in 1 .. n - 1 /\ k \in 2 .. n /\ k - 1 \in 1 .. n - 1 /\ k - 1 \in Nat
        /\ \A j \in 1 .. k - 1 : j \in 1 .. n - 1
    BY <1>1
  <2>2. fs[k - 1].on /\ ~fs[k].on
    BY <1>5, <2>1
  <2>3. q = r
    BY <1>1, <2>1, <2>2 DEF Path
  <2>4. TakenBack(fs[k]) /\ Agree(fs[k].snap, fs, k - 1, r)
    BY <2>1, <2>2 DEF Path
  <2>5. \A j \in 1 .. k - 1 : gs[j].names = fs[j].names /\ fs[j].gone \subseteq gs[j].gone
                            /\ Level(gs[j]) = Level(fs[j])
    BY <2>1 DEF Level
  <2>6. Agree(fs[k].snap, gs, k - 1, r)
    BY <2>1, <2>4, <2>5, AgreeKept
  <2>7. gs[k].snap = fs[k].snap /\ (TakenBack(gs[k]) <=> TakenBack(fs[k]))
    BY <2>1 DEF TakenBack
  <2> QED
    BY <2>3, <2>4, <2>6, <2>7
<1>6. (n - 1 > 1 => gs[n - 1].on) => Agree(t, gs, n - 1, q)
  <2>1. n - 1 > 1 \/ n - 1 = 1
    BY <1>1
  <2> QED
    BY <1>1, <1>2, <2>1
<1> QED
  BY <1>3, <1>4, <1>5, <1>6 DEF Path

\* The other branch starts from the state that the block off the path held.
LEMMA PathElse ==
    ASSUME NEW fs \in Seq(Block_frame), NEW gs \in Seq(Block_frame), NEW s, NEW t, NEW r,
           Path(fs, s, r), NEW n, n = Len(fs), n = Len(gs), n > 1,
           \A i \in 1 .. n - 1 : gs[i] = fs[i], gs[n].on <=> fs[n - 1].on, ~fs[n].on,
           gs[n].names = {}, t = fs[n].snap
    PROVE  Path(gs, t, r)
<1> SUFFICES ASSUME r.exact PROVE Path(gs, t, r)
  BY DEF Path
<1>1. /\ n \in Nat /\ n - 1 \in Nat /\ 1 \in 1 .. n - 1 /\ n \in 2 .. n /\ n - 1 \in 1 .. n - 1
      /\ \A i \in 1 .. n : i \in 1 .. n - 1 \/ i = n
      /\ \A i \in 1 .. n - 1 : i \in 1 .. n /\ i < n /\ (i < n - 1 \/ i = n - 1)
  OBVIOUS
<1>2. gs[1].on
  <2>1. fs[1].on
    BY <1>1 DEF Path
  <2>2. gs[1] = fs[1]
    BY <1>1
  <2> QED
    BY <2>1, <2>2
<1>3. \A i, j \in 1 .. n : i < j /\ gs[j].on => gs[i].on
  <2>1. \A i, j \in 1 .. n : i < j => i \in 1 .. n - 1 /\ (j \in 1 .. n - 1 \/ j = n)
    BY <1>1
  <2>2. \A i \in 1 .. n - 1 : fs[n - 1].on => fs[i].on
    BY <1>1 DEF Path
  <2> QED
    BY <1>1, <2>1, <2>2 DEF Path
<1>4. ASSUME NEW k \in 2 .. n, gs[k - 1].on /\ ~gs[k].on
      PROVE  TakenBack(gs[k]) /\ Agree(gs[k].snap, gs, k - 1, r)
  <2>1. k \in 1 .. n - 1 /\ k - 1 \in 1 .. n - 1 /\ k - 1 \in Nat
        /\ \A j \in 1 .. k - 1 : j \in 1 .. n - 1
    <3>1. k # n
      BY <1>1, <1>4
    <3> QED
      BY <1>1, <3>1
  <2>2. TakenBack(fs[k]) /\ Agree(fs[k].snap, fs, k - 1, r)
    BY <1>4, <2>1 DEF Path
  <2>3. Agree(fs[k].snap, gs, k - 1, r)
    BY <2>1, <2>2, AgreeKept
  <2> QED
    BY <2>1, <2>2, <2>3
<1>5. gs[n].on => Agree(t, gs, n, r)
  <2> SUFFICES ASSUME gs[n].on PROVE Agree(t, gs, n, r)
    OBVIOUS
  <2>1. Agree(t, fs, n - 1, r)
    BY <1>1 DEF Path
  <2>2. NamesAgree(t, gs, (n - 1) + 1, r.var)
    <3>1. gs[(n - 1) + 1].names = {}
      BY <1>1
    <3> QED
      BY <1>1, <2>1, <3>1, NamesOpen DEF Agree
  <2>3. (n - 1) + 1 = n
    BY <1>1
  <2> QED
    BY <2>1, <2>2, <2>3 DEF Agree
<1> QED
  BY <1>2, <1>3, <1>4, <1>5 DEF Path

-----------------------------------------------------------------------------
(* The invariant *)

\* The scopes and the blocks that are open, and what the state of the trace is on
\* the path and off it.
TraceInv == TypeInv /\ Nested(frames, Len(st.bindings)) /\ Path(frames, st, run)

LEMMA TypeParts ==
    ASSUME TypeInv
    PROVE  /\ st \in State /\ frames \in Seq(Block_frame) /\ run \in Run_state /\ InRange(run)
           /\ run.var \in [Local -> Nat] /\ run.rc \in Seq(Int) /\ run.pools \in Seq(SUBSET Nat)
           /\ run.given \in SUBSET Nat /\ run.exact \in BOOLEAN
           /\ Depth = Len(frames) /\ Len(st.bindings) \in Nat
BY Scopes DEF TypeInv, Run_state, Depth

LEMMA Tops ==
    ASSUME TraceInv, frames # <<>>
    PROVE  /\ Depth \in Nat /\ Depth > 0 /\ Depth \in 1 .. Depth /\ 1 \in 1 .. Depth
           /\ Top = frames[Depth] /\ Top \in Block_frame /\ (On <=> Top.on)
           /\ Len(st.bindings) = Level(Top) /\ Len(st.bindings) \in Nat /\ Len(st.bindings) > 1
           /\ Len(Top.snap.bindings) \in Nat /\ Top.snap \in State
           /\ Level(Top) = Len(Top.snap.bindings) + Opens(Top.kind)
           /\ Top.kind = "function" <=> Depth = 1
           /\ (TakenBack(Top) => ~Top.on)
           /\ \A i \in 1 .. Depth : frames[i].names \subseteq Local /\ frames[i].gone \subseteq Local
                                   /\ Level(frames[i]) \in Nat
           /\ \A i \in 1 .. Depth - 1 : Level(frames[i]) <= Len(Top.snap.bindings)
           /\ \A i, j \in 1 .. Depth : i # j => frames[i].names \cap frames[j].names = {}
<1>1. Depth = Len(frames) /\ Depth \in Nat /\ Depth > 0 /\ Depth \in 1 .. Depth /\ 1 \in 1 .. Depth
      /\ frames \in Seq(Block_frame) /\ st \in State
      /\ \A i \in 1 .. Depth - 1 : i \in 1 .. Depth /\ i < Depth
  BY DEF TraceInv, TypeInv, Depth
<1>2. Top = frames[Depth] /\ (On <=> Top.on)
  BY DEF Top, On
<1>3. \A i \in 1 .. Depth : /\ frames[i] \in Block_frame /\ frames[i].names \subseteq Local
                           /\ frames[i].gone \subseteq Local /\ Level(frames[i]) \in Nat
                           /\ Len(frames[i].snap.bindings) \in Nat /\ frames[i].snap \in State
                           /\ Level(frames[i]) >= Len(frames[i].snap.bindings)
  BY <1>1, Frames
<1>4. Level(Top) = Len(Top.snap.bindings) + Opens(Top.kind)
  BY DEF Level
<1>5. Nested(frames, Len(st.bindings))
  BY DEF TraceInv
<1>6. Len(st.bindings) = Level(Top) /\ (Top.kind = "function" <=> Depth = 1)
      /\ (TakenBack(Top) => ~Top.on)
  BY <1>1, <1>2, <1>5 DEF Nested
<1>7. \A i \in 1 .. Depth - 1 : Level(frames[i]) <= Len(Top.snap.bindings)
  BY <1>1, <1>2, <1>5 DEF Nested
<1>8. \A i, j \in 1 .. Depth : i # j => frames[i].names \cap frames[j].names = {}
  BY <1>1, <1>5 DEF Nested
<1>9. Level(Top) > 1
  <2>1. Level(frames[1]) > 1
    <3>1. Len(frames[1].snap.bindings) = 1 /\ frames[1].kind = "function"
      BY <1>1, <1>5 DEF Nested
    <3>2. Level(frames[1]) = 1 + 2
      BY <3>1 DEF Level, Opens
    <3> QED
      BY <3>2
  <2>2. CASE Depth = 1
    BY <1>2, <2>1, <2>2
  <2>3. CASE Depth > 1
    <3>1. 1 \in 1 .. Depth - 1
      BY <1>1, <2>3
    <3>2. Level(frames[1]) <= Len(Top.snap.bindings)
      BY <1>7, <3>1
    <3>3. Len(Top.snap.bindings) <= Level(Top) /\ Len(Top.snap.bindings) \in Nat
          /\ Level(Top) \in Nat /\ Level(frames[1]) \in Nat
      BY <1>1, <1>2, <1>3
    <3> QED
      BY <2>1, <3>2, <3>3
  <2> QED
    BY <1>1, <2>2, <2>3
<1> QED
  BY <1>1, <1>2, <1>3, <1>4, <1>6, <1>7, <1>8, <1>9

LEMMA OnPath ==
    ASSUME TraceInv, On, run.exact
    PROVE  /\ frames # <<>> /\ \A i \in 1 .. Depth : frames[i].on
           /\ Agree(st, frames, Depth, run) /\ ObjectsAgree(st, run)
           /\ NamesAgree(st, frames, Depth, run.var)
<1>1. frames # <<>>
  BY DEF On
<1>2. frames \in Seq(Block_frame) /\ Depth = Len(frames) /\ Depth > 0 /\ frames[Depth].on
  BY <1>1, Tops DEF TraceInv, TypeInv, On, Depth
<1>3. (\A i \in 1 .. Depth : frames[i].on) /\ Agree(st, frames, Depth, run)
  BY <1>2, AllOn DEF TraceInv
<1> QED
  BY <1>1, <1>3 DEF Agree

LEMMA Operands ==
    ASSUME TraceInv, frames # <<>>, NEW of \in Operand
    PROVE  /\ of \in Local \cup {Fresh}
           /\ On /\ run.exact /\ of # Fresh => resolve(st, of) = run.var[of]
<1>1. CASE of = Fresh
  BY <1>1
<1>2. CASE of # Fresh
  <2>1. PICK i \in 1 .. Depth : of \in frames[i].names
    BY <1>2, TypeParts DEF Operand, Visible, TraceInv
  <2>2. of \in Local
    BY <2>1, Tops
  <2>3. ASSUME On, run.exact PROVE resolve(st, of) = run.var[of]
    BY <2>1, <2>3, OnPath DEF NamesAgree
  <2> QED
    BY <2>2, <2>3
<1> QED
  BY <1>1, <1>2

\* A statement that opens and ends no block.
LEMMA Straight ==
    ASSUME TraceInv, frames # <<>>, ~Top.closed, NEW gs \in Seq(Block_frame), Len(gs) = Depth,
           \A i \in 1 .. Depth - 1 : gs[i] = frames[i],
           NEW f, f = gs[Depth], f.kind = Top.kind, f.snap = Top.snap, f.has_else = Top.has_else,
           f.on = Top.on, \A i \in 1 .. Depth - 1 : f.names \cap frames[i].names = {},
           NEW t \in State, Len(t.bindings) = Len(st.bindings), NEW q,
           ~On => q = run, q.exact => run.exact,
           On /\ q.exact => Agree(t, gs, Depth, q)
    PROVE  Nested(gs, Len(t.bindings)) /\ Path(gs, t, q)
<1>1. /\ Depth \in Nat /\ Depth > 0 /\ Depth \in 1 .. Depth /\ 1 \in 1 .. Depth
      /\ Top = frames[Depth] /\ (On <=> Top.on) /\ Len(st.bindings) = Level(Top)
      /\ (TakenBack(Top) => ~Top.on) /\ Depth = Len(frames) /\ frames \in Seq(Block_frame)
      /\ Nested(frames, Len(st.bindings)) /\ Path(frames, st, run)
  BY Tops, TypeParts DEF TraceInv
<1>2. Level(f) = Level(Top) /\ (Branch(f) <=> Branch(Top)) /\ (TakenBack(f) <=> TakenBack(Top))
  BY DEF Level, Branch, TakenBack
<1>3. Nested(gs, Level(f))
  <2> HIDE DEF Nested
  <2>1. TakenBack(gs[Depth]) => ~gs[Depth].on
    BY <1>1, <1>2
  <2> QED
    BY <1>1, <1>2, <2>1, NestedTop
<1>4. Path(gs, t, q)
  <2> SUFFICES ASSUME q.exact PROVE Path(gs, t, q)
    BY DEF Path
  <2>1. CASE On
    <3>1. \A i \in 1 .. Depth : frames[i].on
      BY <2>1, OnPath
    <3>2. \A i \in 1 .. Depth : gs[i].on
      <4>1. \A i \in 1 .. Depth : i \in 1 .. Depth - 1 \/ i = Depth
        BY <1>1
      <4> QED
        BY <1>1, <2>1, <3>1, <4>1
    <3> QED
      BY <1>1, <2>1, <3>2, PathOn
  <2>2. CASE ~On
    <3>1. q = run /\ run.exact
      BY <2>2
    <3>2. Depth > 1
      <4>1. frames[1].on \/ (Depth = 1 /\ frames[1].closed)
        BY <1>1, <3>1 DEF Path
      <4> QED
        BY <1>1, <2>2, <4>1
    <3>3. \A i \in 1 .. Depth - 1 : AsBefore(frames[i], gs[i])
      BY DEF AsBefore
    <3>4. ~frames[Depth].on /\ ~gs[Depth].on /\ gs[Depth].snap = frames[Depth].snap
          /\ (TakenBack(gs[Depth]) <=> TakenBack(frames[Depth]))
      BY <1>1, <1>2, <2>2
    <3>5. Path(gs, t, run)
      BY <1>1, <3>2, <3>3, <3>4, PathOff
    <3> QED
      BY <3>1, <3>5
  <2> QED
    BY <2>1, <2>2
<1> QED
  BY <1>1, <1>2, <1>3, <1>4

LEMMA EscapedIs ==
    ASSUME NEW s \in State, NEW id \in Nat, NEW t, t = [s EXCEPT !.objects[id].escaped = TRUE]
    PROVE  /\ t \in State /\ t.bindings = s.bindings
           /\ \A r, q : ObjectsAgree(s, r) /\ q.rc = r.rc /\ q.pools = r.pools
                        /\ r.given \cup {id} \subseteq q.given => ObjectsAgree(t, q)
<1> DEFINE e == [s.objects[id] EXCEPT !.escaped = TRUE]
<1>1. \A i \in DOMAIN s.objects : s.objects[i] \in Object
  BY Objects
<1>2. id \in DOMAIN s.objects =>
         e \in Object /\ e.count = s.objects[id].count /\ e.real = s.objects[id].real
         /\ e.is_param = s.objects[id].is_param
  BY <1>1 DEF Object
<1>3. t = SetObject(s, id, e)
  BY DEF SetObject
<1> HIDE DEF e
<1>4. /\ t \in State /\ t.bindings = s.bindings /\ t.pools = s.pools
      /\ Len(t.objects) = Len(s.objects) /\ DOMAIN t.objects = DOMAIN s.objects
      /\ \A i \in DOMAIN s.objects : t.objects[i] = IF i = id THEN e ELSE s.objects[i]
  <2>1. s \in State /\ (id \in DOMAIN s.objects => e \in Object)
    BY <1>2
  <2> QED
    BY ONLY <1>3, <2>1, ObjectSet
<1>5. ASSUME NEW r, NEW q, ObjectsAgree(s, r), q.rc = r.rc, q.pools = r.pools,
             r.given \cup {id} \subseteq q.given
      PROVE  ObjectsAgree(t, q)
  <2>1. Len(t.objects) = Len(q.rc) /\ t.pools = q.pools
    BY <1>4, <1>5 DEF ObjectsAgree
  <2>2. ASSUME NEW i \in DOMAIN t.objects
        PROVE  /\ t.objects[i].real = i /\ t.objects[i].count = q.rc[i]
               /\ t.objects[i].escaped \/ t.objects[i].is_param => i \in q.given
    <3>1. i \in DOMAIN s.objects
      BY <1>4
    <3>2. /\ s.objects[i].real = i /\ s.objects[i].count = r.rc[i]
          /\ s.objects[i].escaped \/ s.objects[i].is_param => i \in r.given
      BY <1>5, <3>1 DEF ObjectsAgree
    <3>3. CASE i = id
      BY <1>2, <1>4, <1>5, <3>1, <3>2, <3>3
    <3>4. CASE i # id
      <4>1. t.objects[i] = s.objects[i]
        BY <1>4, <3>1, <3>4
      <4> QED
        BY <1>5, <3>2, <4>1
    <3> QED
      BY <3>3, <3>4
  <2> QED
    BY <2>1, <2>2 DEF ObjectsAgree
<1> QED
  BY <1>4, <1>5

\* What an operation leaves to be shown: the bindings.
LEMMA OperationType ==
    ASSUME TraceInv, Fresh \notin Local, frames # <<>>, NEW op, NEW of \in Operand
    PROVE  LET done == refop(st, op, of)
               r == RunOp(op, of)
           IN  /\ done \in State /\ done.bindings = st.bindings /\ Target(st, of) \in Nat
               /\ r \in Run_state /\ r.var = run.var /\ r.given = run.given /\ r.exact = run.exact
               /\ InRange(r) /\ RunTarget(of) \in 0 .. Len(r.rc) /\ RunTarget(of) \in Nat
               /\ Len(r.rc) \in Nat
               /\ On /\ run.exact => Target(st, of) = RunTarget(of) /\ ObjectsAgree(done, r)
<1>0. TypeInv /\ of \in Local \cup {Fresh}
  BY Operands DEF TraceInv
<1>1. /\ refop(st, op, of) \in State /\ refop(st, op, of).bindings = st.bindings
      /\ Target(st, of) \in Nat
  BY <1>0, RefopIs
<1>2. /\ RunOp(op, of) \in Run_state /\ RunOp(op, of).var = run.var /\ RunOp(op, of).given = run.given
      /\ RunOp(op, of).exact = run.exact /\ InRange(RunOp(op, of))
      /\ RunTarget(of) \in 0 .. Len(RunOp(op, of).rc)
  BY <1>0, RunOpIs
<1>3. Len(RunOp(op, of).rc) \in Nat
  BY <1>2 DEF Run_state
<1>4. RunTarget(of) \in Nat
  BY <1>2, <1>3
<1>5. ASSUME On, run.exact PROVE Target(st, of) = RunTarget(of) /\ ObjectsAgree(refop(st, op, of), RunOp(op, of))
  <2>1. ObjectsAgree(st, run) /\ (of # Fresh => resolve(st, of) = run.var[of])
    BY <1>5, OnPath, Operands
  <2> QED
    BY <1>0, <1>5, <2>1, RefopAgrees
<1> QED
  BY <1>1, <1>2, <1>3, <1>4, <1>5

-----------------------------------------------------------------------------
(* The statements *)

LEMMA RefOpStep ==
    ASSUME TraceInv, Fresh \notin Local, NEW op, NEW of \in Operand, RefOp(op, of)
    PROVE  TraceInv'
<1> DEFINE t == refop(st, op, of)
           r == RunOp(op, of)
           q == IF On THEN r ELSE run
<1>1. frames # <<>> /\ ~Top.closed /\ st' = t /\ run' = q /\ frames' = frames
  BY DEF RefOp, Statement, Runs
<1>2. /\ t \in State /\ t.bindings = st.bindings /\ r \in Run_state /\ r.var = run.var
      /\ r.exact = run.exact /\ InRange(r) /\ (On /\ run.exact => ObjectsAgree(t, r))
  <2> HIDE DEF t, r, q
  <2> QED
    BY <1>1, OperationType DEF t, r
<1> HIDE DEF t, r
<1>3. frames \in Seq(Block_frame) /\ run \in Run_state /\ InRange(run) /\ Depth = Len(frames)
  BY TypeParts DEF TraceInv
<1>4. Depth \in Nat /\ Depth > 0 /\ Top = frames[Depth]
      /\ \A i \in 1 .. Depth - 1 : Top.names \cap frames[i].names = {}
  <2>1. \A i \in 1 .. Depth - 1 : i \in 1 .. Depth /\ i # Depth
    BY <1>1, Tops
  <2> QED
    BY <1>1, <2>1, Tops
<1>5. ASSUME On, run.exact PROVE Agree(t, frames, Depth, q)
  <2>1. NamesAgree(st, frames, Depth, run.var)
    BY <1>5, OnPath
  <2>2. NamesAgree(t, frames, Depth, run.var)
    BY <1>2, <1>4, <2>1, NamesKept
  <2> QED
    BY <1>2, <1>5, <2>2 DEF Agree
<1>6. q \in Run_state /\ InRange(q) /\ q.exact = run.exact /\ (~On => q = run)
  BY <1>2, <1>3
<1>7. Len(t.bindings) = Len(st.bindings)
  BY <1>2
<1> HIDE DEF q
<1>8. Nested(frames, Len(t.bindings)) /\ Path(frames, t, q)
  BY <1>1, <1>2, <1>3, <1>4, <1>5, <1>6, <1>7, Straight
<1> QED
  BY <1>1, <1>2, <1>3, <1>6, <1>8 DEF TraceInv, TypeInv

LEMMA SetTopIs ==
    ASSUME TypeInv, frames # <<>>, NEW f \in Block_frame, NEW gs, gs = [frames EXCEPT ![Depth] = f]
    PROVE  /\ gs \in Seq(Block_frame) /\ Len(gs) = Depth /\ gs[Depth] = f
           /\ \A i \in 1 .. Depth - 1 : gs[i] = frames[i]
<1>1. frames \in Seq(Block_frame)
  BY DEF TypeInv
<1> QED
  BY <1>1, SetShape DEF Depth

\* The block that declares a name, which is not bound yet.
WithName(f, v) == [f EXCEPT !.names = f.names \cup {v}]
WithTop(f) == [frames EXCEPT ![Depth] = f]
Unset(v) == [run.var EXCEPT ![v] = None]

LEMMA Declares ==
    ASSUME TraceInv, frames # <<>>, NEW v \in Local, v \notin Declared,
           NEW f, f = WithName(Top, v), NEW gs, gs = WithTop(f)
    PROVE  /\ gs \in Seq(Block_frame) /\ Len(gs) = Depth /\ gs[Depth] = f
           /\ \A i \in 1 .. Depth - 1 : gs[i] = frames[i]
           /\ f.kind = Top.kind /\ f.snap = Top.snap /\ f.has_else = Top.has_else
           /\ f.on = Top.on /\ v \in f.names /\ Level(f) = Level(Top)
           /\ \A i \in 1 .. Depth - 1 : f.names \cap frames[i].names = {}
           /\ \A i \in 1 .. Depth : gs[i].names \subseteq Local /\ (i # Depth => v \notin gs[i].names)
           /\ On /\ run.exact => NamesAgree(st, gs, Depth, Unset(v))
<1>0. TypeInv /\ frames \in Seq(Block_frame) /\ Depth = Len(frames) /\ st \in State
      /\ run.var \in [Local -> Nat]
  BY TypeParts DEF TraceInv
<1>1. /\ Depth \in Nat /\ Depth > 0 /\ Depth \in 1 .. Depth /\ Top = frames[Depth]
      /\ Top \in Block_frame
      /\ \A i \in 1 .. Depth : frames[i].names \subseteq Local
      /\ \A i, j \in 1 .. Depth : i # j => frames[i].names \cap frames[j].names = {}
  BY Tops
<1>2. \A i \in 1 .. Depth : v \notin frames[i].names \cup frames[i].gone
  BY <1>0 DEF Declared, Visible
<1>3. /\ f \in Block_frame /\ f.names = Top.names \cup {v} /\ f.kind = Top.kind
      /\ f.snap = Top.snap /\ f.has_else = Top.has_else /\ f.on = Top.on /\ f.gone = Top.gone
  BY <1>1 DEF Block_frame, WithName
<1>4. Level(f) = Level(Top)
  BY <1>3 DEF Level
<1>5. /\ gs \in Seq(Block_frame) /\ Len(gs) = Depth /\ gs[Depth] = f
      /\ \A i \in 1 .. Depth - 1 : gs[i] = frames[i]
  BY <1>0, <1>3, SetTopIs DEF WithTop
<1>6. \A i \in 1 .. Depth : i \in 1 .. Depth - 1 \/ i = Depth
  BY <1>1
<1>7. \A i \in 1 .. Depth - 1 : i \in 1 .. Depth /\ i # Depth
  BY <1>1
<1>8. \A i \in 1 .. Depth - 1 : f.names \cap frames[i].names = {}
  BY <1>1, <1>2, <1>3, <1>7
<1>9. \A i \in 1 .. Depth : gs[i].names \subseteq Local /\ (i # Depth => v \notin gs[i].names)
  BY <1>1, <1>2, <1>3, <1>5, <1>6
<1>10. ASSUME On, run.exact PROVE NamesAgree(st, gs, Depth, Unset(v))
  <2> DEFINE now == Unset(v)
  <2>1. now[v] = None /\ \A w : w # v => now[w] = run.var[w]
    BY <1>0 DEF Unset
  <2> HIDE DEF now
  <2>2. NamesAgree(st, frames, Depth, run.var)
    BY <1>10, OnPath
  <2>3. \A j \in 1 .. Depth :
           /\ frames[j].names \subseteq gs[j].names /\ gs[j].names \subseteq frames[j].names \cup {v}
           /\ gs[j].gone = frames[j].gone /\ Level(gs[j]) = Level(frames[j])
    BY <1>1, <1>3, <1>4, <1>5, <1>6
  <2>4. v \in Local /\ st \in State /\ Depth \in Nat
        /\ NewName(frames, Depth, v) /\ Named(frames, gs, Depth, v) /\ Elsewhere(now, run.var, v)
    BY <1>0, <1>1, <1>2, <2>1, <2>3 DEF NewName, Named, Elsewhere
  <2>5. NamesAgree(st, gs, Depth, now)
    BY ONLY <2>1, <2>2, <2>4, NamesDeclare
  <2> QED
    BY <2>5 DEF now
<1> QED
  BY <1>3, <1>4, <1>5, <1>8, <1>9, <1>10

LEMMA DeclareBareStep ==
    ASSUME TraceInv, NEW v \in Local, DeclareBare(v)
    PROVE  TraceInv'
<1> DEFINE f == WithName(Top, v)
           gs == WithTop(f)
           now == Unset(v)
           q == IF On THEN [run EXCEPT !.var = now] ELSE run
<1>1. frames # <<>> /\ ~Top.closed /\ v \notin Declared /\ st' = st /\ frames' = gs /\ run' = q
  BY DEF DeclareBare, Statement, Runs, SetTop, WithName, WithTop, Unset
<1>2. /\ gs \in Seq(Block_frame) /\ Len(gs) = Depth /\ gs[Depth] = f
      /\ \A i \in 1 .. Depth - 1 : gs[i] = frames[i]
      /\ f.kind = Top.kind /\ f.snap = Top.snap /\ f.has_else = Top.has_else
      /\ f.on = Top.on
      /\ \A i \in 1 .. Depth - 1 : f.names \cap frames[i].names = {}
      /\ On /\ run.exact => NamesAgree(st, gs, Depth, now)
  <2>1. f = WithName(Top, v) /\ gs = WithTop(f) /\ now = Unset(v) /\ v \in Local /\ TraceInv
    OBVIOUS
  <2>2. frames # <<>> /\ v \notin Declared
    BY <1>1
  <2> HIDE DEF f, gs, q, now
  <2> QED
    BY ONLY <2>1, <2>2, Declares
<1>3. st \in State /\ run \in Run_state /\ InRange(run) /\ run.var \in [Local -> Nat] /\ Len(run.rc) \in Nat
  BY TypeParts DEF TraceInv, Run_state
<1>4. now \in [Local -> Nat] /\ \A w \in Local : now[w] \in 0 .. Len(run.rc)
  BY <1>3 DEF InRange, None, Unset
<1> HIDE DEF f, gs, now
<1>5. q \in Run_state /\ InRange(q) /\ q.exact = run.exact /\ (~On => q = run)
      /\ (On => q.var = now /\ q.rc = run.rc /\ q.pools = run.pools /\ q.given = run.given)
  BY <1>3, <1>4 DEF Run_state, InRange
<1> HIDE DEF q
<1>6. ASSUME On, run.exact PROVE Agree(st, gs, Depth, q)
  <2>1. ObjectsAgree(st, q)
    BY <1>5, <1>6, OnPath DEF ObjectsAgree
  <2> QED
    BY <1>2, <1>5, <1>6, <2>1 DEF Agree
<1>7. Nested(gs, Len(st.bindings)) /\ Path(gs, st, q)
  BY <1>1, <1>2, <1>3, <1>5, <1>6, Straight
<1> QED
  BY <1>1, <1>2, <1>3, <1>5, <1>7 DEF TraceInv, TypeInv

LEMMA DeclareStep ==
    ASSUME TraceInv, Fresh \notin Local, NEW v \in Local, NEW op, NEW of \in Operand,
           NEW is_static \in BOOLEAN, Declare(v, op, of, is_static)
    PROVE  TraceInv'
<1> DEFINE f == WithName(Top, v)
           gs == WithTop(f)
           id == Target(st, of)
           done == refop(st, op, of)
           kept == IF is_static THEN [done EXCEPT !.objects[id].escaped = TRUE] ELSE done
           t == IF id = None THEN done ELSE bind(kept, v, id)
           r == RunOp(op, of)
           k == RunTarget(of)
           given == r.given \cup IF is_static THEN {k} ELSE {}
           var == [r.var EXCEPT ![v] = k]
           q == IF On THEN [r EXCEPT !.var = var, !.given = given] ELSE run
           now == Unset(v)
<1>1. frames # <<>> /\ ~Top.closed /\ v \notin Declared /\ st' = t /\ frames' = gs /\ run' = q
  BY DEF Declare, Statement, Runs, SetTop, WithName, WithTop
<1>2. /\ gs \in Seq(Block_frame) /\ Len(gs) = Depth /\ gs[Depth] = f
      /\ \A i \in 1 .. Depth - 1 : gs[i] = frames[i]
      /\ f.kind = Top.kind /\ f.snap = Top.snap /\ f.has_else = Top.has_else
      /\ f.on = Top.on /\ v \in f.names /\ Level(f) = Level(Top)
      /\ \A i \in 1 .. Depth - 1 : f.names \cap frames[i].names = {}
      /\ \A i \in 1 .. Depth : gs[i].names \subseteq Local /\ (i # Depth => v \notin gs[i].names)
      /\ On /\ run.exact => NamesAgree(st, gs, Depth, now)
  <2>1. f = WithName(Top, v) /\ gs = WithTop(f) /\ now = Unset(v) /\ v \in Local /\ TraceInv
    OBVIOUS
  <2>2. frames # <<>> /\ v \notin Declared
    BY <1>1
  <2> HIDE DEF f, gs, q, now, t
  <2> QED
    BY ONLY <2>1, <2>2, Declares
<1>3. /\ done \in State /\ done.bindings = st.bindings /\ id \in Nat
      /\ r \in Run_state /\ r.var = run.var /\ r.given = run.given /\ r.exact = run.exact
      /\ InRange(r) /\ k \in 0 .. Len(r.rc) /\ k \in Nat /\ Len(r.rc) \in Nat
      /\ On /\ run.exact => id = k /\ ObjectsAgree(done, r)
  <2> HIDE DEF f, q, t, done, r, k, id
  <2> QED
    BY <1>1, OperationType DEF done, r, k, id
<1>4. st \in State /\ run \in Run_state /\ InRange(run) /\ run.var \in [Local -> Nat]
  BY TypeParts DEF TraceInv
<1>5. Len(st.bindings) \in Nat /\ Len(st.bindings) > 1 /\ Len(st.bindings) = Level(Top)
      /\ Depth \in Nat /\ Depth > 0 /\ Depth \in 1 .. Depth
  BY <1>1, Tops
<1> HIDE DEF f, gs, id, done, r, k
<1>6. /\ kept \in State /\ kept.bindings = st.bindings
      /\ \A u : ObjectsAgree(done, r) /\ u.rc = r.rc /\ u.pools = r.pools
                        /\ u.given = r.given \cup (IF is_static THEN {id} ELSE {})
                   => ObjectsAgree(kept, u)
  <2>1. CASE is_static
    <3>1. kept = [done EXCEPT !.objects[id].escaped = TRUE]
      BY <2>1
    <3> HIDE DEF kept
    <3>2. /\ kept \in State /\ kept.bindings = done.bindings
          /\ \A a, b : ObjectsAgree(done, a) /\ b.rc = a.rc /\ b.pools = a.pools
                        /\ a.given \cup {id} \subseteq b.given => ObjectsAgree(kept, b)
      BY ONLY <1>3, <3>1, EscapedIs
    <3> QED
      BY <1>3, <2>1, <3>2
  <2>2. CASE ~is_static
    BY <1>3, <2>2 DEF ObjectsAgree
  <2> QED
    BY <2>1, <2>2
<1> HIDE DEF kept
<1>7. t \in State /\ Len(t.bindings) = Len(st.bindings)
  <2>1. CASE id = None
    BY <1>3, <2>1
  <2>2. CASE id # None
    <3>1. t = bind(kept, v, id) /\ kept.bindings # <<>>
      BY <1>5, <1>6, <2>2
    <3>2. v \in Local
      OBVIOUS
    <3> HIDE DEF t
    <3> QED
      BY ONLY <1>3, <1>6, <3>1, <3>2, BindIs
  <2> QED
    BY <2>1, <2>2
<1>8. var \in [Local -> Nat] /\ given \in SUBSET Nat /\ (\A w \in Local : var[w] \in 0 .. Len(r.rc))
      /\ var[v] = k /\ \A w : w # v => var[w] = run.var[w]
  BY <1>3, <1>4 DEF InRange, Run_state
<1>9. now[v] = None /\ \A w : w # v => now[w] = run.var[w]
  BY <1>4 DEF Unset
<1> HIDE DEF var, now
<1>10. /\ q \in Run_state /\ InRange(q) /\ q.exact = run.exact /\ (~On => q = run)
       /\ On => q.var = var /\ q.rc = r.rc /\ q.pools = r.pools /\ q.given = given
  BY <1>3, <1>4, <1>8 DEF Run_state, InRange
<1> HIDE DEF q
<1>11. ASSUME On, run.exact PROVE Agree(t, gs, Depth, q)
  <2>1. id = k /\ ObjectsAgree(done, r) /\ NamesAgree(st, gs, Depth, now)
    BY <1>2, <1>3, <1>11
  <2>2. ObjectsAgree(kept, q)
    BY <1>6, <1>10, <1>11, <2>1
  <2>3. CASE id = None
    <3>1. t = done
      BY <2>3
    <3>2. ObjectsAgree(done, q)
      BY <1>10, <1>11, <2>1 DEF ObjectsAgree
    <3>3. NamesAgree(done, gs, Depth, now)
      BY <1>3, <1>5, <2>1, NamesKept
    <3>4. \A w : now[w] = var[w]
      BY <1>8, <1>9, <2>1, <2>3
    <3>5. NamesAgree(done, gs, Depth, var)
      BY <3>3, <3>4 DEF NamesAgree
    <3> QED
      BY <1>10, <1>11, <3>1, <3>2, <3>5 DEF Agree
  <2>4. CASE id # None
    <3>1. t = bind(kept, v, id)
      BY <2>4
    <3>2. NamesAgree(kept, gs, Depth, now)
      BY <1>5, <1>6, <2>1, NamesKept
    <3>3. Elsewhere(var, now, v)
      BY <1>8, <1>9 DEF Elsewhere
    <3>4. gs[Depth] = f /\ Level(gs[Depth]) = Len(kept.bindings) /\ v \in gs[Depth].names
          /\ Len(kept.bindings) \in Nat /\ Len(kept.bindings) > 1 /\ var[v] = id
      BY <1>2, <1>5, <1>6, <1>8, <2>1
    <3>5. Level(gs[Depth]) \in Nat /\ Level(gs[Depth]) >= Len(kept.bindings)
      BY <3>4
    <3>6. NamesAgree(t, gs, Depth, var)
      <4>1. v \in Local
        OBVIOUS
      <4> HIDE DEF t
      <4> QED
        BY ONLY <1>2, <1>3, <1>5, <1>6, <2>4, <3>1, <3>2, <3>3, <3>4, <3>5, <4>1, NamesBind
    <3>7. ObjectsAgree(t, q)
      <4>1. t.objects = kept.objects /\ t.pools = kept.pools
        <5>1. kept.bindings # <<>>
          BY <1>5, <1>6
        <5>2. v \in Local
          OBVIOUS
        <5> HIDE DEF t
        <5> QED
          BY ONLY <1>3, <1>6, <3>1, <5>1, <5>2, BindIs
      <4> HIDE DEF t
      <4> QED
        BY <2>2, <4>1 DEF ObjectsAgree
    <3> QED
      BY <1>10, <1>11, <3>6, <3>7 DEF Agree
  <2> QED
    BY <2>3, <2>4
<1> HIDE DEF t
<1>12. Nested(gs, Len(t.bindings)) /\ Path(gs, t, q)
  BY <1>1, <1>2, <1>7, <1>10, <1>11, Straight
<1> QED
  BY <1>1, <1>2, <1>7, <1>10, <1>12 DEF TraceInv, TypeInv

LEMMA AssignStep ==
    ASSUME TraceInv, Fresh \notin Local, NEW v \in Visible, NEW of \in Operand, Assign(v, of)
    PROVE  TraceInv'
<1> DEFINE id == Target(st, of)
           done == refop(st, "value", of)
           t == IF id = None THEN st ELSE bind(done, v, id)
           r == RunOp("value", of)
           k == RunTarget(of)
           var == [r.var EXCEPT ![v] = k]
           q == IF On THEN [r EXCEPT !.var = var] ELSE run
<1>1. /\ frames # <<>> /\ ~Top.closed /\ st' = t /\ frames' = frames /\ run' = q
      /\ On => k # None
      /\ \E i \in DOMAIN frames : v \in frames[i].names
                                     /\ \A j \in i + 1 .. Depth : frames[j].kind \in {"then", "else"}
  BY DEF Assign, Statement, Runs
<1>2. st \in State /\ run \in Run_state /\ InRange(run) /\ run.var \in [Local -> Nat]
      /\ frames \in Seq(Block_frame) /\ Depth = Len(frames) /\ Nested(frames, Len(st.bindings))
  BY TypeParts DEF TraceInv
<1>3. /\ Len(st.bindings) \in Nat /\ Len(st.bindings) > 1 /\ Len(st.bindings) = Level(Top)
      /\ Depth \in Nat /\ Depth > 0 /\ Depth \in 1 .. Depth /\ Top = frames[Depth]
      /\ \A j \in 1 .. Depth : frames[j].names \subseteq Local
      /\ \A i, j \in 1 .. Depth : i # j => frames[i].names \cap frames[j].names = {}
      /\ \A i \in 1 .. Depth - 1 : i \in 1 .. Depth /\ i # Depth
  <2>1. frames # <<>>
    BY <1>1
  <2> HIDE DEF t, q, k, r, id, done
  <2>2. Depth \in Nat /\ \A i \in 1 .. Depth - 1 : i \in 1 .. Depth /\ i # Depth
    BY <2>1, Tops
  <2> QED
    BY <2>1, <2>2, Tops
<1>4. PICK i \in 1 .. Depth : v \in frames[i].names
                                /\ \A j \in i + 1 .. Depth : frames[j].kind \in {"then", "else"}
  BY <1>1, <1>2
<1>5. v \in Local /\ Level(frames[i]) = Len(st.bindings)
  <2>1. \A j \in i + 1 .. Depth : Branch(frames[j])
    BY <1>4 DEF Branch
  <2>2. i \in 1 .. Len(frames) /\ Depth \in 1 .. Len(frames) /\ i <= Depth
    BY <1>2, <1>3
  <2>3. Level(frames[i]) = Level(frames[Depth])
    BY <1>2, <2>1, <2>2 DEF Nested
  <2> QED
    BY <1>3, <1>4, <2>3
<1>6. /\ done \in State /\ done.bindings = st.bindings /\ id \in Nat
      /\ r \in Run_state /\ r.var = run.var /\ r.given = run.given /\ r.exact = run.exact
      /\ InRange(r) /\ k \in 0 .. Len(r.rc) /\ k \in Nat /\ Len(r.rc) \in Nat
      /\ On /\ run.exact => id = k /\ ObjectsAgree(done, r)
  <2> HIDE DEF q, t, done, r, k, id
  <2> QED
    BY <1>1, OperationType DEF done, r, k, id
<1> HIDE DEF id, done, r, k
<1>7. t \in State /\ Len(t.bindings) = Len(st.bindings)
  <2>1. CASE id = None
    BY <1>2, <2>1
  <2>2. CASE id # None
    <3>1. t = bind(done, v, id) /\ done.bindings # <<>>
      BY <1>3, <1>6, <2>2
    <3> HIDE DEF t
    <3> QED
      BY ONLY <1>5, <1>6, <3>1, BindIs
  <2> QED
    BY <2>1, <2>2
<1>8. var \in [Local -> Nat] /\ (\A w \in Local : var[w] \in 0 .. Len(r.rc))
      /\ var[v] = k /\ \A w : w # v => var[w] = run.var[w]
  BY <1>2, <1>5, <1>6 DEF InRange, Run_state
<1> HIDE DEF var
<1>9. /\ q \in Run_state /\ InRange(q) /\ q.exact = run.exact /\ (~On => q = run)
      /\ On => q.var = var /\ q.rc = r.rc /\ q.pools = r.pools /\ q.given = r.given
  BY <1>2, <1>6, <1>8 DEF Run_state, InRange
<1> HIDE DEF q
<1>10. ASSUME On, run.exact PROVE Agree(t, frames, Depth, q)
  <2>1. id = k /\ ObjectsAgree(done, r) /\ id # None
    BY <1>1, <1>6, <1>10
  <2>2. t = bind(done, v, id)
    BY <2>1
  <2>3. NamesAgree(done, frames, Depth, run.var)
    <3>1. NamesAgree(st, frames, Depth, run.var)
      BY <1>10, OnPath
    <3> QED
      BY <1>3, <1>6, <3>1, NamesKept
  <2>4. /\ Len(done.bindings) > 1 /\ Level(frames[i]) \in Nat /\ Level(frames[i]) >= Len(done.bindings)
        /\ var[v] = id /\ \A j \in 1 .. Depth : frames[j].names \subseteq Local /\ (j # i => v \notin frames[j].names)
        /\ v \in frames[i].names /\ Elsewhere(var, run.var, v)
    <3>1. Level(frames[i]) = Len(done.bindings) /\ Len(done.bindings) \in Nat /\ Len(done.bindings) > 1
      BY <1>3, <1>5, <1>6
    <3>2. \A j \in 1 .. Depth : j # i => v \notin frames[j].names
      BY <1>3, <1>4
    <3> QED
      BY <1>3, <1>4, <1>8, <2>1, <3>1, <3>2 DEF Elsewhere
  <2>5. NamesAgree(t, frames, Depth, var)
    <3> HIDE DEF t
    <3> QED
      BY ONLY <1>4, <1>5, <1>6, <2>1, <2>2, <2>3, <2>4, NamesBind
  <2>6. ObjectsAgree(t, q)
    <3>1. t.objects = done.objects /\ t.pools = done.pools
      <4>1. done.bindings # <<>>
        BY <1>3, <1>6
      <4> HIDE DEF t
      <4> QED
        BY ONLY <1>5, <1>6, <2>2, <4>1, BindIs
    <3> HIDE DEF t
    <3> QED
      BY <1>9, <1>10, <2>1, <3>1 DEF ObjectsAgree
  <2> QED
    BY <1>9, <1>10, <2>5, <2>6 DEF Agree
<1> HIDE DEF t
<1>11. Nested(frames, Len(t.bindings)) /\ Path(frames, t, q)
  <2>1. \A j \in 1 .. Depth - 1 : Top.names \cap frames[j].names = {}
    BY <1>3
  <2> QED
    BY <1>1, <1>2, <1>3, <1>7, <1>9, <1>10, <2>1, Straight
<1> QED
  BY <1>1, <1>2, <1>7, <1>9, <1>11 DEF TraceInv, TypeInv

LEMMA EscapeStep ==
    ASSUME TraceInv, Fresh \notin Local, NEW op, NEW of \in Operand, Escape(op, of)
    PROVE  TraceInv'
<1> DEFINE id == Target(st, of)
           done == refop(st, op, of)
           t == IF id = None THEN done ELSE [done EXCEPT !.objects[id].escaped = TRUE]
           r == RunOp(op, of)
           k == RunTarget(of)
           given == r.given \cup {k}
           exact == r.exact /\ Depth = 1
           q == IF On THEN [r EXCEPT !.given = given, !.exact = exact] ELSE run
           gs == [i \in DOMAIN frames |->
                     [frames[i] EXCEPT !.on = frames[i].on /\ ~On, !.closed = frames[i].closed \/ i = Depth]]
<1>1. frames # <<>> /\ ~Top.closed /\ st' = t /\ frames' = gs /\ run' = q
  BY DEF Escape, Statement, Runs
<1>2. /\ st \in State /\ run \in Run_state /\ InRange(run) /\ frames \in Seq(Block_frame)
      /\ Depth = Len(frames) /\ DOMAIN frames = 1 .. Depth /\ run.exact \in BOOLEAN
      /\ Nested(frames, Len(st.bindings)) /\ Path(frames, st, run)
  BY TypeParts DEF TraceInv
<1>3. /\ Len(st.bindings) = Level(Top) /\ Depth \in Nat /\ Depth > 0 /\ Depth \in 1 .. Depth
      /\ Top = frames[Depth] /\ (On <=> Top.on) /\ 1 \in 1 .. Depth
  <2>1. frames # <<>>
    BY <1>1
  <2> HIDE DEF t, q, k, r, id, done, gs
  <2> QED
    BY <2>1, Tops
<1>4. /\ done \in State /\ done.bindings = st.bindings /\ id \in Nat
      /\ r \in Run_state /\ r.var = run.var /\ r.given = run.given /\ r.exact = run.exact
      /\ InRange(r) /\ k \in Nat
      /\ On /\ run.exact => id = k /\ ObjectsAgree(done, r)
  <2> HIDE DEF q, t, done, r, k, id, gs
  <2> QED
    BY <1>1, OperationType DEF done, r, k, id
<1> HIDE DEF id, done, r, k
<1>5. /\ t \in State /\ t.bindings = st.bindings
      /\ \A u : ObjectsAgree(done, r) /\ u.rc = r.rc /\ u.pools = r.pools
                   /\ r.given \cup {id} \subseteq u.given => ObjectsAgree(t, u)
  <2>1. CASE id = None
    BY <1>4, <2>1 DEF ObjectsAgree
  <2>2. CASE id # None
    <3>1. t = [done EXCEPT !.objects[id].escaped = TRUE]
      BY <2>2
    <3> HIDE DEF t
    <3>2. /\ t \in State /\ t.bindings = done.bindings
          /\ \A a, b : ObjectsAgree(done, a) /\ b.rc = a.rc /\ b.pools = a.pools
                        /\ a.given \cup {id} \subseteq b.given => ObjectsAgree(t, b)
      BY ONLY <1>4, <3>1, EscapedIs
    <3> QED
      BY <1>4, <3>2
  <2> QED
    BY <2>1, <2>2
<1> HIDE DEF t
<1>6. given \in SUBSET Nat /\ exact \in BOOLEAN /\ (exact <=> run.exact /\ Depth = 1)
      /\ given = r.given \cup {k}
  BY <1>4 DEF Run_state
<1> HIDE DEF given, exact
<1>7. /\ q \in Run_state /\ InRange(q) /\ (~On => q = run)
      /\ On => q.var = run.var /\ q.rc = r.rc /\ q.pools = r.pools /\ q.given = given /\ q.exact = exact
  <2>1. CASE On
    <3>1. q = [r EXCEPT !.given = given, !.exact = exact]
      BY <2>1
    <3> HIDE DEF q
    <3>2. q \in Run_state /\ q.var = run.var /\ q.rc = r.rc /\ q.pools = r.pools /\ q.given = given
          /\ q.exact = exact
      BY ONLY <1>4, <1>6, <3>1 DEF Run_state
    <3> QED
      BY <1>4, <2>1, <3>2 DEF InRange
  <2>2. CASE ~On
    BY <1>2, <2>2
  <2> QED
    BY <2>1, <2>2
<1> HIDE DEF q
<1>8. /\ gs \in Seq(Block_frame) /\ Len(gs) = Depth
      /\ \A i \in 1 .. Depth :
            /\ gs[i].kind = frames[i].kind /\ gs[i].names = frames[i].names
            /\ gs[i].gone = frames[i].gone /\ gs[i].snap = frames[i].snap
            /\ gs[i].has_else = frames[i].has_else
            /\ (gs[i].on <=> frames[i].on /\ ~On)
            /\ (gs[i].closed <=> frames[i].closed \/ i = Depth)
  <2>2. ASSUME NEW i \in 1 .. Depth
        PROVE  /\ gs[i] \in Block_frame
               /\ gs[i].kind = frames[i].kind /\ gs[i].names = frames[i].names
               /\ gs[i].gone = frames[i].gone /\ gs[i].snap = frames[i].snap
               /\ gs[i].has_else = frames[i].has_else
               /\ (gs[i].on <=> frames[i].on /\ ~On)
               /\ (gs[i].closed <=> frames[i].closed \/ i = Depth)
    <3> DEFINE f == frames[i]
               on == f.on /\ ~On
               closed == f.closed \/ i = Depth
    <3>1. gs[i] = [f EXCEPT !.on = on, !.closed = closed]
      BY <1>2
    <3>2. f \in Block_frame
      BY <1>2
    <3>3. on \in BOOLEAN /\ closed \in BOOLEAN /\ (on <=> f.on /\ ~On) /\ (closed <=> f.closed \/ i = Depth)
      OBVIOUS
    <3> HIDE DEF gs, on, closed, f
    <3>4. /\ gs[i] \in Block_frame /\ gs[i].kind = f.kind /\ gs[i].names = f.names
          /\ gs[i].gone = f.gone /\ gs[i].snap = f.snap /\ gs[i].has_else = f.has_else
          /\ gs[i].on = on /\ gs[i].closed = closed
      BY ONLY <3>1, <3>2, <3>3 DEF Block_frame
    <3> QED
      BY <3>3, <3>4 DEF f
  <2>3. gs \in [1 .. Depth -> Block_frame]
    <3>1. DOMAIN gs = 1 .. Depth /\ gs = [i \in 1 .. Depth |-> gs[i]]
      BY <1>2
    <3> HIDE DEF gs
    <3> QED
      BY <2>2, <3>1
  <2> HIDE DEF gs
  <2>4. gs \in Seq(Block_frame) /\ Len(gs) = Depth
    BY <1>3, <2>3
  <2> QED
    BY <2>2, <2>4
<1> HIDE DEF gs
<1>9. Nested(gs, Len(t.bindings))
  <2>1. \A i \in 1 .. Len(gs) : Alike(frames[i], gs[i])
    BY <1>8 DEF Alike
  <2>2. Nested(gs, Level(gs[Len(gs)]))
    BY <1>2, <1>3, <1>8, <2>1, NestedAlike
  <2>3. Level(gs[Depth]) = Level(frames[Depth])
    BY <1>3, <1>8 DEF Level
  <2> QED
    BY <1>3, <1>5, <1>8, <2>2, <2>3
<1>10. Path(gs, t, q)
  <2> SUFFICES ASSUME q.exact PROVE Path(gs, t, q)
    BY DEF Path
  <2>1. CASE On
    <3>1. run.exact /\ Depth = 1
      BY <1>6, <1>7, <2>1
    <3>2. id = k /\ ObjectsAgree(done, r) /\ NamesAgree(st, frames, Depth, run.var)
      BY <1>4, <2>1, <3>1, OnPath
    <3>3. ObjectsAgree(t, q)
      BY <1>5, <1>6, <1>7, <2>1, <3>2
    <3>4. NamesAgree(t, gs, Depth, run.var)
      <4>1. \A j \in 1 .. Depth : /\ gs[j].names = frames[j].names /\ frames[j].gone \subseteq gs[j].gone
                                 /\ Level(gs[j]) = Level(frames[j])
        BY <1>8 DEF Level
      <4> QED
        BY <1>3, <1>5, <3>2, <4>1, NamesKept
    <3>5. Agree(t, gs, Depth, q)
      BY <1>7, <2>1, <3>3, <3>4 DEF Agree
    <3>6. Len(gs) = 1 /\ gs[1].closed /\ Agree(t, gs, 1, q)
      BY <1>3, <1>8, <3>1, <3>5
    <3>7. \A i, j \in 1 .. 1 : ~(i < j)
      OBVIOUS
    <3>8. 2 .. 1 = {}
      OBVIOUS
    <3> QED
      BY ONLY <3>6, <3>7, <3>8 DEF Path
  <2>2. CASE ~On
    <3>1. q = run /\ run.exact
      BY <1>7, <2>2
    <3>2. Depth > 1
      <4>1. frames[1].on \/ (Depth = 1 /\ frames[1].closed)
        BY <1>2, <1>3, <3>1 DEF Path
      <4> QED
        BY <1>1, <1>3, <2>2, <4>1
    <3>3. \A i \in 1 .. Depth - 1 : AsBefore(frames[i], gs[i])
      <4>1. \A i \in 1 .. Depth - 1 : i \in 1 .. Depth
        BY <1>3
      <4> QED
        BY <1>8, <2>2, <4>1 DEF AsBefore
    <3>4. ~frames[Depth].on /\ ~gs[Depth].on /\ gs[Depth].snap = frames[Depth].snap
          /\ (TakenBack(gs[Depth]) <=> TakenBack(frames[Depth]))
      BY <1>3, <1>8, <2>2 DEF TakenBack
    <3>5. Path(gs, t, run)
      BY <1>2, <1>8, <3>2, <3>3, <3>4, PathOff
    <3> QED
      BY <3>1, <3>5
  <2> QED
    BY <2>1, <2>2
<1> QED
  BY <1>1, <1>5, <1>7, <1>8, <1>9, <1>10 DEF TraceInv, TypeInv

\* A block opens.
LEMMA Opening ==
    ASSUME TraceInv, frames # <<>>, ~Top.closed, NEW f \in Block_frame,
           f.kind # "function", f.names = {}, f.snap = st, TakenBack(f) => ~f.on, f.on => On,
           On /\ ~f.on => TakenBack(f), NEW gs, gs = Append(frames, f),
           NEW t \in State, Len(t.bindings) = Level(f), NEW q,
           ~f.on => q = run, q.exact => run.exact, f.on /\ q.exact => Agree(t, gs, Depth + 1, q)
    PROVE  gs \in Seq(Block_frame) /\ Nested(gs, Len(t.bindings)) /\ Path(gs, t, q)
<1>1. /\ frames \in Seq(Block_frame) /\ Depth = Len(frames) /\ Depth > 0 /\ Top = frames[Depth]
      /\ (On <=> Top.on) /\ Nested(frames, Len(st.bindings)) /\ Path(frames, st, run)
      /\ Len(f.snap.bindings) = Len(st.bindings)
  BY Tops, TypeParts DEF TraceInv
<1>2. gs \in Seq(Block_frame)
  BY <1>1, AppendProperties
<1>3. Nested(gs, Level(f))
  BY <1>1, NestedOpen
<1>4. Path(gs, t, q)
  <2>1. /\ ~frames[Depth].closed /\ (f.on => frames[Depth].on)
        /\ (frames[Depth].on /\ ~f.on => TakenBack(f))
    BY <1>1
  <2> HIDE DEF Path, Agree
  <2> QED
    BY <1>1, <2>1, PathOpen
<1> QED
  BY <1>2, <1>3, <1>4

\* What the innermost block on the path agrees on, a block without names in it does.
LEMMA AgreeOpens ==
    ASSUME TraceInv, On, run.exact, NEW f, f.names = {}, NEW gs, gs = Append(frames, f),
           f \in Block_frame
    PROVE  ObjectsAgree(st, run) /\ NamesAgree(st, gs, Depth + 1, run.var)
<1>1. ObjectsAgree(st, run) /\ NamesAgree(st, frames, Depth, run.var) /\ Depth \in Nat
  BY OnPath, Tops
<1>2. frames \in Seq(Block_frame) /\ Depth = Len(frames)
  BY TypeParts DEF TraceInv
<1>3. /\ \A j \in 1 .. Depth : gs[j] = frames[j]
      /\ gs[Depth + 1] = f
  BY <1>2, AppendProperties
<1>4. gs[Depth + 1].names = {}
  BY <1>3
<1> QED
  BY <1>1, <1>3, <1>4, NamesOpen

LEMMA NewFrame ==
    ASSUME st \in State, NEW kind \in Kind, NEW on \in BOOLEAN, NEW g, g = Frame(kind, on)
    PROVE  /\ g \in Block_frame /\ g.kind = kind /\ g.on = on /\ g.names = {} /\ g.gone = {}
           /\ g.has_else = FALSE /\ g.snap = st /\ g.closed = FALSE
BY DEF Frame, Block_frame

LEMMA IfStep ==
    ASSUME TraceInv, NEW has_else \in BOOLEAN, If(has_else)
    PROVE  TraceInv'
<1> DEFINE on == On /\ ~has_else
           g == Frame("then", on)
           f == [g EXCEPT !.has_else = has_else]
           gs == Append(frames, f)
<1>1. frames # <<>> /\ ~Top.closed /\ st' = st /\ frames' = gs /\ run' = run
  BY DEF If, Statement, Open
<1>2. st \in State /\ run \in Run_state /\ InRange(run) /\ Len(st.bindings) \in Nat
  BY TypeParts DEF TraceInv
<1>3. on \in BOOLEAN /\ (on => On /\ ~has_else) /\ (On /\ ~on => has_else)
  OBVIOUS
<1> HIDE DEF on
<1>g. g \in Block_frame /\ g.kind = "then" /\ g.on = on /\ g.names = {} /\ g.snap = st
  <2>1. "then" \in Kind /\ g = Frame("then", on)
    BY DEF Kind
  <2> HIDE DEF g
  <2> QED
    BY ONLY <1>2, <1>3, <2>1, NewFrame
<1> HIDE DEF g
<1>4. /\ f \in Block_frame /\ f.kind = "then" /\ f.names = {} /\ f.snap = st
      /\ f.on = on /\ f.has_else = has_else
  BY <1>g DEF Block_frame
<1> HIDE DEF f
<1>5. Level(f) = Len(st.bindings) /\ (TakenBack(f) <=> has_else)
  BY <1>2, <1>4 DEF Level, Opens, TakenBack
<1>6. f.on /\ run.exact => Agree(st, gs, Depth + 1, run)
  BY <1>3, <1>4, AgreeOpens DEF Agree
<1>7. /\ f.kind # "function" /\ (TakenBack(f) => ~f.on) /\ (f.on => On)
      /\ (On /\ ~f.on => TakenBack(f)) /\ Len(st.bindings) = Level(f)
  BY <1>3, <1>4, <1>5
<1>8. gs \in Seq(Block_frame) /\ Nested(gs, Len(st.bindings)) /\ Path(gs, st, run)
  BY <1>1, <1>2, <1>4, <1>6, <1>7, Opening
<1> QED
  BY <1>1, <1>2, <1>8 DEF TraceInv, TypeInv

LEMMA LoopStep ==
    ASSUME TraceInv, MaxIters \in Int, Loop
    PROVE  TraceInv'
<1> DEFINE g == Frame("loop", FALSE)
           f == [g EXCEPT !.iters = MaxIters]
           gs == Append(frames, f)
           t == Scope(st)
<1>1. frames # <<>> /\ ~Top.closed /\ st' = t /\ frames' = gs /\ run' = run
  BY DEF Loop, Statement, Open
<1>2. st \in State /\ run \in Run_state /\ InRange(run) /\ Len(st.bindings) \in Nat
  BY TypeParts DEF TraceInv
<1>3. t \in State /\ Len(t.bindings) = Len(st.bindings) + 1
  BY <1>2, ScopeIs
<1>g. g \in Block_frame /\ g.kind = "loop" /\ g.on = FALSE /\ g.names = {} /\ g.snap = st
  BY <1>2 DEF Frame, Block_frame, Kind
<1> HIDE DEF g, t
<1>4. /\ f \in Block_frame /\ f.kind = "loop" /\ f.names = {} /\ f.snap = st /\ ~f.on
  BY <1>g DEF Block_frame
<1> HIDE DEF f
<1>5. Level(f) = Len(t.bindings) /\ TakenBack(f)
  BY <1>2, <1>3, <1>4 DEF Level, Opens, TakenBack
<1>6. gs \in Seq(Block_frame) /\ Nested(gs, Len(t.bindings)) /\ Path(gs, t, run)
  <2> HIDE DEF gs
  <2>1. gs = Append(frames, f)
    BY DEF gs
  <2>2. f.kind # "function" /\ Len(t.bindings) = Level(f)
    BY <1>4, <1>5
  <2> QED
    BY <1>1, <1>3, <1>4, <1>5, <2>1, <2>2, Opening
<1> QED
  BY <1>1, <1>2, <1>3, <1>6 DEF TraceInv, TypeInv

LEMMA BlockStep ==
    ASSUME TraceInv, Block
    PROVE  TraceInv'
<1> DEFINE f == [kind |-> "block", on |-> On, names |-> {}, gone |-> {}, has_else |-> FALSE,
                 iters |-> 0, snap |-> st, closed |-> FALSE]
           gs == Append(frames, f)
           t == Scope(st)
<1>1. frames # <<>> /\ ~Top.closed /\ st' = t /\ frames' = gs /\ run' = run
  BY DEF Block, Statement, Open, Frame
<1>2. st \in State /\ run \in Run_state /\ InRange(run) /\ Len(st.bindings) \in Nat
  BY TypeParts DEF TraceInv
<1>3. t \in State /\ t.objects = st.objects /\ t.pools = st.pools /\ Len(t.bindings) = Len(st.bindings) + 1
  BY <1>2, ScopeIs
<1>4. /\ f \in Block_frame /\ f.kind = "block" /\ f.names = {} /\ f.snap = st /\ (f.on <=> On)
  <2> DEFINE on == On
  <2>1. on \in BOOLEAN
    BY <1>1, Tops DEF Block_frame, On
  <2>2. f = [kind |-> "block", on |-> on, names |-> {}, gone |-> {}, has_else |-> FALSE,
             iters |-> 0, snap |-> st, closed |-> FALSE]
    OBVIOUS
  <2> HIDE DEF on, f
  <2>3. f \in Block_frame /\ f.kind = "block" /\ f.names = {} /\ f.snap = st /\ f.on = on
    BY ONLY <1>2, <2>1, <2>2 DEF Block_frame, Kind
  <2> QED
    BY <2>3 DEF on
<1> HIDE DEF f, t
<1>5. Level(f) = Len(t.bindings) /\ ~TakenBack(f)
  BY <1>2, <1>3, <1>4 DEF Level, Opens, TakenBack
<1>6. gs \in Seq(Block_frame) /\ \A j \in 1 .. Depth + 1 : gs[j].names \subseteq Local
  <2>1. gs \in Seq(Block_frame) /\ Len(gs) = Depth + 1
    BY <1>4, AppendProperties DEF TraceInv, TypeInv, Depth
  <2> HIDE DEF gs
  <2> QED
    BY <2>1, Frames
<1>7. f.on /\ run.exact => Agree(t, gs, Depth + 1, run)
  <2> SUFFICES ASSUME On, run.exact PROVE Agree(t, gs, Depth + 1, run)
    BY <1>4
  <2>1. ObjectsAgree(st, run) /\ NamesAgree(st, gs, Depth + 1, run.var)
    BY <1>4, AgreeOpens
  <2>2. NamesAgree(t, gs, Depth + 1, run.var)
    BY <1>2, <1>6, <2>1, NamesScope DEF t
  <2>3. ObjectsAgree(t, run)
    BY <1>3, <2>1 DEF ObjectsAgree
  <2> QED
    BY <2>2, <2>3 DEF Agree
<1>8. Nested(gs, Len(t.bindings)) /\ Path(gs, t, run)
  <2>1. gs = Append(frames, f)
    OBVIOUS
  <2> HIDE DEF gs
  <2>2. f.kind # "function" /\ Len(t.bindings) = Level(f) /\ (TakenBack(f) => ~f.on) /\ (f.on => On)
        /\ (On /\ ~f.on => TakenBack(f))
    BY <1>4, <1>5
  <2> QED
    BY <1>1, <1>3, <1>4, <1>7, <2>1, <2>2, Opening
<1> QED
  BY <1>1, <1>2, <1>3, <1>6, <1>8 DEF TraceInv, TypeInv

LEMMA PoolStep ==
    ASSUME TraceInv, Pool
    PROVE  TraceInv'
<1> DEFINE f == [kind |-> "pool", on |-> On, names |-> {}, gone |-> {}, has_else |-> FALSE,
                 iters |-> 0, snap |-> st, closed |-> FALSE]
           gs == Append(frames, f)
           s == Scope(st)
           t == [s EXCEPT !.pools = Append(s.pools, {})]
           q == IF On THEN [run EXCEPT !.pools = Append(run.pools, {})] ELSE run
<1>1. frames # <<>> /\ ~Top.closed /\ st' = t /\ frames' = gs /\ run' = q
  BY DEF Pool, Statement, Open, Frame, Runs
<1>2. st \in State /\ run \in Run_state /\ InRange(run) /\ Len(st.bindings) \in Nat
      /\ run.pools \in Seq(SUBSET Nat)
  BY TypeParts DEF TraceInv
<1>3. s \in State /\ s.objects = st.objects /\ s.pools = st.pools /\ Len(s.bindings) = Len(st.bindings) + 1
  BY <1>2, ScopeIs
<1>4. /\ f \in Block_frame /\ f.kind = "pool" /\ f.names = {} /\ f.snap = st /\ (f.on <=> On)
  <2> DEFINE on == On
  <2>1. on \in BOOLEAN
    BY <1>1, Tops DEF Block_frame, On
  <2>2. f = [kind |-> "pool", on |-> on, names |-> {}, gone |-> {}, has_else |-> FALSE,
             iters |-> 0, snap |-> st, closed |-> FALSE]
    OBVIOUS
  <2> HIDE DEF on, f
  <2>3. f \in Block_frame /\ f.kind = "pool" /\ f.names = {} /\ f.snap = st /\ f.on = on
    BY ONLY <1>2, <2>1, <2>2 DEF Block_frame, Kind
  <2> QED
    BY <2>3 DEF on
<1>s. s = Scope(st)
  OBVIOUS
<1> HIDE DEF f, s
<1>5. t \in State /\ t.objects = st.objects /\ t.pools = Append(st.pools, {})
      /\ t.bindings = s.bindings
  <2>1. Append(s.pools, {}) \in Seq(SUBSET Nat)
    <3>1. s.pools \in Seq(SUBSET Nat) /\ {} \in SUBSET Nat
      BY <1>3 DEF State
    <3> QED
      BY <3>1, AppendProperties
  <2> QED
    BY <1>3, <2>1 DEF State
<1>6. q \in Run_state /\ InRange(q) /\ q.exact = run.exact /\ (~On => q = run)
      /\ (On => q.var = run.var /\ q.rc = run.rc /\ q.given = run.given /\ q.pools = Append(run.pools, {}))
  <2>1. Append(run.pools, {}) \in Seq(SUBSET Nat)
    <3>1. {} \in SUBSET Nat
      OBVIOUS
    <3> QED
      BY <1>2, <3>1, AppendProperties
  <2> QED
    BY <1>2, <2>1 DEF Run_state, InRange
<1> HIDE DEF t, q
<1>7. Level(f) = Len(t.bindings) /\ ~TakenBack(f)
  BY <1>2, <1>3, <1>4, <1>5 DEF Level, Opens, TakenBack
<1>8. gs \in Seq(Block_frame) /\ \A j \in 1 .. Depth + 1 : gs[j].names \subseteq Local
  <2>1. gs \in Seq(Block_frame) /\ Len(gs) = Depth + 1
    BY <1>4, AppendProperties DEF TraceInv, TypeInv, Depth
  <2> HIDE DEF gs
  <2> QED
    BY <2>1, Frames
<1>9. f.on /\ q.exact => Agree(t, gs, Depth + 1, q)
  <2> SUFFICES ASSUME On, run.exact PROVE Agree(t, gs, Depth + 1, q)
    BY <1>4, <1>6
  <2>1. ObjectsAgree(st, run) /\ NamesAgree(st, gs, Depth + 1, run.var)
    BY <1>4, AgreeOpens
  <2>2. NamesAgree(s, gs, Depth + 1, run.var)
    BY <1>2, <1>8, <1>s, <2>1, NamesScope
  <2>3. NamesAgree(t, gs, Depth + 1, run.var)
    <3>1. \A v : resolve(t, v) = resolve(s, v)
      BY <1>5, ResolveSame
    <3> QED
      BY <1>5, <2>2, <3>1 DEF NamesAgree, BoundAt
  <2>4. ObjectsAgree(t, q)
    BY <1>5, <1>6, <2>1 DEF ObjectsAgree
  <2> QED
    BY <1>6, <2>3, <2>4 DEF Agree
<1>10. Nested(gs, Len(t.bindings)) /\ Path(gs, t, q)
  <2>1. gs = Append(frames, f)
    OBVIOUS
  <2> HIDE DEF gs
  <2>2. f.kind # "function" /\ Len(t.bindings) = Level(f) /\ (TakenBack(f) => ~f.on) /\ (f.on => On)
        /\ (On /\ ~f.on => TakenBack(f)) /\ (~f.on => q = run)
    BY <1>4, <1>6, <1>7
  <2> QED
    BY <1>1, <1>4, <1>5, <1>6, <1>9, <2>1, <2>2, Opening
<1> QED
  BY <1>1, <1>5, <1>6, <1>8, <1>10 DEF TraceInv, TypeInv

-----------------------------------------------------------------------------
(* The end of a block *)

ClosedFrames == [Front(frames) EXCEPT ![Depth - 1].gone = @ \cup Top.names \cup Top.gone]

LEMMA Closing ==
    ASSUME TraceInv, frames # <<>>, Depth > 1, NEW gs, gs = ClosedFrames
    PROVE  /\ gs \in Seq(Block_frame) /\ Len(gs) = Depth - 1 /\ Depth \in Nat
           /\ \A i \in 1 .. Depth - 1 :
                 /\ gs[i].names = frames[i].names /\ frames[i].gone \subseteq gs[i].gone
                 /\ gs[i].kind = frames[i].kind /\ gs[i].snap = frames[i].snap
                 /\ gs[i].has_else = frames[i].has_else /\ (gs[i].on <=> frames[i].on)
                 /\ Level(gs[i]) = Level(frames[i]) /\ gs[i].names \subseteq Local
                 /\ Level(gs[i]) \in Nat /\ Level(gs[i]) <= Len(Top.snap.bindings)
           /\ Top.names \cup Top.gone \subseteq gs[Depth - 1].gone
           /\ Nested(gs, Len(Top.snap.bindings))
<1> DEFINE below == SubSeq(frames, 1, Depth - 1)
           p == below[Depth - 1]
           f == [p EXCEPT !.gone = p.gone \cup Top.names \cup Top.gone]
<1>1. /\ frames \in Seq(Block_frame) /\ Depth = Len(frames) /\ Depth \in Nat /\ Top = frames[Depth]
      /\ Nested(frames, Len(st.bindings))
      /\ Top \in Block_frame
      /\ \A i \in 1 .. Depth : frames[i].names \subseteq Local /\ frames[i].gone \subseteq Local
                               /\ Level(frames[i]) \in Nat
      /\ \A i \in 1 .. Depth - 1 : Level(frames[i]) <= Len(Top.snap.bindings)
  BY Tops, TypeParts DEF TraceInv
<1>2. /\ below \in Seq(Block_frame) /\ Len(below) = Depth - 1
      /\ \A i \in 1 .. Depth - 1 : below[i] = frames[i]
  <2>1. Depth - 1 \in 0 .. Len(frames)
    BY <1>1
  <2> QED
    BY <1>1, <2>1, CutShape
<1>3. Depth - 1 \in 1 .. Depth - 1 /\ p = frames[Depth - 1] /\ below # <<>>
      /\ \A i \in 1 .. Depth - 1 : i \in 1 .. Depth /\ (i \in 1 .. Depth - 2 \/ i = Depth - 1)
  <2> HIDE DEF below
  <2>1. Depth - 1 \in 1 .. Depth - 1
    BY <1>1
  <2>2. p = frames[Depth - 1] /\ below # <<>>
    BY <1>1, <1>2, <2>1
  <2>3. \A i \in 1 .. Depth - 1 : i \in 1 .. Depth /\ (i \in 1 .. Depth - 2 \/ i = Depth - 1)
    BY <1>1
  <2> QED
    BY <2>1, <2>2, <2>3
<1>4. p \in Block_frame
  BY <1>2, <1>3
<1>5. gs = [below EXCEPT ![Depth - 1] = f]
  BY DEF ClosedFrames, Front, Depth
<1> HIDE DEF below, p
<1>6. /\ f \in Block_frame /\ f.gone = p.gone \cup Top.names \cup Top.gone
      /\ f.names = p.names /\ f.kind = p.kind /\ f.snap = p.snap /\ f.has_else = p.has_else
      /\ f.on = p.on
  BY <1>1, <1>4 DEF Block_frame
<1> HIDE DEF f
<1>7. /\ gs \in Seq(Block_frame) /\ Len(gs) = Depth - 1 /\ gs[Depth - 1] = f
      /\ \A i \in 1 .. Depth - 2 : gs[i] = below[i]
  <2>1. gs = [below EXCEPT ![Len(below)] = f] /\ (Depth - 1) - 1 = Depth - 2
    BY <1>1, <1>2, <1>5
  <2> QED
    BY <1>2, <1>3, <1>6, <2>1, SetShape
<1>8. \A i \in 1 .. Depth - 1 :
         /\ gs[i].names = frames[i].names /\ frames[i].gone \subseteq gs[i].gone
         /\ gs[i].kind = frames[i].kind /\ gs[i].snap = frames[i].snap
         /\ gs[i].has_else = frames[i].has_else /\ (gs[i].on <=> frames[i].on)
  BY <1>2, <1>3, <1>6, <1>7
<1>9. \A i \in 1 .. Depth - 1 : Level(gs[i]) = Level(frames[i])
  BY <1>8 DEF Level
<1>10. Nested(gs, Len(Top.snap.bindings))
  <2>1. \A i \in 1 .. Len(gs) : Alike(frames[i], gs[i])
    BY <1>7, <1>8 DEF Alike
  <2>2. Nested(gs, Level(gs[Len(gs)]))
    <3>1. Len(gs) <= Len(frames) /\ Len(gs) > 0
      BY <1>1, <1>7
    <3> HIDE DEF Nested
    <3> QED
      BY <1>1, <1>7, <2>1, <3>1, NestedAlike
  <2>3. Len(Top.snap.bindings) = Level(frames[Depth - 1])
    <3>1. Depth \in 2 .. Depth
      BY <1>1
    <3> QED
      BY <1>1, <3>1 DEF Nested
  <2> QED
    BY <1>3, <1>7, <1>9, <2>2, <2>3
<1>11. Top.names \cup Top.gone \subseteq gs[Depth - 1].gone
  BY <1>6, <1>7
<1> QED
  BY <1>1, <1>3, <1>7, <1>8, <1>9, <1>10, <1>11

LEMMA OnParent ==
    ASSUME TraceInv, frames # <<>>, Depth > 1, run.exact, frames[Depth - 1].on
    PROVE  \/ On
           \/ ~On /\ TakenBack(Top) /\ Agree(Top.snap, frames, Depth - 1, run)
<1>1. Depth \in 2 .. Depth /\ Depth = Len(frames) /\ Top = frames[Depth] /\ (On <=> Top.on)
      /\ Path(frames, st, run)
  BY Tops, TypeParts DEF TraceInv
<1> QED
  BY <1>1 DEF Path

LEMMA Ending ==
    ASSUME TraceInv, frames # <<>>, Depth > 1, NEW gs, gs = ClosedFrames,
           NEW t \in State, Len(t.bindings) = Len(Top.snap.bindings), NEW q \in Run_state, InRange(q),
           ~On => q = run, q.exact => run.exact,
           frames[Depth - 1].on /\ q.exact => Agree(t, gs, Depth - 1, q)
    PROVE  gs \in Seq(Block_frame) /\ Nested(gs, Len(t.bindings)) /\ Path(gs, t, q)
<1>1. gs \in Seq(Block_frame) /\ Len(gs) = Depth - 1 /\ Nested(gs, Len(Top.snap.bindings))
      /\ \A i \in 1 .. Depth - 1 :
            /\ gs[i].names = frames[i].names /\ frames[i].gone \subseteq gs[i].gone
            /\ gs[i].kind = frames[i].kind /\ gs[i].snap = frames[i].snap
            /\ gs[i].has_else = frames[i].has_else /\ (gs[i].on <=> frames[i].on)
  BY Closing
<1>2. frames \in Seq(Block_frame) /\ Depth = Len(frames) /\ Path(frames, st, run)
  BY TypeParts DEF TraceInv
<1>3. ~frames[Depth].on => q = run
  BY Tops
<1>4. Path(gs, t, q)
  <2> HIDE DEF Path
  <2>1. frames[Depth - 1].on /\ q.exact => Agree(t, gs, Depth - 1, q)
    OBVIOUS
  <2>2. Depth > 1 /\ (q.exact => run.exact)
    OBVIOUS
  <2> QED
    BY ONLY <1>1, <1>2, <1>3, <2>1, <2>2, PathClose
<1> QED
  BY <1>1, <1>4

LEMMA NamesGone ==
    ASSUME TraceInv, Depth > 1, On, run.exact, NEW gs, gs = ClosedFrames
    PROVE  NamesAgree(st, gs, Depth - 1, run.var)
<1>1. frames # <<>> /\ NamesAgree(st, frames, Depth, run.var)
  BY OnPath
<1>2. /\ Depth \in Nat
      /\ \A i \in 1 .. Depth - 1 :
            /\ gs[i].names = frames[i].names /\ frames[i].gone \subseteq gs[i].gone
            /\ Level(gs[i]) = Level(frames[i])
      /\ Top.names \cup Top.gone \subseteq gs[Depth - 1].gone
  BY <1>1, Closing
<1>3. frames[Depth].names \cup frames[Depth].gone \subseteq gs[Depth - 1].gone
  BY <1>1, <1>2, Tops
<1>4. Depth > 1
  OBVIOUS
<1> QED
  BY ONLY <1>1, <1>2, <1>3, <1>4, NamesClose

LEMMA ScopeGone ==
    ASSUME TraceInv, Depth > 1, On, run.exact, NEW gs, gs = ClosedFrames, NEW t, t = EndScope(st),
           Opens(Top.kind) = 1
    PROVE  ObjectsAgree(t, run) /\ NamesAgree(t, gs, Depth - 1, run.var)
<1>1. frames # <<>> /\ NamesAgree(st, gs, Depth - 1, run.var) /\ ObjectsAgree(st, run)
  BY OnPath, NamesGone
<1>2. st \in State /\ Len(st.bindings) = Len(Top.snap.bindings) + 1 /\ Len(Top.snap.bindings) \in Nat
  BY <1>1, Tops DEF TraceInv, TypeInv
<1>3. st.bindings # <<>> /\ t = EndScope(st)
  BY <1>2
<1>4. \A j \in 1 .. Depth - 1 : /\ gs[j].names \subseteq Local /\ Level(gs[j]) \in Nat
                               /\ Level(gs[j]) < Len(st.bindings)
  <2>1. \A j \in 1 .. Depth - 1 : /\ gs[j].names \subseteq Local /\ Level(gs[j]) \in Nat
                                 /\ Level(gs[j]) <= Len(Top.snap.bindings)
    BY <1>1, Closing
  <2> QED
    BY <1>2, <2>1
<1>5. NamesAgree(t, gs, Depth - 1, run.var)
  BY ONLY <1>1, <1>2, <1>3, <1>4, NamesEndScope
<1>6. t.objects = st.objects /\ t.pools = st.pools
  BY ONLY <1>2, <1>3, EndScopeIs
<1> QED
  BY <1>1, <1>5, <1>6 DEF ObjectsAgree

LEMMA BlockEndStep ==
    ASSUME TraceInv, BlockEnd
    PROVE  TraceInv'
<1> DEFINE gs == ClosedFrames
           t == EndScope(st)
<1>1. frames # <<>> /\ Top.kind = "block" /\ st' = t /\ frames' = gs /\ run' = run
  BY DEF BlockEnd, Ends, Close, ClosedFrames
<1>2. st \in State /\ run \in Run_state /\ InRange(run)
  BY TypeParts DEF TraceInv
<1>3. Depth > 1 /\ Len(st.bindings) = Len(Top.snap.bindings) + 1 /\ Len(Top.snap.bindings) \in Nat
      /\ Opens(Top.kind) = 1
  <2>1. Opens(Top.kind) = 1
    BY <1>1 DEF Opens
  <2> QED
    BY <1>1, <2>1, Tops
<1>4. t \in State /\ Len(t.bindings) = Len(Top.snap.bindings)
  <2>1. st.bindings # <<>>
    BY <1>3
  <2> QED
    BY <1>2, <1>3, <2>1, EndScopeIs
<1>5. ASSUME frames[Depth - 1].on, run.exact PROVE Agree(t, gs, Depth - 1, run)
  <2>1. On
    BY <1>1, <1>3, <1>5, OnParent DEF TakenBack
  <2> QED
    BY <1>3, <1>5, <2>1, ScopeGone DEF Agree
<1>6. gs \in Seq(Block_frame) /\ Nested(gs, Len(t.bindings)) /\ Path(gs, t, run)
  <2> HIDE DEF gs, t
  <2>1. gs = ClosedFrames
    BY DEF gs
  <2> QED
    BY <1>1, <1>2, <1>3, <1>4, <1>5, <2>1, Ending
<1> QED
  BY <1>1, <1>2, <1>4, <1>6 DEF TraceInv, TypeInv

LEMMA PoolEndStep ==
    ASSUME TraceInv, PoolEnd
    PROVE  TraceInv'
<1> DEFINE gs == ClosedFrames
           s == EndScope(st)
           t == PopPool(s)
           r == RunPop
           q == IF On THEN r ELSE run
<1>1. frames # <<>> /\ Top.kind = "pool" /\ st' = t /\ frames' = gs /\ run' = q
  BY DEF PoolEnd, Ends, Close, ClosedFrames, Runs
<1>2. TypeInv /\ st \in State /\ run \in Run_state /\ InRange(run)
  BY TypeParts DEF TraceInv
<1>3. Depth > 1 /\ Len(st.bindings) = Len(Top.snap.bindings) + 1 /\ Len(Top.snap.bindings) \in Nat
      /\ Opens(Top.kind) = 1
  <2>1. Opens(Top.kind) = 1
    BY <1>1 DEF Opens
  <2> QED
    BY <1>1, <2>1, Tops
<1>4. s \in State /\ Len(s.bindings) = Len(Top.snap.bindings)
  <2>1. st.bindings # <<>>
    BY <1>3
  <2> QED
    BY <1>2, <1>3, <2>1, EndScopeIs
<1>5. t \in State /\ t.bindings = s.bindings
  <2> HIDE DEF s
  <2> QED
    BY <1>4, PopPoolIs
<1>6. r \in Run_state /\ InRange(r) /\ r.var = run.var /\ r.exact = run.exact
  BY <1>2, RunPopIs
<1>r. q \in Run_state /\ InRange(q) /\ q.var = run.var /\ q.exact = run.exact /\ (~On => q = run)
  BY <1>2, <1>6
<1>7. ASSUME frames[Depth - 1].on, run.exact PROVE Agree(t, gs, Depth - 1, q)
  <2>1. On
    BY <1>1, <1>3, <1>7, OnParent DEF TakenBack
  <2>2. ObjectsAgree(s, run) /\ NamesAgree(s, gs, Depth - 1, run.var)
    BY <1>3, <1>7, <2>1, ScopeGone
  <2>3. ObjectsAgree(t, r)
    <3> HIDE DEF s
    <3> QED
      BY <1>2, <1>4, <2>2, PopAgrees
  <2>4. NamesAgree(t, gs, Depth - 1, run.var)
    <3> HIDE DEF t, s, gs
    <3>1. \A v : resolve(t, v) = resolve(s, v)
      BY <1>5, ResolveSame
    <3> QED
      BY <1>5, <2>2, <3>1 DEF NamesAgree, BoundAt
  <2>5. q = r
    BY <2>1
  <2> HIDE DEF q, r, t, gs
  <2> QED
    BY <1>6, <2>3, <2>4, <2>5 DEF Agree
<1>8. gs \in Seq(Block_frame) /\ Nested(gs, Len(t.bindings)) /\ Path(gs, t, q)
  <2>1. gs = ClosedFrames
    OBVIOUS
  <2> HIDE DEF gs, t, s, q, r
  <2> QED
    BY <1>1, <1>3, <1>4, <1>5, <1>r, <1>7, <2>1, Ending
<1> HIDE DEF t, gs, q
<1> QED
  BY <1>1, <1>r, <1>5, <1>8 DEF TraceInv, TypeInv

LEMMA BranchEndStep ==
    ASSUME TraceInv, BranchEnd
    PROVE  TraceInv'
<1> DEFINE gs == ClosedFrames
<1>1. /\ frames # <<>> /\ ((Top.kind = "then" /\ ~Top.has_else) \/ Top.kind = "else")
      /\ st' = st /\ frames' = gs /\ run' = run
  BY DEF BranchEnd, Ends, Close, ClosedFrames
<1>2. st \in State /\ run \in Run_state /\ InRange(run)
  BY TypeParts DEF TraceInv
<1>3. Depth > 1 /\ Len(st.bindings) = Len(Top.snap.bindings)
  <2>1. Opens(Top.kind) = 0
    BY <1>1 DEF Opens
  <2> QED
    BY <1>1, <2>1, Tops
<1>4. ASSUME frames[Depth - 1].on, run.exact PROVE Agree(st, gs, Depth - 1, run)
  <2>1. On
    BY <1>1, <1>3, <1>4, OnParent DEF TakenBack
  <2> QED
    BY <1>3, <1>4, <2>1, OnPath, NamesGone DEF Agree
<1>5. gs \in Seq(Block_frame) /\ Nested(gs, Len(st.bindings)) /\ Path(gs, st, run)
  <2>1. gs = ClosedFrames
    OBVIOUS
  <2> HIDE DEF gs
  <2> QED
    BY <1>1, <1>2, <1>3, <1>4, <2>1, Ending
<1> QED
  BY <1>1, <1>2, <1>5 DEF TraceInv, TypeInv

LEMMA ElseStep ==
    ASSUME TraceInv, Else
    PROVE  TraceInv'
<1> DEFINE on == frames[Depth - 1].on
           g == Frame("else", on)
           f == [g EXCEPT !.gone = Top.names \cup Top.gone]
           gs == WithTop(f)
           t == Top.snap
<1>1. frames # <<>> /\ Top.kind = "then" /\ Top.has_else /\ st' = t /\ frames' = gs /\ run' = run
  BY DEF Else, Ends, SetTop, WithTop
<1>2. /\ st \in State /\ run \in Run_state /\ InRange(run) /\ TypeInv
      /\ frames \in Seq(Block_frame) /\ Depth = Len(frames)
      /\ Nested(frames, Len(st.bindings)) /\ Path(frames, st, run)
  BY TypeParts DEF TraceInv
<1>3. /\ Depth \in Nat /\ Depth > 1 /\ Top = frames[Depth] /\ Top.snap \in State /\ Top \in Block_frame
      /\ Len(st.bindings) = Len(Top.snap.bindings) /\ Len(st.bindings) \in Nat /\ ~Top.on
      /\ Level(Top) = Len(st.bindings)
  <2>1. Opens(Top.kind) = 0 /\ TakenBack(Top)
    BY <1>1 DEF Opens, TakenBack
  <2> QED
    BY <1>1, <2>1, Tops
<1>4. on \in BOOLEAN
  <2>1. Depth - 1 \in 1 .. Len(frames)
    BY <1>2, <1>3
  <2> QED
    BY <1>2, <2>1, Frames
<1> HIDE DEF on
<1>g. g \in Block_frame /\ g.kind = "else" /\ g.on = on /\ g.names = {} /\ g.snap = st
  <2>1. "else" \in Kind /\ g = Frame("else", on)
    BY DEF Kind
  <2> HIDE DEF g
  <2> QED
    BY ONLY <1>2, <1>4, <2>1, NewFrame
<1> HIDE DEF g
<1>5. /\ f \in Block_frame /\ f.kind = "else" /\ f.names = {} /\ f.snap = st /\ f.on = on
  BY <1>3, <1>g DEF Block_frame
<1> HIDE DEF f
<1>6. gs \in Seq(Block_frame) /\ Len(gs) = Depth /\ gs[Depth] = f
      /\ \A i \in 1 .. Depth - 1 : gs[i] = frames[i]
  BY <1>1, <1>2, <1>5, SetTopIs DEF WithTop
<1> HIDE DEF gs
<1>7. Level(f) = Len(st.bindings) /\ Branch(f) /\ Branch(Top) /\ ~TakenBack(f)
  BY <1>1, <1>3, <1>5 DEF Level, Opens, Branch, TakenBack
<1>8. Nested(gs, Level(gs[Depth]))
  <2>1. /\ gs[Depth].kind = "function" <=> frames[Depth].kind = "function"
        /\ Branch(gs[Depth]) <=> Branch(frames[Depth])
        /\ TakenBack(gs[Depth]) => ~gs[Depth].on
        /\ Level(gs[Depth]) = Level(frames[Depth])
        /\ Len(gs[Depth].snap.bindings) = Len(frames[Depth].snap.bindings)
        /\ Depth > 0
        /\ \A i \in 1 .. Depth - 1 : gs[Depth].names \cap frames[i].names = {}
    BY <1>1, <1>3, <1>5, <1>6, <1>7
  <2> HIDE DEF Nested
  <2> QED
    BY <1>2, <1>6, <2>1, NestedTop
<1>9. Path(gs, t, run)
  <2>1. (gs[Depth].on <=> frames[Depth - 1].on) /\ ~frames[Depth].on /\ gs[Depth].names = {}
        /\ t = frames[Depth].snap
    BY <1>3, <1>5, <1>6 DEF on
  <2> HIDE DEF Path, t
  <2> QED
    BY ONLY <1>2, <1>3, <1>6, <2>1, PathElse
<1> QED
  BY <1>1, <1>2, <1>3, <1>6, <1>7, <1>8, <1>9 DEF TraceInv, TypeInv

LEMMA LoopEndStep ==
    ASSUME TraceInv, LoopEnd
    PROVE  TraceInv'
<1>1. frames # <<>> /\ Top.kind = "loop" /\ run' = run
  BY DEF LoopEnd, Ends
<1>2. /\ st \in State /\ run \in Run_state /\ InRange(run) /\ TypeInv
      /\ frames \in Seq(Block_frame) /\ Depth = Len(frames)
      /\ Nested(frames, Len(st.bindings)) /\ Path(frames, st, run)
  BY TypeParts DEF TraceInv
<1>3. /\ Depth \in Nat /\ Depth > 1 /\ Top = frames[Depth] /\ Top.snap \in State /\ Top \in Block_frame
      /\ Len(Top.snap.bindings) \in Nat /\ ~Top.on /\ ~On
      /\ Level(Top) = Len(Top.snap.bindings) + 1 /\ TakenBack(Top)
  <2>1. Opens(Top.kind) = 1 /\ TakenBack(Top)
    BY <1>1 DEF Opens, TakenBack
  <2> QED
    BY <1>1, <2>1, Tops
<1>4. CASE Top.iters > 1
  <2> DEFINE g == Frame("loop", FALSE)
             f == [g EXCEPT !.iters = Top.iters - 1, !.snap = Top.snap]
             gs == WithTop(f)
             t == Scope(Top.snap)
  <2>1. st' = t /\ frames' = gs
    BY <1>4 DEF LoopEnd, SetTop, WithTop
  <2>2. t \in State /\ Len(t.bindings) = Len(Top.snap.bindings) + 1
    BY <1>3, ScopeIs
  <2>3. g \in Block_frame /\ g.kind = "loop" /\ g.on = FALSE /\ g.names = {}
    BY <1>2 DEF Frame, Block_frame, Kind
  <2>4. Top.iters - 1 \in Int
    BY <1>3 DEF Block_frame
  <2> HIDE DEF g, t
  <2>5. /\ f \in Block_frame /\ f.kind = "loop" /\ f.names = {} /\ f.snap = Top.snap /\ ~f.on
    BY <1>3, <2>3, <2>4 DEF Block_frame
  <2> HIDE DEF f
  <2>6. gs \in Seq(Block_frame) /\ Len(gs) = Depth /\ gs[Depth] = f
        /\ \A i \in 1 .. Depth - 1 : gs[i] = frames[i]
    BY <1>1, <1>2, <2>5, SetTopIs DEF WithTop
  <2> HIDE DEF gs
  <2>7. Level(f) = Len(t.bindings) /\ ~Branch(f) /\ ~Branch(Top) /\ TakenBack(f)
    BY <1>1, <2>2, <2>5 DEF Level, Opens, Branch, TakenBack
  <2>8. Nested(gs, Level(gs[Depth]))
    <3>1. /\ gs[Depth].kind = "function" <=> frames[Depth].kind = "function"
          /\ Branch(gs[Depth]) <=> Branch(frames[Depth])
          /\ TakenBack(gs[Depth]) => ~gs[Depth].on
          /\ Level(gs[Depth]) = Level(frames[Depth])
          /\ Len(gs[Depth].snap.bindings) = Len(frames[Depth].snap.bindings)
          /\ Depth > 0
          /\ \A i \in 1 .. Depth - 1 : gs[Depth].names \cap frames[i].names = {}
      BY <1>1, <1>3, <2>2, <2>5, <2>6, <2>7
    <3> HIDE DEF Nested
    <3> QED
      BY <1>2, <2>6, <3>1, NestedTop
  <2>9. Path(gs, t, run)
    <3>1. /\ ~frames[Depth].on /\ ~gs[Depth].on /\ gs[Depth].snap = frames[Depth].snap
          /\ (TakenBack(gs[Depth]) <=> TakenBack(frames[Depth]))
          /\ \A i \in 1 .. Depth - 1 : AsBefore(frames[i], gs[i])
      BY <1>3, <2>5, <2>6, <2>7 DEF AsBefore
    <3> HIDE DEF Path
    <3> QED
      BY <1>2, <1>3, <2>6, <3>1, PathOff
  <2> QED
    BY <1>1, <1>2, <2>1, <2>2, <2>6, <2>7, <2>8, <2>9 DEF TraceInv, TypeInv
<1>5. CASE ~(Top.iters > 1)
  <2> DEFINE gs == ClosedFrames
  <2>1. frames' = gs /\ st' = Top.snap
    BY <1>5 DEF LoopEnd, Close, ClosedFrames
  <2>2. gs = ClosedFrames
    OBVIOUS
  <2> HIDE DEF gs
  <2>3. ASSUME frames[Depth - 1].on, run.exact PROVE Agree(Top.snap, gs, Depth - 1, run)
    <3>1. Agree(Top.snap, frames, Depth - 1, run)
      BY <1>1, <1>3, <2>3, OnParent
    <3>2. \A i \in 1 .. Depth - 1 :
             /\ gs[i].names = frames[i].names /\ frames[i].gone \subseteq gs[i].gone
             /\ Level(gs[i]) = Level(frames[i])
      BY <1>1, <1>3, <2>2, Closing
    <3>3. Depth - 1 \in Nat
      BY <1>3
    <3> QED
      BY <3>1, <3>2, <3>3, AgreeKept
  <2>4. gs \in Seq(Block_frame) /\ Nested(gs, Len(Top.snap.bindings)) /\ Path(gs, Top.snap, run)
    BY <1>1, <1>2, <1>3, <2>2, <2>3, Ending
  <2> QED
    BY <1>1, <1>2, <1>3, <2>1, <2>4 DEF TraceInv, TypeInv
<1> QED
  BY <1>4, <1>5

LEMMA FunctionEndStep ==
    ASSUME TraceInv, FunctionEnd
    PROVE  TraceInv'
<1> DEFINE s == EndScope(st)
           t == EndScope(s)
<1>1. frames # <<>> /\ Top.kind = "function" /\ st' = t /\ frames' = <<>> /\ run' = run
  BY DEF FunctionEnd, Ends
<1>2. /\ st \in State /\ run \in Run_state /\ InRange(run) /\ frames \in Seq(Block_frame)
      /\ Depth = Len(frames) /\ Nested(frames, Len(st.bindings)) /\ Path(frames, st, run)
  BY TypeParts DEF TraceInv
<1>3. Depth = 1 /\ Len(st.bindings) = 3
  <2>1. Depth = 1 /\ Len(st.bindings) = Level(Top) /\ Top = frames[1]
    BY <1>1, Tops
  <2>2. Len(frames[1].snap.bindings) = 1
    BY <1>2, <2>1 DEF Nested
  <2>3. Opens(Top.kind) = 2
    BY <1>1 DEF Opens
  <2>4. Level(Top) = 1 + 2
    BY <2>1, <2>2, <2>3 DEF Level
  <2> QED
    BY <2>1, <2>4
<1>4. /\ s \in State /\ s.objects = st.objects /\ s.pools = st.pools /\ Len(s.bindings) = 2
      /\ \A m \in DOMAIN s.bindings : m \in DOMAIN st.bindings /\ s.bindings[m] = st.bindings[m]
  <2>1. st.bindings # <<>> /\ s = EndScope(st)
    BY <1>3
  <2> HIDE DEF s
  <2>2. /\ s \in State /\ s.objects = st.objects /\ s.pools = st.pools
        /\ Len(s.bindings) = Len(st.bindings) - 1
        /\ \A m \in DOMAIN s.bindings : m \in DOMAIN st.bindings /\ s.bindings[m] = st.bindings[m]
    BY ONLY <1>2, <2>1, EndScopeIs
  <2> QED
    BY <1>3, <2>2
<1> HIDE DEF s
<1>5. /\ t \in State /\ t.objects = st.objects /\ t.pools = st.pools /\ Len(t.bindings) = 1
      /\ DOMAIN t.bindings = 1 .. 1
      /\ \A m \in DOMAIN t.bindings : m \in DOMAIN s.bindings /\ t.bindings[m] = s.bindings[m]
  <2>1. s.bindings # <<>> /\ t = EndScope(s)
    BY <1>4
  <2> HIDE DEF t
  <2>2. /\ t \in State /\ t.objects = s.objects /\ t.pools = s.pools
        /\ Len(t.bindings) = Len(s.bindings) - 1 /\ DOMAIN t.bindings = 1 .. Len(s.bindings) - 1
        /\ \A m \in DOMAIN t.bindings : m \in DOMAIN s.bindings /\ t.bindings[m] = s.bindings[m]
    BY ONLY <1>4, <2>1, EndScopeIs
  <2> QED
    BY <1>4, <2>2
<1> HIDE DEF t
<1>6. Nested(<<>>, 1)
  <2>1. Len(<<>>) = 0 /\ 1 .. Len(<<>>) = {} /\ 2 .. Len(<<>>) = {}
    OBVIOUS
  <2> QED
    BY <2>1 DEF Nested
<1>7. Path(<<>>, t, run)
  <2> SUFFICES ASSUME run.exact PROVE Path(<<>>, t, run)
    BY DEF Path
  <2>1. Agree(st, frames, 1, run)
    BY <1>2, <1>3 DEF Path
  <2>2. ObjectsAgree(t, run)
    BY <1>5, <2>1 DEF Agree, ObjectsAgree
  <2>3. ASSUME NEW v \in Local, NEW m \in DOMAIN t.bindings, BoundAt(t, v, m) PROVE FALSE
    <3>1. m = 1 /\ m \in DOMAIN st.bindings /\ BoundAt(st, v, m)
      BY <1>4, <1>5, <2>3 DEF BoundAt
    <3> QED
      BY <2>1, <3>1 DEF Agree, NamesAgree
  <2>4. 1 .. 0 = {}
    OBVIOUS
  <2>5. NamesAgree(t, <<>>, 0, run.var)
    BY <2>3, <2>4 DEF NamesAgree
  <2>6. Len(<<>>) = 0 /\ 1 .. Len(<<>>) = {} /\ 2 .. Len(<<>>) = {}
    OBVIOUS
  <2>7. Agree(t, <<>>, Len(<<>>), run)
    BY <2>2, <2>5, <2>6 DEF Agree
  <2> QED
    BY <2>6, <2>7 DEF Path
<1>8. <<>> \in Seq(Block_frame)
  OBVIOUS
<1> QED
  BY <1>1, <1>2, <1>5, <1>6, <1>7, <1>8 DEF TraceInv, TypeInv

-----------------------------------------------------------------------------
(* The start of a function *)

\* Between two functions no name is bound.
LEMMA Outside ==
    ASSUME TraceInv, frames = <<>>
    PROVE  /\ Len(st.bindings) = 1
           /\ run.exact => /\ ObjectsAgree(st, run)
                           /\ \A v \in Local : \A m \in DOMAIN st.bindings : ~BoundAt(st, v, m)
<1>1. Len(frames) = 0 /\ 1 .. 0 = {}
  OBVIOUS
<1>2. Len(st.bindings) = 1
  BY <1>1 DEF TraceInv, Nested
<1>3. ASSUME run.exact PROVE Agree(st, frames, 0, run)
  BY <1>1, <1>3 DEF TraceInv, Path
<1> QED
  BY <1>1, <1>2, <1>3 DEF Agree, NamesAgree

LEMMA FirstBlock ==
    ASSUME st \in State, Len(st.bindings) = 1, NEW f \in Block_frame, f.kind = "function", f.on,
           f.snap = st, NEW gs, gs = <<f>>
    PROVE  /\ gs \in Seq(Block_frame) /\ Len(gs) = 1 /\ gs[1] = f /\ Level(f) = 3
           /\ Nested(gs, 3)
           /\ \A t, q : (q.exact => Agree(t, gs, 1, q)) => Path(gs, t, q)
<1>1. gs \in Seq(Block_frame) /\ Len(gs) = 1 /\ gs[1] = f
  OBVIOUS
<1>2. Opens(f.kind) = 2
  BY DEF Opens
<1>3. Level(f) = 3
  <2>1. Len(f.snap.bindings) = 1
    OBVIOUS
  <2>2. Level(f) = 1 + 2
    BY ONLY <1>2, <2>1 DEF Level
  <2> QED
    BY ONLY <2>2
<1>4. ~TakenBack(f)
  BY DEF TakenBack
<1>5. 1 .. 1 = {1} /\ 2 .. 1 = {} /\ ~(1 < 1)
  OBVIOUS
<1>6. Nested(gs, 3)
  BY <1>1, <1>3, <1>4, <1>5 DEF Nested
<1>7. ASSUME NEW t, NEW q, q.exact => Agree(t, gs, 1, q) PROVE Path(gs, t, q)
  BY <1>1, <1>5, <1>7 DEF Path
<1> QED
  BY <1>1, <1>3, <1>6, <1>7

LEMMA FunctionStep ==
    ASSUME TraceInv, NEW params, params = {} \/ \E v \in Local : params = {v}, Function(params)
    PROVE  TraceInv'
<1> DEFINE g == Frame("function", TRUE)
           f == [g EXCEPT !.names = params]
           gs == <<f>>
<1>1. frames = <<>> /\ frames' = gs
  BY DEF Function
<1>2. /\ st \in State /\ run \in Run_state /\ InRange(run) /\ TypeInv /\ run.rc \in Seq(Int)
      /\ run.var \in [Local -> Nat] /\ Len(run.rc) \in Nat /\ params \in SUBSET Local
  BY TypeParts DEF TraceInv, Run_state
<1>g. g \in Block_frame /\ g.kind = "function" /\ g.on = TRUE /\ g.snap = st
  BY <1>2 DEF Frame, Block_frame, Kind
<1> HIDE DEF g
<1>3. f \in Block_frame /\ f.kind = "function" /\ f.on /\ f.snap = st /\ f.names = params
  BY <1>2, <1>g DEF Block_frame
<1> HIDE DEF f
<1>4. Len(st.bindings) = 1
  BY <1>1, Outside
<1>5. /\ gs \in Seq(Block_frame) /\ Len(gs) = 1 /\ gs[1] = f /\ Level(f) = 3
      /\ Nested(gs, 3)
      /\ \A t, q : (q.exact => Agree(t, gs, 1, q)) => Path(gs, t, q)
  <2>1. gs = <<f>>
    OBVIOUS
  <2> HIDE DEF gs
  <2> QED
    BY ONLY <1>2, <1>3, <1>4, <2>1, FirstBlock
<1> HIDE DEF gs
<1>6. \A j \in 1 .. 1 : gs[j].names \subseteq Local /\ j = 1
  BY <1>2, <1>3, <1>5
<1>7. run.exact => ObjectsAgree(st, run) /\ NamesAgree(st, gs, 1, Unbound)
  <2> SUFFICES ASSUME run.exact PROVE ObjectsAgree(st, run) /\ NamesAgree(st, gs, 1, Unbound)
    OBVIOUS
  <2>1. ObjectsAgree(st, run) /\ \A v \in Local : \A m \in DOMAIN st.bindings : ~BoundAt(st, v, m)
    BY <1>1, Outside
  <2>2. \A v \in Local : resolve(st, v) = None /\ Unbound[v] = None
    BY <1>2, <2>1, ResolveNone, UnboundType
  <2> QED
    BY <1>6, <2>1, <2>2 DEF NamesAgree
<1>8. CASE params = {}
  <2> DEFINE s == Scope(st)
             t == Scope(s)
             q == [run EXCEPT !.var = Unbound]
  <2>1. st' = t /\ run' = q
    BY <1>8 DEF Function
  <2>2. s \in State /\ s.objects = st.objects /\ s.pools = st.pools /\ Len(s.bindings) = 2
    <3>1. s = Scope(st)
      OBVIOUS
    <3> HIDE DEF s
    <3>2. /\ s \in State /\ s.objects = st.objects /\ s.pools = st.pools
          /\ Len(s.bindings) = Len(st.bindings) + 1
      BY ONLY <1>2, <3>1, ScopeIs
    <3> QED
      BY <1>4, <3>2
  <2>3. t \in State /\ t.objects = st.objects /\ t.pools = st.pools /\ Len(t.bindings) = 3
    <3>1. t = Scope(s)
      OBVIOUS
    <3> HIDE DEF s, t
    <3>2. /\ t \in State /\ t.objects = s.objects /\ t.pools = s.pools
          /\ Len(t.bindings) = Len(s.bindings) + 1
      BY <2>2, <3>1, ScopeIs
    <3> QED
      BY <2>2, <3>2
  <2>4. q \in Run_state /\ InRange(q) /\ q.exact = run.exact /\ q.rc = run.rc /\ q.pools = run.pools
        /\ q.given = run.given /\ q.var = Unbound
    <3>1. q \in Run_state /\ q.exact = run.exact /\ q.rc = run.rc /\ q.pools = run.pools
          /\ q.given = run.given /\ q.var = Unbound
      BY ONLY <1>2, UnboundType DEF Run_state
    <3> HIDE DEF q
    <3>2. \A v \in Local : q.var[v] \in 0 .. Len(q.rc)
      BY ONLY <1>2, <3>1, UnboundType DEF None
    <3> QED
      BY <3>1, <3>2 DEF InRange
  <2>5. q.exact => Agree(t, gs, 1, q)
    <3> SUFFICES ASSUME run.exact PROVE Agree(t, gs, 1, q)
      BY <2>4
    <3>1. NamesAgree(s, gs, 1, Unbound)
      BY <1>2, <1>6, <1>7, NamesScope
    <3>2. NamesAgree(t, gs, 1, Unbound)
      <4>1. t = Scope(s)
        OBVIOUS
      <4> HIDE DEF s, t
      <4> QED
        BY <1>6, <2>2, <3>1, <4>1, NamesScope
    <3> QED
      BY <1>7, <2>3, <2>4, <3>2 DEF Agree, ObjectsAgree
  <2> HIDE DEF t, q
  <2>6. Path(gs, t, q)
    BY <1>5, <2>5
  <2> QED
    BY <1>1, <1>5, <2>1, <2>3, <2>4, <2>6 DEF TraceInv, TypeInv
<1>9. ASSUME NEW v \in Local, params = {v} PROVE TraceInv'
  <2> DEFINE r == Len(run.rc) + 1
             id == Len(st.objects) + 1
             s1 == create(st, TRUE)
             s2 == Scope(s1)
             s3 == bind(s2, v, id)
             t == Scope(s3)
             now == [Unbound EXCEPT ![v] = r]
             rc == Append(run.rc, 1)
             given == run.given \cup {r}
             q == [run EXCEPT !.var = now, !.rc = rc, !.given = given]
  <2>1. st' = t /\ run' = q
    <3>1. (CHOOSE w \in params : TRUE) = v /\ params # {}
      BY <1>9
    <3> QED
      BY <3>1 DEF Function
  <2>2. /\ s1 \in State /\ s1.bindings = st.bindings /\ s1.pools = st.pools
        /\ Len(s1.objects) = Len(st.objects) + 1 /\ DOMAIN s1.objects = 1 .. Len(st.objects) + 1
        /\ \A i \in DOMAIN st.objects : s1.objects[i] = st.objects[i]
        /\ LET e == s1.objects[Len(st.objects) + 1]
           IN  e.count = 1 /\ e.real = r
    BY <1>2, CreateParamIs
  <2>i. id \in Nat /\ id # None /\ r \in Nat /\ DOMAIN st.objects = 1 .. Len(st.objects)
        /\ Len(st.objects) \in Nat
    BY <1>2, Objects DEF None
  <2>e. /\ s2 = Scope(s1) /\ s3 = bind(s2, v, id) /\ t = Scope(s3)
    OBVIOUS
  <2> HIDE DEF s1, s2, s3, t
  <2>3. s2 \in State /\ s2.objects = s1.objects /\ s2.pools = s1.pools /\ Len(s2.bindings) = 2
    <3>1. Len(s2.bindings) = Len(s1.bindings) + 1 /\ s2 \in State /\ s2.objects = s1.objects /\ s2.pools = s1.pools
      BY <2>2, <2>e, ScopeIs
    <3> QED
      BY <1>4, <2>2, <3>1
  <2>4. s3 \in State /\ s3.objects = s1.objects /\ s3.pools = s1.pools /\ Len(s3.bindings) = 2
    <3>0. s2.bindings # <<>>
      BY ONLY <2>3
    <3>1. s2.bindings # <<>> /\ v \in Local
      BY <3>0
    <3>2. s3 \in State /\ s3.objects = s2.objects /\ s3.pools = s2.pools /\ Len(s3.bindings) = Len(s2.bindings)
      BY ONLY <2>i, <2>e, <2>3, <3>1, BindIs
    <3> QED
      BY <2>3, <3>2
  <2>5. t \in State /\ t.objects = s1.objects /\ t.pools = s1.pools /\ Len(t.bindings) = 3
    <3>1. Len(t.bindings) = Len(s3.bindings) + 1 /\ t \in State /\ t.objects = s3.objects /\ t.pools = s3.pools
      BY <2>4, <2>e, ScopeIs
    <3> QED
      BY <2>4, <3>1
  <2>6. /\ rc \in Seq(Int) /\ Len(rc) = r /\ rc[r] = 1 /\ \A i \in 1 .. Len(run.rc) : rc[i] = run.rc[i]
    BY <1>2, AppendProperties
  <2>7. now \in [Local -> Nat] /\ now[v] = r /\ (\A w \in Local : now[w] \in 0 .. r)
        /\ \A w : w # v => now[w] = Unbound[w]
    BY <1>2, <2>i, UnboundType DEF None
  <2>8. given \in SUBSET Nat
    BY <1>2, <2>i DEF Run_state
  <2>g. given = run.given \cup {r}
    OBVIOUS
  <2> HIDE DEF rc, now, given
  <2>9. /\ q \in Run_state /\ q.exact = run.exact /\ q.rc = rc /\ q.pools = run.pools
        /\ q.given = given /\ q.var = now
    BY <1>2, <2>6, <2>7, <2>8 DEF Run_state
  <2>10. InRange(q)
    BY <2>6, <2>7, <2>9 DEF InRange
  <2> HIDE DEF q
  <2>11. q.exact => Agree(t, gs, 1, q)
    <3> SUFFICES ASSUME run.exact PROVE Agree(t, gs, 1, q)
      BY <2>9
    <3>0. ObjectsAgree(st, run) /\ NamesAgree(st, gs, 1, Unbound) /\ Len(st.objects) = Len(run.rc) /\ id = r
      BY <1>7 DEF ObjectsAgree
    <3> HIDE DEF id, r
    <3>1. NamesAgree(s1, gs, 1, Unbound)
      BY <2>2, <3>0, NamesKept
    <3>2. NamesAgree(s2, gs, 1, Unbound)
      BY <1>6, <2>2, <2>e, <3>1, NamesScope
    <3>3. NamesAgree(s3, gs, 1, now)
      <4>1. /\ 1 \in 1 .. 1 /\ v \in gs[1].names /\ Level(gs[1]) \in Nat
            /\ Level(gs[1]) >= Len(s2.bindings) /\ Len(s2.bindings) > 1 /\ v \in Local
            /\ \A j \in 1 .. 1 : gs[j].names \subseteq Local /\ (j # 1 => v \notin gs[j].names)
            /\ now[v] = id /\ Elsewhere(now, Unbound, v)
        BY <1>3, <1>5, <1>6, <1>9, <2>3, <2>7, <3>0 DEF Elsewhere
      <4> QED
        BY ONLY <2>i, <2>e, <2>3, <3>2, <4>1, NamesBind
    <3>4. NamesAgree(t, gs, 1, now)
      BY <1>6, <2>4, <2>e, <3>3, NamesScope
    <3>5. ObjectsAgree(t, q)
      <4>1. Len(t.objects) = Len(q.rc) /\ t.pools = q.pools
        BY <2>2, <2>5, <2>6, <2>9, <3>0 DEF ObjectsAgree, id
      <4>2. ASSUME NEW i \in DOMAIN t.objects
            PROVE  /\ t.objects[i].real = i /\ t.objects[i].count = q.rc[i]
                   /\ t.objects[i].escaped \/ t.objects[i].is_param => i \in q.given
        <5>1. i \in DOMAIN st.objects \/ i = id
          BY <2>2, <2>5, <2>i DEF id
        <5>2. CASE i \in DOMAIN st.objects
          <6>1. t.objects[i] = st.objects[i] /\ i \in 1 .. Len(run.rc)
            BY <2>2, <2>5, <2>i, <3>0, <5>2
          <6>2. /\ st.objects[i].real = i /\ st.objects[i].count = run.rc[i]
                /\ st.objects[i].escaped \/ st.objects[i].is_param => i \in run.given
            BY <3>0, <5>2 DEF ObjectsAgree
          <6>3. rc[i] = run.rc[i] /\ (i \in run.given => i \in given)
            BY <2>6, <2>g, <6>1
          <6> QED
            BY <2>9, <6>1, <6>2, <6>3
        <5>3. CASE i = id
          <6>1. s1.objects[id].count = 1 /\ s1.objects[id].real = r
            BY <2>2 DEF id
          <6> QED
            BY <2>5, <2>6, <2>9, <2>g, <3>0, <5>3, <6>1
        <5> QED
          BY <5>1, <5>2, <5>3
      <4> QED
        BY <4>1, <4>2 DEF ObjectsAgree
    <3> QED
      BY <2>9, <3>4, <3>5 DEF Agree
  <2>12. Path(gs, t, q)
    BY <1>5, <2>11
  <2> QED
    BY <1>1, <1>5, <2>1, <2>5, <2>9, <2>10, <2>12 DEF TraceInv, TypeInv
<1> QED
  BY <1>8, <1>9

-----------------------------------------------------------------------------
(* Every step *)

LEMMA TraceInit == Init => TraceInv
<1> SUFFICES ASSUME st = [objects |-> <<>>, bindings |-> <<Unbound>>, pools |-> <<>>], frames = <<>>,
                    run = [var |-> Unbound, rc |-> <<>>, pools |-> <<>>, given |-> {}, exact |-> TRUE]
             PROVE  TraceInv
  BY DEF Init
<1>1. Len(<<>>) = 0 /\ 1 .. 0 = {} /\ 2 .. 0 = {} /\ DOMAIN <<>> = {} /\ <<>> \in Seq(Block_frame)
  OBVIOUS
<1>2. st \in State
  <2>1. <<Unbound>> \in Seq([Local -> Nat]) /\ <<>> \in Seq(Object) /\ <<>> \in Seq(SUBSET Nat)
    BY UnboundType
  <2> QED
    BY <2>1 DEF State
<1>3. run \in Run_state /\ InRange(run)
  <2>1. <<>> \in Seq(Int) /\ <<>> \in Seq(SUBSET Nat) /\ {} \in SUBSET Nat
    OBVIOUS
  <2>2. run.var = Unbound /\ run.rc = <<>>
    OBVIOUS
  <2> QED
    BY <1>1, <2>1, <2>2, UnboundType DEF Run_state, InRange, None
<1>4. Nested(frames, Len(st.bindings))
  <2>1. Len(st.bindings) = 1
    OBVIOUS
  <2> QED
    BY <1>1, <2>1 DEF Nested
<1>5. ObjectsAgree(st, run)
  BY DEF ObjectsAgree
<1>6. NamesAgree(st, frames, 0, run.var)
  <2>1. \A m \in DOMAIN st.bindings : st.bindings[m] = Unbound
    OBVIOUS
  <2> QED
    BY <1>1, <2>1, UnboundType DEF NamesAgree, BoundAt
<1>7. Path(frames, st, run)
  BY <1>1, <1>5, <1>6 DEF Path, Agree
<1> QED
  BY <1>1, <1>2, <1>3, <1>4, <1>7 DEF TraceInv, TypeInv

LEMMA TraceStep == FreshDiffers /\ TraceInv /\ [Next]_vars => TraceInv'
<1> SUFFICES ASSUME FreshDiffers, TraceInv, [Next]_vars PROVE TraceInv'
  OBVIOUS
<1>0. Fresh \notin Local /\ MaxIters \in Int
  BY DEF FreshDiffers
<1>1. ASSUME NEW params \in {{}} \cup {{v} : v \in Local}, Function(params) PROVE TraceInv'
  BY <1>1, FunctionStep
<1>2. ASSUME NEW v \in Local, NEW op, NEW of \in Operand, NEW is_static \in BOOLEAN,
             Declare(v, op, of, is_static)
      PROVE  TraceInv'
  BY <1>0, <1>2, DeclareStep
<1>3. ASSUME NEW v \in Local, Declare(v, "value", Fresh, TRUE) PROVE TraceInv'
  BY <1>0, <1>3, DeclareStep DEF Operand
<1>4. ASSUME NEW v \in Local, DeclareBare(v) PROVE TraceInv'
  BY <1>4, DeclareBareStep
<1>5. ASSUME NEW v \in Visible, NEW of \in Operand, Assign(v, of) PROVE TraceInv'
  BY <1>0, <1>5, AssignStep
<1>6. ASSUME NEW op, NEW of \in Operand, RefOp(op, of) PROVE TraceInv'
  BY <1>0, <1>6, RefOpStep
<1>7. ASSUME NEW op, NEW of \in Operand, Escape(op, of) PROVE TraceInv'
  BY <1>0, <1>7, EscapeStep
<1>8. ASSUME NEW has_else \in BOOLEAN, If(has_else) PROVE TraceInv'
  BY <1>8, IfStep
<1>9. CASE UNCHANGED vars
  BY <1>9 DEF vars, TraceInv, TypeInv
<1>10. CASE Loop \/ Block \/ Pool
  BY <1>0, <1>10, LoopStep, BlockStep, PoolStep
<1>11. CASE FunctionEnd \/ BlockEnd \/ PoolEnd \/ Else \/ BranchEnd \/ LoopEnd
  BY <1>11, FunctionEndStep, BlockEndStep, PoolEndStep, ElseStep, BranchEndStep, LoopEndStep
<1> QED
  BY <1>1, <1>2, <1>3, <1>4, <1>5, <1>6, <1>7, <1>8, <1>9, <1>10, <1>11 DEF Next

LEMMA TraceImpliesRun == TraceInv => TraceIsRun
<1> SUFFICES ASSUME TraceInv, On, run.exact
             PROVE  /\ \A r \in DOMAIN run.rc : \E i \in DOMAIN st.objects : st.objects[i].real = r
                    /\ \A i \in DOMAIN st.objects :
                          st.objects[i].real # None => st.objects[i].count = run.rc[st.objects[i].real]
                    /\ \A v \in Visible :
                          run.var[v] # None => /\ resolve(st, v) # None
                                               /\ st.objects[resolve(st, v)].real = run.var[v]
  BY DEF TraceIsRun
<1>1. frames # <<>> /\ ObjectsAgree(st, run) /\ NamesAgree(st, frames, Depth, run.var)
  BY OnPath
<1>2. DOMAIN run.rc = DOMAIN st.objects /\ DOMAIN st.objects = 1 .. Len(run.rc)
      /\ \A i \in DOMAIN st.objects : st.objects[i].real = i /\ st.objects[i].count = run.rc[i]
  BY <1>1, TypeParts, Objects DEF ObjectsAgree, TraceInv
<1>3. ASSUME NEW v \in Visible, run.var[v] # None
      PROVE  resolve(st, v) # None /\ st.objects[resolve(st, v)].real = run.var[v]
  <2>1. PICK i \in 1 .. Depth : v \in frames[i].names
    BY TypeParts DEF Visible, TraceInv
  <2>2. v \in Local /\ resolve(st, v) = run.var[v]
    BY <1>1, <2>1, Tops DEF NamesAgree
  <2>3. run.var[v] \in 0 .. Len(run.rc) /\ Len(run.rc) \in Nat
    BY <2>2, TypeParts DEF TraceInv, InRange
  <2>4. run.var[v] \in DOMAIN st.objects
    BY <1>2, <1>3, <2>3 DEF None
  <2> QED
    BY <1>2, <1>3, <2>2, <2>4
<1> QED
  BY <1>2, <1>3

LEMMA TraceImpliesLeaks == TraceInv => LeaksReported
<1> SUFFICES ASSUME TraceInv, frames = <<>>, run.exact, NEW r \in DOMAIN run.rc, run.rc[r] > 0, r \notin run.given
             PROVE  \E i \in Reported : st.objects[i].real = r
  BY DEF LeaksReported
<1>1. ObjectsAgree(st, run)
  BY Outside
<1>2. r \in DOMAIN st.objects
  BY <1>1, TypeParts, Objects DEF ObjectsAgree, TraceInv
<1>3. st.objects[r].real = r /\ st.objects[r].count = run.rc[r]
      /\ ~st.objects[r].escaped /\ ~st.objects[r].is_param
  BY <1>1, <1>2 DEF ObjectsAgree
<1> QED
  BY <1>2, <1>3 DEF Reported
=============================================================================
