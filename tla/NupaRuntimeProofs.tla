------------------------- MODULE NupaRuntimeProofs -------------------------
(***************************************************************************)
(* Theorems about NupaRuntime, for every set of addresses and every bound, *)
(* in three parts: types and nesting, the weak table, and the counts with  *)
(* the refinement of ObjectLifetime.                                       *)
(***************************************************************************)
EXTENDS NupaRuntime, FiniteSetTheorems, FunctionTheorems, SequenceTheorems, WellFoundedInduction, TLAPS

\* A set of numbers has a least.
LEMMA LeastElement ==
    ASSUME NEW T \in SUBSET Nat, T # {}
    PROVE  \E x \in T : \A y \in T : x <= y
<1>1. PICK x \in T : \A y \in T : ~ (<<y, x>> \in OpToRel(<, Nat))
  BY NatLessThanWellFounded, WFMin
<1>2. \A y \in T : ~ (y < x)
  BY <1>1 DEF OpToRel
<1>3. \A y \in T : x \in Nat /\ y \in Nat
  OBVIOUS
<1>4. \A y \in T : x <= y
  BY <1>2, <1>3
<1> QED
  BY <1>4

-----------------------------------------------------------------------------
(* Lemmas about the weak table *)

LEMMA SwapRemoveType ==
    ASSUME NEW S, NEW q \in Seq(S), NEW j \in DOMAIN q
    PROVE  /\ SwapRemove(q, j) \in Seq(S)
           /\ Len(SwapRemove(q, j)) = Len(q) - 1
           /\ \A k \in 1 .. Len(q) - 1 :
                 SwapRemove(q, j)[k] = IF k = j THEN q[Len(q)] ELSE q[k]
<1>1. Len(q) \in Nat /\ Len(q) - 1 \in Nat
  BY SMT
<1>2. SwapRemove(q, j) \in [1 .. Len(q) - 1 -> S]
  BY <1>1 DEF SwapRemove
<1>3. SwapRemove(q, j) \in Seq(S)
  BY <1>1, <1>2
<1> QED
  BY <1>1, <1>2, <1>3 DEF SwapRemove

LEMMA SwapRemoveElements ==
    ASSUME NEW S, NEW q \in Seq(S), NEW j \in DOMAIN q
    PROVE  \A k \in DOMAIN q : k # j => q[k] \in Elements(SwapRemove(q, j))
<1> DEFINE r == SwapRemove(q, j)
<1>1. r \in Seq(S) /\ Len(r) = Len(q) - 1 /\ DOMAIN r = 1 .. Len(q) - 1
  BY SwapRemoveType
<1> SUFFICES ASSUME NEW k \in DOMAIN q, k # j
             PROVE  \E m \in DOMAIN r : r[m] = q[k]
  BY DEF Elements
<1>2. CASE k = Len(q)
  <2>1. j \in 1 .. Len(q) - 1
    BY <1>2
  <2>2. r[j] = q[k]
    BY <2>1, <1>2, SwapRemoveType
  <2> QED
    BY <1>1, <2>1, <2>2
<1>3. CASE k # Len(q)
  <2>1. k \in 1 .. Len(q) - 1
    BY <1>3
  <2>2. r[k] = q[k]
    BY <2>1, SwapRemoveType
  <2> QED
    BY <1>1, <2>1, <2>2
<1> QED
  BY <1>2, <1>3

\* The linear search finds the first entry of an object that has one.
LEMMA FindEntry ==
    ASSUME NEW t \in Seq(Entry), NEW o, HasEntry(t, o)
    PROVE  find_entry(t, o) \in DOMAIN t /\ t[find_entry(t, o)].object = o
<1> DEFINE T == {i \in DOMAIN t : t[i].object = o}
<1>1. T \in SUBSET Nat /\ T # {}
  BY DEF HasEntry
<1>2. PICK i \in T : \A y \in T : i <= y
  BY <1>1, LeastElement
<1>3. /\ i \in DOMAIN t /\ t[i].object = o
      /\ \A k \in 1 .. i - 1 : t[k].object # o
  BY <1>2
<1> QED
  BY <1>3 DEF find_entry

LEMMA AppendElements ==
    ASSUME NEW S, NEW q \in Seq(S), NEW x \in S
    PROVE  /\ Append(q, x) \in Seq(S)
           /\ DOMAIN Append(q, x) = 1 .. Len(q) + 1
           /\ Append(q, x)[Len(q) + 1] = x
           /\ \A i \in DOMAIN q : Append(q, x)[i] = q[i]
           /\ Elements(q) \subseteq Elements(Append(q, x))
           /\ x \in Elements(Append(q, x))
<1>1. /\ Append(q, x) \in Seq(S)
      /\ DOMAIN Append(q, x) = 1 .. Len(q) + 1
      /\ Append(q, x)[Len(q) + 1] = x
      /\ \A i \in DOMAIN q : Append(q, x)[i] = q[i]
  OBVIOUS
<1> QED
  BY <1>1 DEF Elements

\* Replacing the slots of one entry.
LEMMA SlotsUpdate ==
    ASSUME NEW t \in Seq(Entry), NEW n \in DOMAIN t, NEW s \in Seq(Loc)
    PROVE  LET u == [t EXCEPT ![n].slots = s]
           IN  /\ u \in Seq(Entry) /\ DOMAIN u = DOMAIN t /\ Len(u) = Len(t)
               /\ \A i \in DOMAIN t : i # n => u[i] = t[i]
               /\ \A i \in DOMAIN t : u[i].object = t[i].object
               /\ u[n].slots = s
<1> DEFINE e == [t[n] EXCEPT !.slots = s]
           u == [t EXCEPT ![n] = e]
<1>1. t[n] \in Entry
  OBVIOUS
<1>2. e \in Entry /\ e.object = t[n].object /\ e.slots = s
  BY <1>1 DEF Entry
<1> HIDE DEF e
<1>3. /\ u \in Seq(Entry) /\ DOMAIN u = DOMAIN t /\ Len(u) = Len(t)
      /\ \A i \in DOMAIN t : i # n => u[i] = t[i]
      /\ u[n] = e
  BY <1>2
<1>4. u = [t EXCEPT ![n].slots = s]
  BY DEF e
<1> HIDE DEF u
<1>5. \A i \in DOMAIN t : u[i].object = t[i].object
  BY <1>2, <1>3
<1> QED
  BY <1>2, <1>3, <1>4, <1>5

\* nupa_weakRegister keeps every entry and every registration, adds an entry
\* only for an object that had none, and registers loc unless the table is full.
LEMMA RegisterTable ==
    ASSUME NEW t \in Seq(Entry), NEW loc \in Loc, NEW o \in Id
    PROVE  LET r == weakRegister(t, loc, o)
           IN  /\ r \in Seq(Entry) /\ DOMAIN t \subseteq DOMAIN r
               /\ \A i \in DOMAIN t : /\ r[i].object = t[i].object
                                      /\ Elements(t[i].slots) \subseteq Elements(r[i].slots)
               /\ \A i \in DOMAIN r \ DOMAIN t :
                     /\ i = Len(t) + 1 /\ r[i].object = o
                     /\ o \in Obj /\ ~HasEntry(t, o)
               /\ o # Null /\ (HasEntry(t, o) \/ Len(t) < MAX_WEAK_ENTRIES) =>
                     \E i \in DOMAIN r : r[i].object = o /\ loc \in Elements(r[i].slots)
<1> DEFINE r == weakRegister(t, loc, o)
<1>1. CASE o = Null
  BY <1>1, DisjointAddresses DEF weakRegister, HasEntry
<1>2. CASE o # Null /\ HasEntry(t, o)
  <2>1. PICK n \in DOMAIN t : n = find_entry(t, o) /\ t[n].object = o
    BY <1>2, FindEntry
  <2>a. t[n] \in Entry
    OBVIOUS
  <2>2. t[n].slots \in Seq(Loc)
    BY <2>a DEF Entry
  <2>3. PICK s \in Seq(Loc) : /\ s = Append(t[n].slots, loc)
                              /\ Elements(t[n].slots) \subseteq Elements(s)
                              /\ loc \in Elements(s)
    BY <2>2, AppendElements
  <2>4. r = [t EXCEPT ![n].slots = s]
    BY <1>2, <2>1, <2>3 DEF weakRegister
  <2> HIDE DEF r
  <2>5. /\ r \in Seq(Entry) /\ DOMAIN r = DOMAIN t
        /\ \A i \in DOMAIN t : i # n => r[i] = t[i]
        /\ \A i \in DOMAIN t : r[i].object = t[i].object
        /\ r[n].slots = s
    BY <2>4, SlotsUpdate
  <2> QED
    BY <1>2, <2>1, <2>3, <2>5 DEF r
<1>3. CASE o # Null /\ ~HasEntry(t, o) /\ Len(t) >= MAX_WEAK_ENTRIES
  <2>1. r = t
    BY <1>3 DEF weakRegister
  <2>2. Len(t) \in Nat /\ MAX_WEAK_ENTRIES \in Nat
    BY BoundsAreNat
  <2> QED
    BY <1>3, <2>1, <2>2
<1>4. CASE o # Null /\ ~HasEntry(t, o) /\ Len(t) < MAX_WEAK_ENTRIES
  <2>0. Len(t) \in Nat /\ MAX_WEAK_ENTRIES \in Nat
    BY BoundsAreNat
  <2>1. PICK e : e = [object |-> o, slots |-> <<loc>>]
    OBVIOUS
  <2>2. r = Append(t, e)
    BY <1>4, <2>0, <2>1 DEF weakRegister
  <2>3. o \in Obj /\ e \in Entry /\ e.object = o /\ loc \in Elements(e.slots)
    BY <1>4, <2>1 DEF Entry, Id, Elements
  <2> HIDE DEF r
  <2>4. /\ r \in Seq(Entry) /\ DOMAIN r = 1 .. Len(t) + 1
        /\ r[Len(t) + 1] = e /\ \A i \in DOMAIN t : r[i] = t[i]
    BY <2>2, <2>3, AppendElements
  <2> QED
    BY <1>4, <2>3, <2>4 DEF r
<1>5. o = Null \/ HasEntry(t, o) \/ Len(t) >= MAX_WEAK_ENTRIES \/ Len(t) < MAX_WEAK_ENTRIES
  BY BoundsAreNat
<1> QED
  BY <1>1, <1>2, <1>3, <1>4, <1>5 DEF r

\* u is t without registration m of entry n.
Unregisters(t, u, loc, n, m) ==
    /\ m \in DOMAIN t[n].slots /\ t[n].slots[m] = loc
    /\ u = [t EXCEPT ![n].slots = SwapRemove(t[n].slots, m)]

\* nupa_weakUnregister removes one registration of a location that has one.
LEMMA UnregisterEntry ==
    ASSUME NEW t \in Seq(Entry), NEW loc, ~ \A i \in DOMAIN t : loc \notin Elements(t[i].slots)
    PROVE  \E n \in DOMAIN t : \E m : Unregisters(t, weakUnregister(t, loc), loc, n, m)
<1> DEFINE T == {i \in DOMAIN t : loc \in Elements(t[i].slots)}
<1>1. T \in SUBSET Nat /\ T # {}
  OBVIOUS
<1>2. PICK i \in T : \A y \in T : i <= y
  BY <1>1, LeastElement
<1>3. /\ i \in DOMAIN t /\ loc \in Elements(t[i].slots)
      /\ \A k \in 1 .. i - 1 : loc \notin Elements(t[k].slots)
  BY <1>2
<1>4. t[i] \in Entry
  BY <1>3
<1>5. t[i].slots \in Seq(Loc)
  BY <1>4 DEF Entry
<1> DEFINE S == {j \in DOMAIN t[i].slots : t[i].slots[j] = loc}
<1>6. S \in SUBSET Nat /\ S # {}
  BY <1>3, <1>5 DEF Elements
<1>7. PICK j \in S : \A y \in S : j <= y
  BY <1>6, LeastElement
<1>8. j \in DOMAIN t[i].slots /\ IsFirstAt(t, loc, i, j)
  BY <1>3, <1>5, <1>7 DEF IsFirstAt, RegisteredAt
<1>9. PICK n \in DOMAIN t :
         /\ \E m \in DOMAIN t[n].slots : IsFirstAt(t, loc, n, m)
         /\ n = CHOOSE i_1 \in DOMAIN t :
                   \E m \in DOMAIN t[i_1].slots : IsFirstAt(t, loc, i_1, m)
  BY <1>3, <1>8
<1>10. PICK m \in DOMAIN t[n].slots :
         /\ IsFirstAt(t, loc, n, m)
         /\ m = CHOOSE j_1 \in DOMAIN t[n].slots : IsFirstAt(t, loc, n, j_1)
  BY <1>9
<1>11. weakUnregister(t, loc) = [t EXCEPT ![n].slots = SwapRemove(t[n].slots, m)]
  BY <1>9, <1>10 DEF weakUnregister
<1> QED
  BY <1>10, <1>11 DEF IsFirstAt, RegisteredAt, Unregisters

\* nupa_weakUnregister keeps the entries and every registration of another
\* location.
LEMMA UnregisterTable ==
    ASSUME NEW t \in Seq(Entry), NEW loc \in Loc
    PROVE  LET r == weakUnregister(t, loc)
           IN  /\ r \in Seq(Entry) /\ DOMAIN r = DOMAIN t /\ Len(r) = Len(t)
               /\ \A i \in DOMAIN t : r[i].object = t[i].object
               /\ \A i \in DOMAIN t :
                     Elements(t[i].slots) \ {loc} \subseteq Elements(r[i].slots)
<1> DEFINE r == weakUnregister(t, loc)
<1>1. CASE \A i \in DOMAIN t : loc \notin Elements(t[i].slots)
  BY <1>1 DEF weakUnregister
<1>2. CASE ~ \A i \in DOMAIN t : loc \notin Elements(t[i].slots)
  <2>0. PICK n \in DOMAIN t : \E m : Unregisters(t, r, loc, n, m)
    BY <1>2, UnregisterEntry
  <2>1. PICK m : Unregisters(t, r, loc, n, m)
    BY <2>0
  <2>2. /\ m \in DOMAIN t[n].slots /\ t[n].slots[m] = loc
        /\ r = [t EXCEPT ![n].slots = SwapRemove(t[n].slots, m)]
    BY <2>1 DEF Unregisters
  <2>3. t[n] \in Entry
    OBVIOUS
  <2>4. t[n].slots \in Seq(Loc) /\ t[n].slots[m] = loc
    BY <2>2, <2>3 DEF Entry
  <2>5. PICK s : s = SwapRemove(t[n].slots, m)
    OBVIOUS
  <2>6. s \in Seq(Loc)
    BY <2>2, <2>4, <2>5, SwapRemoveType
  <2>7. \A k \in DOMAIN t[n].slots : k # m => t[n].slots[k] \in Elements(s)
    BY <2>2, <2>4, <2>5, SwapRemoveElements
  <2>8. Elements(t[n].slots) \ {loc} \subseteq Elements(s)
    BY <2>4, <2>7 DEF Elements
  <2> HIDE DEF r
  <2>9. /\ r \in Seq(Entry) /\ DOMAIN r = DOMAIN t /\ Len(r) = Len(t)
        /\ \A k \in DOMAIN t : k # n => r[k] = t[k]
        /\ \A k \in DOMAIN t : r[k].object = t[k].object
        /\ r[n].slots = s
    BY <2>2, <2>5, <2>6, SlotsUpdate
  <2> QED
    BY <2>8, <2>9 DEF r
<1> QED
  BY <1>1, <1>2

LEMMA ClearType ==
    ASSUME NEW t \in Seq(Entry), NEW o
    PROVE  weakClearAll(t, o) \in Seq(Entry)
<1>1. CASE HasEntry(t, o)
  BY <1>1, FindEntry, SwapRemoveType DEF weakClearAll
<1> QED
  BY <1>1 DEF weakClearAll

\* nupa_weakClearAll removes one entry of the object and no other entry, and
\* zeroes the registrations of that entry.
LEMMA ClearTable ==
    ASSUME NEW t \in Seq(Entry), NEW o,
           \A i, j \in DOMAIN t : t[i].object = t[j].object => i = j
    PROVE  LET r == weakClearAll(t, o)
           IN  /\ r \in Seq(Entry)
               /\ \A i, j \in DOMAIN r : r[i].object = r[j].object => i = j
               /\ \A k \in DOMAIN r : r[k].object # o
                                      /\ \E i \in DOMAIN t : r[k] = t[i]
               /\ \A i \in DOMAIN t : t[i].object # o => \E k \in DOMAIN r : r[k] = t[i]
               /\ \A i \in DOMAIN t : t[i].object = o =>
                     Elements(t[i].slots) \subseteq Cleared(t, o)
<1> DEFINE r == weakClearAll(t, o)
<1>1. CASE ~HasEntry(t, o)
  BY <1>1 DEF weakClearAll, HasEntry
<1>2. CASE HasEntry(t, o)
  <2>1. PICK n \in DOMAIN t : n = find_entry(t, o) /\ t[n].object = o
    BY <1>2, FindEntry
  <2>2. r = SwapRemove(t, n) /\ Cleared(t, o) = Elements(t[n].slots)
    BY <1>2, <2>1 DEF weakClearAll, Cleared
  <2> HIDE DEF r
  <2>3. /\ r \in Seq(Entry) /\ Len(r) = Len(t) - 1
        /\ \A k \in 1 .. Len(t) - 1 : r[k] = IF k = n THEN t[Len(t)] ELSE t[k]
    BY <2>2, SwapRemoveType
  <2>4. DOMAIN r = 1 .. Len(t) - 1 /\ Len(t) \in Nat
    BY <2>3
  <2>5. \A i \in DOMAIN t : i # n => \E k \in DOMAIN r : r[k] = t[i]
    <3> TAKE i \in DOMAIN t
    <3> HAVE i # n
    <3>1. t[i] \in Elements(r)
      BY <2>2, SwapRemoveElements
    <3> QED
      BY <3>1 DEF Elements
  <2>6. \A k \in DOMAIN r : \E i \in DOMAIN t :
           r[k] = t[i] /\ i # n /\ (k = n => i = Len(t)) /\ (k # n => i = k)
    <3> TAKE k \in DOMAIN r
    <3>1. CASE k = n
      BY <2>3, <2>4, <3>1
    <3>2. CASE k # n
      BY <2>3, <2>4, <3>2
    <3> QED
      BY <3>1, <3>2
  <2>7. \A i, j \in DOMAIN r : r[i].object = r[j].object => i = j
    <3> SUFFICES ASSUME NEW i \in DOMAIN r, NEW j \in DOMAIN r,
                        r[i].object = r[j].object
                 PROVE  i = j
      OBVIOUS
    <3>1. PICK a \in DOMAIN t :
             r[i] = t[a] /\ a # n /\ (i = n => a = Len(t)) /\ (i # n => a = i)
      BY <2>6
    <3>2. PICK b \in DOMAIN t :
             r[j] = t[b] /\ b # n /\ (j = n => b = Len(t)) /\ (j # n => b = j)
      BY <2>6
    <3>3. a = b
      BY <3>1, <3>2
    <3> QED
      BY <3>1, <3>2, <3>3, <2>4
  <2>8. \A k \in DOMAIN r : r[k].object # o /\ \E i \in DOMAIN t : r[k] = t[i]
    BY <2>1, <2>6
  <2>9. \A i \in DOMAIN t : t[i].object = o => i = n
    BY <2>1
  <2>10. \A i \in DOMAIN t : t[i].object = o =>
           Elements(t[i].slots) \subseteq Cleared(t, o)
    BY <2>2, <2>9
  <2>11. \A i \in DOMAIN t : t[i].object # o => \E k \in DOMAIN r : r[k] = t[i]
    BY <2>1, <2>5
  <2> QED
    BY <2>3, <2>7, <2>8, <2>10, <2>11 DEF r
<1> QED
  BY <1>1, <1>2

-----------------------------------------------------------------------------
(* Lemmas about the C stack and the list of pools *)

LEMMA AppendFrame ==
    ASSUME NEW stk \in Seq(Frame), NEW pls \in Seq(Pool), NEW f \in Frame,
           WellNested(stk, pls),
           f.fn # "pop" => f.obj \in Obj,
           f.fn # "dealloc" => f.i >= 1,
           f.fn = "pop" => /\ f.pool \in DOMAIN pls
                           /\ pls[f.pool].depth = Len(stk) /\ ~pls[f.pool].left
    PROVE  Append(stk, f) \in Seq(Frame) /\ WellNested(Append(stk, f), pls)
<1> DEFINE new == Append(stk, f)
<1>1. /\ new \in Seq(Frame) /\ Len(stk) \in Nat
      /\ Len(new) = Len(stk) + 1 /\ DOMAIN new = 1 .. Len(stk) + 1
      /\ new[Len(stk) + 1] = f /\ DOMAIN stk = 1 .. Len(stk)
      /\ \A p \in DOMAIN stk : new[p] = stk[p]
  BY AppendElements
<1> HIDE DEF new
<1>2. \A k \in DOMAIN pls : pls[k] \in Pool
  OBVIOUS
<1>3. \A k \in DOMAIN pls : pls[k].depth \in Nat
  BY <1>2 DEF Pool
<1>4. \A k \in DOMAIN pls : ~pls[k].left => pls[k].depth <= Len(new)
  BY <1>1, <1>3 DEF WellNested
<1>5. \A i, j \in DOMAIN pls :
         i < j /\ ~pls[i].left /\ ~pls[j].left => pls[i].depth <= pls[j].depth
  BY DEF WellNested
<1>6. \A p \in DOMAIN new : new[p].fn = "pop" =>
         /\ new[p].pool \in DOMAIN pls
         /\ pls[new[p].pool].depth = p - 1 /\ ~pls[new[p].pool].left
  BY <1>1 DEF WellNested
<1>7. \A p \in DOMAIN new : /\ new[p].fn # "pop" => new[p].obj \in Obj
                            /\ new[p].fn # "dealloc" => new[p].i >= 1
  BY <1>1 DEF WellNested
<1>8. \A p \in DOMAIN new, k \in DOMAIN pls :
         pls[k].depth = p /\ ~pls[k].left => new[p].fn = "dealloc" /\ new[p].i = 0
  BY <1>1, <1>3 DEF WellNested
<1> QED
  BY <1>1, <1>4, <1>5, <1>6, <1>7, <1>8 DEF WellNested, new

\* A loop of the innermost activation goes on to element i.
LEMMA ResumeShape ==
    ASSUME NEW stk \in Seq(Frame), NEW i \in Nat, stk # <<>>
    PROVE  LET new == [stk EXCEPT ![Len(stk)].i = i]
           IN  /\ new \in Seq(Frame) /\ Len(new) = Len(stk) /\ DOMAIN new = DOMAIN stk
               /\ \A p \in DOMAIN stk : /\ p # Len(stk) => new[p] = stk[p]
                                        /\ new[p].fn = stk[p].fn
                                        /\ new[p].obj = stk[p].obj
                                        /\ new[p].pool = stk[p].pool
               /\ new[Len(stk)].i = i
<1> DEFINE n == Len(stk)
           f == [stk[n] EXCEPT !.i = i]
           new == [stk EXCEPT ![n] = f]
<1>1. n \in Nat /\ n \in DOMAIN stk /\ DOMAIN stk = 1 .. n
  OBVIOUS
<1>2. stk[n] \in Frame
  BY <1>1
<1>3. /\ f \in Frame /\ f.fn = stk[n].fn /\ f.obj = stk[n].obj
      /\ f.pool = stk[n].pool /\ f.i = i
  BY <1>2 DEF Frame
<1> HIDE DEF f
<1>4. /\ new \in Seq(Frame) /\ Len(new) = n /\ DOMAIN new = DOMAIN stk
      /\ new[n] = f /\ \A p \in DOMAIN stk : p # n => new[p] = stk[p]
  BY <1>1, <1>3
<1>5. new = [stk EXCEPT ![Len(stk)].i = i]
  BY DEF f
<1> HIDE DEF new
<1> QED
  BY <1>3, <1>4, <1>5

LEMMA ResumeFrame ==
    ASSUME NEW stk \in Seq(Frame), NEW pls \in Seq(Pool), NEW i \in Nat,
           stk # <<>>, i >= 1, WellNested(stk, pls),
           \A k \in DOMAIN pls : pls[k].depth = Len(stk) => pls[k].left
    PROVE  LET new == [stk EXCEPT ![Len(stk)].i = i]
           IN  new \in Seq(Frame) /\ WellNested(new, pls)
<1> DEFINE new == [stk EXCEPT ![Len(stk)].i = i]
<1>1. /\ new \in Seq(Frame) /\ Len(new) = Len(stk) /\ DOMAIN new = DOMAIN stk
      /\ \A p \in DOMAIN stk : /\ p # Len(stk) => new[p] = stk[p]
                               /\ new[p].fn = stk[p].fn
                               /\ new[p].obj = stk[p].obj
                               /\ new[p].pool = stk[p].pool
      /\ new[Len(stk)].i = i
  BY ResumeShape
<1> HIDE DEF new
<1>2. \A p \in DOMAIN stk, k \in DOMAIN pls :
         pls[k].depth = p /\ ~pls[k].left => new[p].fn = "dealloc" /\ new[p].i = 0
  BY <1>1 DEF WellNested
<1>3. \A p \in DOMAIN stk : new[p].fn # "dealloc" => new[p].i >= 1
  BY <1>1 DEF WellNested
<1>4. WellNested(new, pls)
  BY <1>1, <1>2, <1>3 DEF WellNested
<1> QED
  BY <1>1, <1>4 DEF new

LEMMA Prefix ==
    ASSUME NEW S, NEW q \in Seq(S), NEW m \in 0 .. Len(q)
    PROVE  LET r == SubSeq(q, 1, m)
           IN  /\ r \in Seq(S) /\ Len(r) = m /\ DOMAIN r = 1 .. m
               /\ \A k \in 1 .. m : r[k] = q[k]
<1>1. Len(q) \in Nat /\ m \in Nat /\ 1 .. m \subseteq DOMAIN q
  OBVIOUS
<1>2. Len(SubSeq(q, 1, m)) = m /\ \A k \in 1 .. m : SubSeq(q, 1, m)[k] = q[k]
  BY <1>1
<1>3. SubSeq(q, 1, m) \in Seq(S)
  BY <1>1
<1>4. DOMAIN SubSeq(q, 1, m) = 1 .. m
  BY <1>2, <1>3
<1> QED
  BY <1>2, <1>3, <1>4

\* The innermost activation returns.
LEMMA ReturnFrame ==
    ASSUME NEW stk \in Seq(Frame), NEW pls \in Seq(Pool), stk # <<>>,
           WellNested(stk, pls),
           \A k \in DOMAIN pls : pls[k].depth = Len(stk) => pls[k].left
    PROVE  LET new == SubSeq(stk, 1, Len(stk) - 1)
           IN  /\ new \in Seq(Frame) /\ WellNested(new, pls)
               /\ DOMAIN new = 1 .. Len(stk) - 1
               /\ \A p \in DOMAIN new : new[p] = stk[p]
<1> DEFINE n == Len(stk)
           new == SubSeq(stk, 1, n - 1)
<1>0. n \in Nat /\ n \in DOMAIN stk /\ DOMAIN stk = 1 .. n /\ n - 1 \in 0 .. n
  OBVIOUS
<1>1. /\ n \in Nat /\ n \in DOMAIN stk /\ DOMAIN stk = 1 .. n
      /\ new \in Seq(Frame) /\ Len(new) = n - 1 /\ DOMAIN new = 1 .. n - 1
      /\ \A p \in DOMAIN new : new[p] = stk[p]
  BY <1>0, Prefix
<1> HIDE DEF new
<1>2. \A k \in DOMAIN pls : pls[k] \in Pool
  OBVIOUS
<1>3. \A k \in DOMAIN pls : pls[k].depth \in Nat
  BY <1>2 DEF Pool
<1>4. \A k \in DOMAIN pls : ~pls[k].left => pls[k].depth <= Len(new)
  BY <1>1, <1>3 DEF WellNested
<1>5. WellNested(new, pls)
  BY <1>1, <1>4 DEF WellNested
<1> QED
  BY <1>1, <1>5 DEF new

\* The innermost pop returns and takes its pool, and every later one, off the
\* list: pops further up the C stack work on earlier pools.
LEMMA ReturnPop ==
    ASSUME NEW stk \in Seq(Frame), NEW pls \in Seq(Pool), stk # <<>>,
           WellNested(stk, pls), stk[Len(stk)].fn = "pop"
    PROVE  LET new  == SubSeq(stk, 1, Len(stk) - 1)
               less == SubSeq(pls, 1, stk[Len(stk)].pool - 1)
           IN  /\ new \in Seq(Frame) /\ less \in Seq(Pool)
               /\ WellNested(new, less)
<1> DEFINE n == Len(stk)
           k == stk[n].pool
           new == SubSeq(stk, 1, n - 1)
           less == SubSeq(pls, 1, k - 1)
<1>0. n \in Nat /\ n \in DOMAIN stk /\ DOMAIN stk = 1 .. n /\ n - 1 \in 0 .. n
  OBVIOUS
<1>1. /\ n \in Nat /\ n \in DOMAIN stk /\ DOMAIN stk = 1 .. n
      /\ new \in Seq(Frame) /\ Len(new) = n - 1 /\ DOMAIN new = 1 .. n - 1
      /\ \A p \in DOMAIN new : new[p] = stk[p]
  BY <1>0, Prefix
<1>2. k \in DOMAIN pls /\ pls[k].depth = n - 1 /\ ~pls[k].left
  BY <1>1 DEF WellNested
<1> HIDE DEF k
<1>a. k \in Nat /\ k - 1 \in 0 .. Len(pls)
  BY <1>2
<1>3. /\ less \in Seq(Pool) /\ Len(less) = k - 1 /\ DOMAIN less = 1 .. k - 1
      /\ \A m \in DOMAIN less : less[m] = pls[m]
      /\ DOMAIN less \subseteq DOMAIN pls /\ k \in Nat
  BY <1>2, <1>a, Prefix
<1> HIDE DEF new, less
<1>4. \A m \in DOMAIN pls : pls[m] \in Pool
  OBVIOUS
<1>5. \A m \in DOMAIN pls : pls[m].depth \in Nat
  BY <1>4 DEF Pool
<1>6. \A m \in DOMAIN less : ~less[m].left => less[m].depth <= Len(new)
  <2> SUFFICES ASSUME NEW m \in DOMAIN less, ~less[m].left
               PROVE  less[m].depth <= Len(new)
    OBVIOUS
  <2>1. m \in DOMAIN pls /\ m < k /\ less[m] = pls[m]
    BY <1>3
  <2>2. pls[m].depth <= pls[k].depth
    BY <1>2, <2>1 DEF WellNested
  <2> QED
    BY <1>1, <1>2, <2>1, <2>2
<1>7. \A p \in DOMAIN new : new[p].fn = "pop" =>
         /\ new[p].pool \in DOMAIN less
         /\ less[new[p].pool].depth = p - 1 /\ ~less[new[p].pool].left
  <2> SUFFICES ASSUME NEW p \in DOMAIN new, new[p].fn = "pop"
               PROVE  /\ new[p].pool \in DOMAIN less
                      /\ less[new[p].pool].depth = p - 1
                      /\ ~less[new[p].pool].left
    OBVIOUS
  <2>1. PICK m \in DOMAIN pls :
           m = new[p].pool /\ pls[m].depth = p - 1 /\ ~pls[m].left
    BY <1>1 DEF WellNested
  <2>2. ~(k < m)
    <3>1. k < m => n - 1 <= p - 1
      BY <1>2, <2>1 DEF WellNested
    <3> QED
      BY <1>1, <3>1
  <2>3. k # m
    BY <1>1, <1>2, <2>1
  <2>4. m \in DOMAIN less
    BY <1>3, <2>1, <2>2, <2>3
  <2> QED
    BY <1>3, <2>1, <2>4
<1>8. WellNested(new, less)
  BY <1>1, <1>3, <1>6, <1>7 DEF WellNested
<1> QED
  BY <1>1, <1>3, <1>8 DEF new, less, k

\* A pool is pushed by the code that runs.
LEMMA PushPool ==
    ASSUME NEW stk \in Seq(Frame), NEW pls \in Seq(Pool), WellNested(stk, pls),
           stk # <<>> => stk[Len(stk)].fn = "dealloc" /\ stk[Len(stk)].i = 0
    PROVE  LET more == Append(pls, [objs |-> <<>>, depth |-> Len(stk), left |-> FALSE])
           IN  more \in Seq(Pool) /\ WellNested(stk, more)
<1>1. PICK e : e = [objs |-> <<>>, depth |-> Len(stk), left |-> FALSE]
  OBVIOUS
<1>2. e \in Pool /\ e.depth = Len(stk) /\ ~e.left /\ Len(stk) \in Nat
  BY <1>1 DEF Pool
<1> DEFINE more == Append(pls, e)
<1>3. /\ more \in Seq(Pool) /\ DOMAIN more = 1 .. Len(pls) + 1
      /\ more[Len(pls) + 1] = e /\ DOMAIN pls = 1 .. Len(pls) /\ Len(pls) \in Nat
      /\ \A k \in DOMAIN pls : more[k] = pls[k]
  BY <1>2, AppendElements
<1> HIDE DEF more
<1>4. \A k \in DOMAIN pls : pls[k] \in Pool
  OBVIOUS
<1>5. \A k \in DOMAIN pls : pls[k].depth \in Nat
  BY <1>4 DEF Pool
<1>6. \A k \in DOMAIN more : ~more[k].left => more[k].depth <= Len(stk)
  BY <1>2, <1>3 DEF WellNested
<1>7. \A i, j \in DOMAIN more :
         i < j /\ ~more[i].left /\ ~more[j].left => more[i].depth <= more[j].depth
  <2> SUFFICES ASSUME NEW i \in DOMAIN more, NEW j \in DOMAIN more,
                      i < j, ~more[i].left, ~more[j].left
               PROVE  more[i].depth <= more[j].depth
    OBVIOUS
  <2>1. i \in DOMAIN pls /\ more[i] = pls[i]
    BY <1>3
  <2>2. CASE j = Len(pls) + 1
    BY <1>2, <1>3, <1>6, <2>2
  <2>3. CASE j # Len(pls) + 1
    <3>1. j \in DOMAIN pls /\ more[j] = pls[j]
      BY <1>3, <2>3
    <3> QED
      BY <2>1, <3>1 DEF WellNested
  <2> QED
    BY <2>2, <2>3
<1>8. \A p \in DOMAIN stk : stk[p].fn = "pop" =>
         /\ stk[p].pool \in DOMAIN more
         /\ more[stk[p].pool].depth = p - 1 /\ ~more[stk[p].pool].left
  BY <1>3 DEF WellNested
<1>9. \A p \in DOMAIN stk, k \in DOMAIN more :
         more[k].depth = p /\ ~more[k].left => stk[p].fn = "dealloc" /\ stk[p].i = 0
  BY <1>2, <1>3 DEF WellNested
<1>10. WellNested(stk, more)
  BY <1>6, <1>7, <1>8, <1>9 DEF WellNested
<1> QED
  BY <1>1, <1>3, <1>10 DEF more

\* A pool of the running code is left, or changes its contents.
LEMMA UpdatePool ==
    ASSUME NEW stk \in Seq(Frame), NEW pls \in Seq(Pool), WellNested(stk, pls),
           NEW m \in DOMAIN pls, NEW e \in Pool, e.depth = pls[m].depth,
           e.left # pls[m].left => e.left /\ e.depth = Len(stk)
    PROVE  [pls EXCEPT ![m] = e] \in Seq(Pool) /\ WellNested(stk, [pls EXCEPT ![m] = e])
<1> DEFINE new == [pls EXCEPT ![m] = e]
<1>1. /\ new \in Seq(Pool) /\ DOMAIN new = DOMAIN pls /\ new[m] = e
      /\ \A k \in DOMAIN pls : k # m => new[k] = pls[k]
  OBVIOUS
<1> HIDE DEF new
<1>2. \A k \in DOMAIN pls : new[k].depth = pls[k].depth /\ (pls[k].left => new[k].left)
  BY <1>1
<1>3. \A p \in DOMAIN stk : stk[p].fn = "pop" =>
         /\ stk[p].pool \in DOMAIN new
         /\ new[stk[p].pool].depth = p - 1 /\ ~new[stk[p].pool].left
  <2> SUFFICES ASSUME NEW p \in DOMAIN stk, stk[p].fn = "pop"
               PROVE  /\ stk[p].pool \in DOMAIN new
                      /\ new[stk[p].pool].depth = p - 1 /\ ~new[stk[p].pool].left
    OBVIOUS
  <2>1. PICK k \in DOMAIN pls : k = stk[p].pool /\ pls[k].depth = p - 1 /\ ~pls[k].left
    BY DEF WellNested
  <2>2. p - 1 # Len(stk)
    OBVIOUS
  <2>3. ~new[k].left
    BY <1>1, <2>1, <2>2
  <2> QED
    BY <1>1, <1>2, <2>1, <2>3
<1>4. WellNested(stk, new)
  BY <1>1, <1>2, <1>3 DEF WellNested
<1> QED
  BY <1>1, <1>4 DEF new

-----------------------------------------------------------------------------
(* Type correctness and nesting: neither is inductive without the other, for *)
(* a loop reads the pool or the array that its activation names.             *)

TypeInv == TypeOK /\ CallsWellNested

LEMMA TopFrame ==
    ASSUME TypeInv, stack # <<>>
    PROVE  /\ Len(stack) \in DOMAIN stack /\ Top \in Frame /\ Top.i \in Nat
           /\ Top.fn # "pop" => Top.obj \in Obj
           /\ Top.fn # "dealloc" => Top.i >= 1
           /\ Top.fn = "pop" => Top.pool \in DOMAIN pools
           /\ ~(Top.fn = "dealloc" /\ Top.i = 0) =>
                 \A k \in DOMAIN pools : pools[k].depth = Len(stack) => pools[k].left
<1>1. stack \in Seq(Frame) /\ Len(stack) \in DOMAIN stack
  BY DEF TypeInv, TypeOK
<1>2. Top \in Frame
  BY <1>1 DEF Top
<1>3. Top.i \in Nat
  BY <1>2 DEF Frame
<1> QED
  BY <1>1, <1>2, <1>3 DEF Top, TypeInv, CallsWellNested, WellNested

LEMMA PoolObjs ==
    ASSUME TypeInv, NEW k \in DOMAIN pools
    PROVE  /\ pools[k].objs \in Seq(Obj) /\ pools[k].depth \in Nat
           /\ pools[k] \in Pool
<1>1. pools[k] \in Pool
  BY DEF TypeInv, TypeOK
<1> QED
  BY <1>1 DEF Pool

\* The common part of the actions that release a reference and go on with the
\* activations of rest.
LEMMA ReleaseTyped ==
    ASSUME TypeInv, NEW counts \in [Obj -> Nat], NEW o \in Obj,
           NEW rest \in Seq(Frame), WellNested(rest, pools),
           ReleaseRef(counts, o, rest)
    PROVE  /\ rc' \in [Obj -> Nat] /\ cell' \in [Loc -> Id]
           /\ weak_table' \in Seq(Entry) /\ stack' \in Seq(Frame)
           /\ WellNested(stack', pools)
<1>1. CASE counts[o] > 1 /\ rc' = [counts EXCEPT ![o] = @ - 1]
           /\ stack' = rest /\ UNCHANGED <<cell, weak_table>>
  <2>1. counts[o] \in Nat /\ counts[o] - 1 \in Nat
    BY <1>1
  <2> QED
    BY <1>1, <2>1 DEF TypeInv, TypeOK
<1>2. CASE /\ rc' = [counts EXCEPT ![o] = 0]
           /\ cell' = [x \in Loc |-> IF x \in Cleared(weak_table, o)
                                       THEN Null ELSE cell[x]]
           /\ weak_table' = weakClearAll(weak_table, o)
           /\ stack' = Append(rest, [fn |-> "dealloc", obj |-> o, pool |-> 0, i |-> 0])
  <2>1. rc' \in [Obj -> Nat]
    BY <1>2
  <2>2. cell' \in [Loc -> Id]
    BY <1>2 DEF TypeInv, TypeOK, Id
  <2>3. weak_table' \in Seq(Entry)
    BY <1>2, ClearType DEF TypeInv, TypeOK
  <2>4. PICK f \in Frame : f = [fn |-> "dealloc", obj |-> o, pool |-> 0, i |-> 0]
    BY DEF Frame, Id
  <2>5. pools \in Seq(Pool)
    BY DEF TypeInv, TypeOK
  <2>6. f.fn = "dealloc" /\ f.obj \in Obj
    BY <2>4
  <2>7. Append(rest, f) \in Seq(Frame) /\ WellNested(Append(rest, f), pools)
    BY <2>5, <2>6, AppendFrame
  <2> QED
    BY <1>2, <2>1, <2>2, <2>3, <2>4, <2>7
<1> QED
  BY <1>1, <1>2 DEF ReleaseRef

\* The loop of the innermost activation goes on to its next element.
LEMMA ResumeTyped ==
    ASSUME TypeInv, stack # <<>>, NEW i \in Nat, i >= 1,
           \A k \in DOMAIN pools : pools[k].depth = Len(stack) => pools[k].left
    PROVE  Resume(i) \in Seq(Frame) /\ WellNested(Resume(i), pools)
BY ResumeFrame DEF Resume, TypeInv, TypeOK, CallsWellNested

\* References that a pop drops with the pools above its own are counted.
LEMMA DroppedNat ==
    ASSUME NEW k \in Nat, NEW o, pools \in Seq(Pool)
    PROVE  DroppedWith(k, o) \in Nat
<1> DEFINE A == k + 1 .. Len(pools)
           B == 1 .. MaxPoolLen
           S == {e \in A \X B : e[2] \in DOMAIN pools[e[1]].objs
                                /\ pools[e[1]].objs[e[2]] = o}
<1>1. MaxPoolLen \in Nat /\ k + 1 \in Int /\ Len(pools) \in Int
  BY BoundsAreNat
<1>2. IsFiniteSet(A) /\ IsFiniteSet(B)
  BY <1>1, FS_Interval
<1>3. IsFiniteSet(A \X B)
  BY <1>2, FS_Product
<1>4. IsFiniteSet(S)
  <2> HIDE DEF A, B
  <2>1. S \subseteq A \X B
    OBVIOUS
  <2> QED
    BY <1>3, <2>1, FS_Subset
<1>5. Cardinality(S) \in Nat
  BY <1>4, FS_CardinalityType
<1> QED
  BY <1>5 DEF DroppedWith

LEMMA InsertDeleteType ==
    ASSUME NEW q \in Seq(Obj), NEW o \in Obj, NEW j \in Nat, j >= 1, j <= Len(q) + 1
    PROVE  /\ InsertAt(q, j, o) \in Seq(Obj)
           /\ j \in DOMAIN q => DeleteAt(q, j) \in Seq(Obj)
<1>1. Len(q) \in Nat
  OBVIOUS
<1>2. SubSeq(q, 1, j - 1) \in Seq(Obj)
  BY <1>1
<1>3. SubSeq(q, j, Len(q)) \in Seq(Obj)
  BY <1>1
<1>4. SubSeq(q, j + 1, Len(q)) \in Seq(Obj)
  BY <1>1
<1>5. <<o>> \in Seq(Obj)
  OBVIOUS
<1>6. SubSeq(q, 1, j - 1) \o <<o>> \in Seq(Obj)
  BY <1>2, <1>5
<1> QED
  BY <1>3, <1>4, <1>6, <1>2 DEF InsertAt, DeleteAt

LEMMA TypeInit == Init => TypeInv
<1> SUFFICES ASSUME Init PROVE TypeInv
  OBVIOUS
<1>1. TypeOK
  BY DEF Init, TypeOK, Id
<1>2. CallsWellNested
  BY DEF Init, CallsWellNested, WellNested
<1> QED
  BY <1>1, <1>2 DEF TypeInv

\* The steps that the runtime and the library take by themselves.
LEMMA TypeRuntime ==
    ASSUME TypeInv, Runtime
    PROVE  TypeInv'
<1>0. /\ heap \subseteq Obj /\ rc \in [Obj -> Nat] /\ items \in [Obj -> Seq(Obj)]
      /\ cell \in [Loc -> Id] /\ weak_table \in Seq(Entry)
      /\ scope \in [Local -> Nat \cup {Out}] /\ pools \in Seq(Pool)
      /\ stack \in Seq(Frame) /\ held \in [Obj -> Nat] /\ lost \in [Obj -> Nat]
      /\ WellNested(stack, pools)
  BY DEF TypeInv, TypeOK, CallsWellNested
<1>1. CASE PopStep
  <2>1. /\ stack # <<>> /\ Top.fn = "pop" /\ Top.i <= Len(pools[Top.pool].objs)
        /\ ReleaseRef(rc, pools[Top.pool].objs[Top.i], Resume(Top.i + 1))
        /\ UNCHANGED <<heap, items, scope, pools, held, lost>>
    BY <1>1 DEF PopStep
  <2>2. /\ Top.pool \in DOMAIN pools /\ Top.i \in Nat /\ Top.i >= 1
        /\ \A k \in DOMAIN pools : pools[k].depth = Len(stack) => pools[k].left
    BY <2>1, TopFrame
  <2>3. pools[Top.pool].objs[Top.i] \in Obj
    BY <2>1, <2>2, PoolObjs
  <2>4. Resume(Top.i + 1) \in Seq(Frame) /\ WellNested(Resume(Top.i + 1), pools)
    BY <2>1, <2>2, ResumeTyped
  <2>5. /\ rc' \in [Obj -> Nat] /\ cell' \in [Loc -> Id]
        /\ weak_table' \in Seq(Entry) /\ stack' \in Seq(Frame)
        /\ WellNested(stack', pools)
    BY <1>0, <2>1, <2>3, <2>4, ReleaseTyped
  <2> QED
    BY <1>0, <2>1, <2>5 DEF TypeInv, TypeOK, CallsWellNested
<1>2. CASE PopEnd
  <2>1. /\ stack # <<>> /\ Top.fn = "pop"
        /\ lost' = [o \in Obj |-> lost[o] + DroppedWith(Top.pool, o)]
        /\ pools' = SubSeq(pools, 1, Top.pool - 1) /\ stack' = Caller
        /\ UNCHANGED <<heap, rc, items, cell, weak_table, scope, held>>
    BY <1>2 DEF PopEnd
  <2>2. Top.pool \in Nat
    BY <1>0, <2>1, TopFrame
  <2>3. \A o \in Obj : DroppedWith(Top.pool, o) \in Nat
    BY <1>0, <2>2, DroppedNat
  <2>4. lost' \in [Obj -> Nat]
    BY <1>0, <2>1, <2>3
  <2>5. /\ stack' \in Seq(Frame) /\ pools' \in Seq(Pool)
        /\ WellNested(stack', pools')
    BY <1>0, <2>1, ReturnPop DEF Top, Caller
  <2> QED
    BY <1>0, <2>1, <2>4, <2>5 DEF TypeInv, TypeOK, CallsWellNested
<1>3. CASE SuperDealloc
  <2>1. \A k \in DOMAIN pools : pools[k].depth = Len(stack) => pools[k].left
    BY <1>3 DEF SuperDealloc
  <2>2. stack' = Resume(1) /\ stack # <<>>
        /\ UNCHANGED <<heap, rc, items, cell, weak_table, scope, pools, held, lost>>
    BY <1>3 DEF SuperDealloc
  <2>3. Resume(1) \in Seq(Frame) /\ WellNested(Resume(1), pools)
    BY <2>1, <2>2, ResumeTyped
  <2> QED
    BY <1>0, <2>2, <2>3 DEF TypeInv, TypeOK, CallsWellNested
<1>4. CASE DeallocStep \/ RemoveAllStep
  <2>1. /\ stack # <<>> /\ Top.fn # "pop" /\ ~(Top.fn = "dealloc" /\ Top.i = 0)
        /\ Top.i <= Len(items[Top.obj])
        /\ ReleaseRef(rc, items[Top.obj][Top.i], Resume(Top.i + 1))
        /\ UNCHANGED <<heap, items, scope, pools, held, lost>>
    BY <1>4 DEF DeallocStep, RemoveAllStep
  <2>2. /\ Top.obj \in Obj /\ Top.i \in Nat
        /\ \A k \in DOMAIN pools : pools[k].depth = Len(stack) => pools[k].left
    BY <2>1, TopFrame
  <2>3. Top.i >= 1
    BY <1>4, <2>1, <2>2, TopFrame DEF DeallocStep, RemoveAllStep
  <2>4. items[Top.obj][Top.i] \in Obj
    BY <1>0, <2>1, <2>2, <2>3
  <2>5. Resume(Top.i + 1) \in Seq(Frame) /\ WellNested(Resume(Top.i + 1), pools)
    BY <2>1, <2>2, ResumeTyped
  <2>6. /\ rc' \in [Obj -> Nat] /\ cell' \in [Loc -> Id]
        /\ weak_table' \in Seq(Entry) /\ stack' \in Seq(Frame)
        /\ WellNested(stack', pools)
    BY <1>0, <2>1, <2>4, <2>5, ReleaseTyped
  <2> QED
    BY <1>0, <2>1, <2>6 DEF TypeInv, TypeOK, CallsWellNested
<1>5. CASE DeallocEnd \/ RemoveAllEnd
  <2>1. /\ stack # <<>> /\ Top.fn # "pop" /\ ~(Top.fn = "dealloc" /\ Top.i = 0)
        /\ items' = [items EXCEPT ![Top.obj] = <<>>] /\ stack' = Caller
        /\ UNCHANGED <<rc, cell, weak_table, scope, pools, lost>>
    BY <1>5 DEF DeallocEnd, RemoveAllEnd
  <2>2. /\ Top.obj \in Obj
        /\ \A k \in DOMAIN pools : pools[k].depth = Len(stack) => pools[k].left
    BY <2>1, TopFrame
  <2>3. heap' \subseteq Obj /\ held' \in [Obj -> Nat]
    <3>1. CASE DeallocEnd
      BY <1>0, <3>1 DEF DeallocEnd
    <3>2. CASE RemoveAllEnd
      <4>1. PICK n \in Nat : held' = [held EXCEPT ![Top.obj] = n]
        <5>1. held[Top.obj] \in Nat /\ held[Top.obj] + 1 \in Nat
          BY <1>0, <2>2
        <5> QED
          BY <3>2, <5>1 DEF RemoveAllEnd
      <4> QED
        BY <1>0, <3>2, <4>1 DEF RemoveAllEnd
    <3> QED
      BY <1>5, <3>1, <3>2
  <2>4. items' \in [Obj -> Seq(Obj)]
    <3>1. <<>> \in Seq(Obj)
      OBVIOUS
    <3> QED
      BY <1>0, <2>1, <3>1
  <2>5. stack' \in Seq(Frame) /\ WellNested(stack', pools)
    BY <1>0, <2>1, <2>2, ReturnFrame DEF Caller
  <2> QED
    BY <1>0, <2>1, <2>3, <2>4, <2>5 DEF TypeInv, TypeOK, CallsWellNested
<1> QED
  BY <1>1, <1>2, <1>3, <1>4, <1>5 DEF Runtime

LEMMA UpdateType ==
    ASSUME NEW S, NEW q \in Seq(S), NEW j \in DOMAIN q, NEW x \in S
    PROVE  [q EXCEPT ![j] = x] \in Seq(S) /\ DOMAIN [q EXCEPT ![j] = x] = DOMAIN q
  OBVIOUS

\* The steps of user code.
LEMMA TypeUser ==
    ASSUME TypeInv, User
    PROVE  TypeInv'
<1>0. /\ heap \subseteq Obj /\ rc \in [Obj -> Nat] /\ items \in [Obj -> Seq(Obj)]
      /\ cell \in [Loc -> Id] /\ weak_table \in Seq(Entry)
      /\ scope \in [Local -> Nat \cup {Out}] /\ pools \in Seq(Pool)
      /\ stack \in Seq(Frame) /\ held \in [Obj -> Nat] /\ lost \in [Obj -> Nat]
      /\ WellNested(stack, pools) /\ Len(stack) \in Nat
  BY DEF TypeInv, TypeOK, CallsWellNested
<1>s. stack \in Seq(Frame) /\ pools \in Seq(Pool) /\ WellNested(stack, pools)
  BY <1>0
<1>i. ASSUME NEW c \in Obj PROVE items[c] \in Seq(Obj)
  BY <1>0
<1>r. ASSUME NEW f \in [Obj -> Nat], NEW o \in Obj
      PROVE  [f EXCEPT ![o] = @ + 1] \in [Obj -> Nat]
  OBVIOUS
<1>1. ASSUME NEW o \in Obj, nupa_alloc(o) PROVE TypeInv'
  <2>1. heap' \subseteq Obj /\ rc' \in [Obj -> Nat] /\ held' \in [Obj -> Nat]
    BY <1>0, <1>1 DEF nupa_alloc
  <2>2. items' \in [Obj -> Seq(Obj)]
    <3>1. <<>> \in Seq(Obj)
      OBVIOUS
    <3> QED
      BY <1>0, <1>1, <3>1 DEF nupa_alloc
  <2>3. cell' \in [Loc -> Id]
    BY <1>0, <1>1 DEF nupa_alloc, Id
  <2> QED
    BY <1>0, <1>1, <2>1, <2>2, <2>3 DEF nupa_alloc, TypeInv, TypeOK, CallsWellNested
<1>2. ASSUME NEW o \in Obj, nupa_retain(o) PROVE TypeInv'
  <2>1. rc' \in [Obj -> Nat] /\ held' \in [Obj -> Nat]
    BY <1>0, <1>2 DEF nupa_retain
  <2> QED
    BY <1>0, <1>2, <2>1 DEF nupa_retain, TypeInv, TypeOK, CallsWellNested
<1>3. ASSUME NEW o \in Obj, nupa_release(o) PROVE TypeInv'
  <2>1. held' \in [Obj -> Nat] /\ ReleaseRef(rc, o, stack)
        /\ UNCHANGED <<heap, items, scope, pools, lost>>
    BY <1>0, <1>3 DEF nupa_release
  <2>2. /\ rc' \in [Obj -> Nat] /\ cell' \in [Loc -> Id]
        /\ weak_table' \in Seq(Entry) /\ stack' \in Seq(Frame)
        /\ WellNested(stack', pools)
    BY <1>0, <2>1, ReleaseTyped
  <2> QED
    BY <1>0, <2>1, <2>2 DEF TypeInv, TypeOK, CallsWellNested
<1>4. ASSUME NEW o \in Obj, nupa_autorelease(o) PROVE TypeInv'
  <2>1. held' \in [Obj -> Nat]
    BY <1>0, <1>4 DEF nupa_autorelease
  <2>2. lost' \in [Obj -> Nat]
    <3>1. lost' = lost \/ lost' = [lost EXCEPT ![o] = @ + 1]
      BY <1>4 DEF nupa_autorelease
    <3>2. lost \in [Obj -> Nat]
      BY <1>0
    <3> QED
      BY <3>1, <3>2
  <2>3. pools' \in Seq(Pool) /\ WellNested(stack, pools')
    <3>1. CASE pools' = pools
      BY <1>0, <3>1
    <3>2. CASE pools # <<>> /\ pools' = [pools EXCEPT ![Len(pools)].objs = Append(@, o)]
      <4>1. PICK m \in DOMAIN pools : m = Len(pools)
        BY <1>s, <3>2
      <4>2. PICK e : e = [pools[m] EXCEPT !.objs = Append(@, o)]
        OBVIOUS
      <4>3. pools[m] \in Pool /\ Append(pools[m].objs, o) \in Seq(Obj)
        BY PoolObjs, AppendElements
      <4>4. e \in Pool /\ e.depth = pools[m].depth /\ e.left = pools[m].left
        BY <4>2, <4>3 DEF Pool
      <4>5. pools' = [pools EXCEPT ![m] = e]
        BY <3>2, <4>1, <4>2
      <4> QED
        BY <1>0, <4>4, <4>5, UpdatePool
    <3> QED
      BY <1>4, <3>1, <3>2 DEF nupa_autorelease
  <2> QED
    BY <1>0, <1>4, <2>1, <2>2, <2>3 DEF nupa_autorelease, TypeInv, TypeOK, CallsWellNested
<1>5. ASSUME nupa_autoreleasepoolPush PROVE TypeInv'
  <2>1. pools' \in Seq(Pool) /\ WellNested(stack, pools')
    BY <1>0, <1>5, PushPool DEF nupa_autoreleasepoolPush, UserRuns, Top
  <2> QED
    BY <1>0, <1>5, <2>1 DEF nupa_autoreleasepoolPush, TypeInv, TypeOK, CallsWellNested
<1>6. ASSUME NEW k, nupa_autoreleasepoolPop(k) PROVE TypeInv'
  <2>1. k \in DOMAIN pools /\ pools[k].depth = Len(stack) /\ ~pools[k].left
    BY <1>6 DEF nupa_autoreleasepoolPop, OpenPool
  <2>2. PICK f : f = [fn |-> "pop", obj |-> Null, pool |-> k, i |-> 1]
    OBVIOUS
  <2>3. /\ f \in Frame /\ f.fn = "pop" /\ f.pool = k /\ f.i = 1
    BY <1>0, <2>1, <2>2 DEF Frame, Id
  <2>4. stack' \in Seq(Frame) /\ WellNested(stack', pools)
    <3>1. stack' = Append(stack, f)
      BY <1>6, <2>2 DEF nupa_autoreleasepoolPop
    <3> QED
      BY <1>s, <2>1, <2>3, <3>1, AppendFrame
  <2> QED
    BY <1>0, <1>6, <2>4 DEF nupa_autoreleasepoolPop, TypeInv, TypeOK, CallsWellNested
<1>7. ASSUME NEW k, LeavePool(k) PROVE TypeInv'
  <2>1. k \in DOMAIN pools /\ pools[k].depth = Len(stack)
        /\ pools' = [pools EXCEPT ![k].left = TRUE]
    BY <1>7 DEF LeavePool, OpenPool
  <2>2. PICK e : e = [pools[k] EXCEPT !.left = TRUE]
    OBVIOUS
  <2>3. e \in Pool /\ e.depth = pools[k].depth /\ e.left
    BY <2>1, <2>2, PoolObjs DEF Pool
  <2>4. pools' = [pools EXCEPT ![k] = e]
    BY <2>1, <2>2
  <2>5. pools' \in Seq(Pool) /\ WellNested(stack, pools')
    <3>1. e.left # pools[k].left => e.left /\ e.depth = Len(stack)
      BY <2>1, <2>3
    <3>2. /\ [pools EXCEPT ![k] = e] \in Seq(Pool)
          /\ WellNested(stack, [pools EXCEPT ![k] = e])
      BY <1>s, <2>1, <2>3, <3>1, UpdatePool
    <3> QED
      BY <2>4, <3>2
  <2> QED
    BY <1>0, <1>7, <2>5 DEF LeavePool, TypeInv, TypeOK, CallsWellNested
<1>8. ASSUME NEW c \in Obj, removeAllObjects(c) PROVE TypeInv'
  <2>1. PICK f : f = [fn |-> "removeAll", obj |-> c, pool |-> 0, i |-> 1]
    OBVIOUS
  <2>2. f \in Frame /\ f.fn = "removeAll" /\ f.obj = c /\ f.i = 1
    BY <2>1 DEF Frame, Id
  <2>3. stack' \in Seq(Frame) /\ WellNested(stack', pools)
    <3>1. stack' = Append(stack, f)
      BY <1>8, <2>1 DEF removeAllObjects
    <3> QED
      BY <1>s, <2>2, <3>1, AppendFrame
  <2>4. held' \in [Obj -> Nat]
    <3>1. c # Self => held[c] \in Nat /\ held[c] > 0
      BY <1>0, <1>8 DEF removeAllObjects
    <3>2. PICK n \in Nat : held' = [held EXCEPT ![c] = n]
      <4>1. held[c] \in Nat /\ (c # Self => held[c] - 1 \in Nat)
        BY <1>0, <3>1
      <4> QED
        BY <1>8, <4>1 DEF removeAllObjects
    <3> QED
      BY <1>0, <3>2
  <2> QED
    BY <1>0, <1>8, <2>3, <2>4 DEF removeAllObjects, TypeInv, TypeOK, CallsWellNested
<1>9. ASSUME NEW c \in Obj, NEW o \in Obj, NEW j \in 1 .. MaxItems, insertObject(c, j, o)
      PROVE  TypeInv'
  <2>1. j \in Nat /\ j >= 1 /\ j <= Len(items[c]) + 1 /\ items[c] \in Seq(Obj)
    BY <1>0, <1>9 DEF insertObject
  <2>2. InsertAt(items[c], j, o) \in Seq(Obj)
    BY <2>1, InsertDeleteType
  <2>3. items' \in [Obj -> Seq(Obj)] /\ rc' \in [Obj -> Nat]
    BY <1>0, <1>9, <2>2 DEF insertObject
  <2> QED
    BY <1>0, <1>9, <2>3 DEF insertObject, TypeInv, TypeOK, CallsWellNested
<1>10. ASSUME NEW c \in Obj, NEW o \in Obj, NEW j \in 1 .. MaxItems,
              replaceObjectAtIndex(c, j, o)
       PROVE  TypeInv'
  <2>1. j \in DOMAIN items[c] /\ items[c][j] \in Obj
    BY <1>0, <1>10 DEF replaceObjectAtIndex
  <2>2. PICK counts \in [Obj -> Nat] : counts = [rc EXCEPT ![o] = @ + 1]
    BY <1>0, <1>r
  <2>3. /\ rc' \in [Obj -> Nat] /\ cell' \in [Loc -> Id]
        /\ weak_table' \in Seq(Entry) /\ stack' \in Seq(Frame)
        /\ WellNested(stack', pools)
    BY <1>0, <1>10, <2>1, <2>2, ReleaseTyped DEF replaceObjectAtIndex
  <2>4. items' \in [Obj -> Seq(Obj)]
    <3>1. PICK s \in Seq(Obj) : s = [items[c] EXCEPT ![j] = o]
      BY <1>i, <2>1, UpdateType
    <3>2. items' = [items EXCEPT ![c] = s]
      BY <1>10, <3>1 DEF replaceObjectAtIndex
    <3> QED
      BY <1>0, <3>2
  <2> QED
    BY <1>0, <1>10, <2>3, <2>4 DEF replaceObjectAtIndex, TypeInv, TypeOK, CallsWellNested
<1>11. ASSUME NEW c \in Obj, NEW j, removeObjectAtIndex(c, j) PROVE TypeInv'
  <2>0. j \in DOMAIN items[c] /\ items[c] \in Seq(Obj)
    BY <1>i, <1>11 DEF removeObjectAtIndex
  <2>1. j \in DOMAIN items[c] /\ items[c][j] \in Obj /\ items[c] \in Seq(Obj)
        /\ j \in Nat /\ j >= 1 /\ j <= Len(items[c]) + 1
    BY <2>0
  <2>2. /\ rc' \in [Obj -> Nat] /\ cell' \in [Loc -> Id]
        /\ weak_table' \in Seq(Entry) /\ stack' \in Seq(Frame)
        /\ WellNested(stack', pools)
    BY <1>0, <1>11, <2>1, ReleaseTyped DEF removeObjectAtIndex
  <2>3. DeleteAt(items[c], j) \in Seq(Obj)
    BY <2>1, InsertDeleteType
  <2>4. items' \in [Obj -> Seq(Obj)]
    BY <1>0, <1>11, <2>3 DEF removeObjectAtIndex
  <2> QED
    BY <1>0, <1>11, <2>2, <2>4 DEF removeObjectAtIndex, TypeInv, TypeOK, CallsWellNested
<1>12. ASSUME NEW c \in Obj, NEW a, NEW b, exchangeObjectAtIndex(c, a, b) PROVE TypeInv'
  <2>1. a \in DOMAIN items[c] /\ b \in DOMAIN items[c] /\ items[c] \in Seq(Obj)
    BY <1>i, <1>12 DEF exchangeObjectAtIndex
  <2>2. PICK s \in Seq(Obj) : s = [items[c] EXCEPT ![a] = items[c][b], ![b] = items[c][a]]
    <3>1. items[c][a] \in Obj /\ items[c][b] \in Obj
      BY <2>1
    <3>2. PICK q : q = [items[c] EXCEPT ![a] = items[c][b]]
      OBVIOUS
    <3>a. q \in Seq(Obj) /\ DOMAIN q = DOMAIN items[c]
      BY <2>1, <3>1, <3>2, UpdateType
    <3>3. [q EXCEPT ![b] = items[c][a]] \in Seq(Obj)
      BY <2>1, <3>1, <3>a, UpdateType
    <3> QED
      BY <3>2, <3>3
  <2>3. items' = [items EXCEPT ![c] = s]
    BY <1>0, <1>12, <2>2 DEF exchangeObjectAtIndex
  <2>4. items' \in [Obj -> Seq(Obj)]
    BY <1>0, <2>3
  <2> QED
    BY <1>0, <1>12, <2>4 DEF exchangeObjectAtIndex, TypeInv, TypeOK, CallsWellNested
<1>13. ASSUME NEW l \in Local, NEW o \in Id, WeakDecl(l, o) PROVE TypeInv'
  <2>1. l \in Loc
    BY DEF Loc
  <2>2. weak_table' \in Seq(Entry)
    BY <1>0, <1>13, <2>1, RegisterTable DEF WeakDecl
  <2>3. cell' \in [Loc -> Id] /\ scope' \in [Local -> Nat \cup {Out}]
    BY <1>0, <1>13, <2>1 DEF WeakDecl
  <2> QED
    BY <1>0, <1>13, <2>2, <2>3 DEF WeakDecl, TypeInv, TypeOK, CallsWellNested
<1>14. ASSUME NEW l \in Local, WeakScopeEnd(l) PROVE TypeInv'
  <2>1. l \in Loc
    BY DEF Loc
  <2>2. weak_table' \in Seq(Entry)
    BY <1>0, <1>14, <2>1, UnregisterTable DEF WeakScopeEnd
  <2>3. scope' \in [Local -> Nat \cup {Out}]
    BY <1>0, <1>14 DEF WeakScopeEnd
  <2> QED
    BY <1>0, <1>14, <2>2, <2>3 DEF WeakScopeEnd, TypeInv, TypeOK, CallsWellNested
<1>15. ASSUME NEW c \in WeakHolder, NEW o \in Id, WeakIvarStore(c, o) PROVE TypeInv'
  <2>1. c \in Loc
    BY DEF Loc
  <2>2. weak_table' \in Seq(Entry)
    BY <1>0, <1>15, <2>1, UnregisterTable, RegisterTable DEF WeakIvarStore
  <2>3. cell' \in [Loc -> Id]
    BY <1>0, <1>15, <2>1 DEF WeakIvarStore
  <2> QED
    BY <1>0, <1>15, <2>2, <2>3 DEF WeakIvarStore, TypeInv, TypeOK, CallsWellNested
<1> QED
  BY <1>1, <1>2, <1>3, <1>4, <1>5, <1>6, <1>7, <1>8, <1>9, <1>10, <1>11, <1>12, <1>13,
     <1>14, <1>15 DEF User

\* Programs that never throw out of a block are among those that may.
LEMMA SpecIsSpecThrow == Spec => SpecThrow
<1>1. Next => NextThrow
  BY DEF NextThrow
<1> QED
  BY <1>1, PTL DEF Spec, SpecThrow

LEMMA TypeStep == TypeInv /\ [NextThrow]_vars => TypeInv'
<1> SUFFICES ASSUME TypeInv, [NextThrow]_vars PROVE TypeInv'
  OBVIOUS
<1>1. CASE Next
  BY <1>1, TypeRuntime, TypeUser DEF Next
<1>2. ASSUME NEW l \in Local, WeakUnwind(l) PROVE TypeInv'
  BY <1>2 DEF WeakUnwind, TypeInv, TypeOK, CallsWellNested, Out
<1>3. CASE UNCHANGED vars
  BY <1>3 DEF vars, TypeInv, TypeOK, CallsWellNested
<1> QED
  BY <1>1, <1>2, <1>3 DEF NextThrow

\* No sequence of calls, re-entrant ones included, takes a variable of the
\* runtime, of an array or of the C stack out of its type: a loop never runs
\* over a pool that is not in the list, and no element of an array that does
\* not exist is ever released.
THEOREM TypeCorrect == SpecThrow => []TypeOK
<1>1. TypeInv => TypeOK
  BY DEF TypeInv
<1> QED
  BY TypeInit, TypeStep, <1>1, PTL DEF SpecThrow

\* Pools and activations stay well nested whatever blocks are left early and
\* whatever deallocs a pop runs: current_pool = pool->next never cuts off a
\* pool that a pop further up the C stack is working on.
THEOREM NestingCorrect == SpecThrow => []CallsWellNested
<1>1. TypeInv => CallsWellNested
  BY DEF TypeInv
<1> QED
  BY TypeInit, TypeStep, <1>1, PTL DEF SpecThrow

-----------------------------------------------------------------------------
(***************************************************************************)
(* Weak references and their registrations.                                *)
(*                                                                         *)
(* Three facts that are only inductive together, as long as the weak table *)
(* has room and every reference that a variable, a pool or an array still  *)
(* has to release is to a live object (which the third part proves, and    *)
(* with it the theorems):                                                  *)
(*   - an object is deallocated once at a time (DeallocsDistinct), so that *)
(*     the free at the end of a dealloc frees no object with an entry;     *)
(*   - entries are unique and of live objects (EntriesWellFormed);         *)
(*   - every weak location that holds an object is registered under it     *)
(*     (Registered), so that nupa_weakClearAll reaches it.                 *)
(*                                                                         *)
(* The end of this part proves that no location is registered twice, and   *)
(* that only locations in scope are, in programs without exceptions.       *)
(***************************************************************************)

WeakIndInv == DeallocsDistinct /\ EntriesWellFormed /\ Registered

\* No weak reference is taken when the table is full (runtime.c drops it).
TableHasRoom == Len(weak_table) < MAX_WEAK_ENTRIES

-----------------------------------------------------------------------------
(* What user code can refer to is alive *)

LEMMA WeakRefAlive ==
    ASSUME EntriesWellFormed, Registered, NEW o, WeakRef(o), o # Null
    PROVE  Live(o)
<1>1. PICK x \in Loc : Readable(x) /\ cell[x] = o
  BY DEF WeakRef
<1>2. PICK i \in DOMAIN weak_table : weak_table[i].object = cell[x]
  BY <1>1 DEF Registered
<1> QED
  BY <1>1, <1>2 DEF EntriesWellFormed

LEMMA ReferencedAlive ==
    ASSUME StrongRefsLive, EntriesWellFormed, Registered
    PROVE  \A o \in Referenced : o \in Obj /\ o # Self /\ Live(o)
<1> SUFFICES ASSUME NEW o \in Referenced PROVE o \in Obj /\ o # Self /\ Live(o)
  OBVIOUS
<1>1. o \in Obj /\ o # Self /\ (StrongRef(o) \/ WeakRef(o)) /\ o # Null
  BY DisjointAddresses DEF Referenced
<1>2. StrongRef(o) => Live(o)
  BY <1>1 DEF StrongRefsLive
<1> QED
  BY <1>1, <1>2, WeakRefAlive

-----------------------------------------------------------------------------
(* Activations *)

\* The object of a removeAllObjects in progress is allocated.
LEMMA RemoveAllAllocated ==
    ASSUME TypeInv, StrongRefsLive, DeallocsDistinct,
           NEW p \in DOMAIN stack, stack[p].fn = "removeAll"
    PROVE  /\ stack[p].obj \in heap
           /\ rc[stack[p].obj] = 0 =>
                 \E q \in 1 .. p - 1 : stack[q].fn = "dealloc" /\ stack[q].obj = stack[p].obj
<1> DEFINE c == stack[p].obj
<1>1. c \in Obj /\ stack \in Seq(Frame)
  BY DEF TypeInv, TypeOK, CallsWellNested, WellNested
<1>2. CASE \E q \in 1 .. p - 1 : stack[q].fn = "dealloc" /\ stack[q].obj = c
  <2>1. PICK q \in 1 .. p - 1 : stack[q].fn = "dealloc" /\ stack[q].obj = c
    BY <1>2
  <2>2. q \in DOMAIN stack
    BY <1>1
  <2> QED
    BY <1>2, <2>1, <2>2 DEF DeallocsDistinct, Distinct
<1>3. CASE ~ \E q \in 1 .. p - 1 : stack[q].fn = "dealloc" /\ stack[q].obj = c
  <2>1. Pinned(c)
    BY <1>3 DEF Pinned
  <2>2. Live(c)
    BY <1>1, <2>1 DEF StrongRefsLive, StrongRef
  <2>3. rc[c] > 0 /\ c \in heap
    BY <2>2 DEF Live
  <2>4. rc[c] # 0
    BY <2>3
  <2> QED
    BY <2>3, <2>4
<1> QED
  BY <1>2, <1>3

LEMMA ResumeDistinct ==
    ASSUME NEW stk \in Seq(Frame), NEW i \in Nat, stk # <<>>,
           NEW allocated, NEW counts, Distinct(stk, allocated, counts),
           \/ stk[Len(stk)].fn = "pop"
           \/ stk[Len(stk)].i # 0
           \/ \A p \in DOMAIN stk : p # Len(stk) /\ stk[p].fn # "pop"
                                    => stk[p].obj # stk[Len(stk)].obj
    PROVE  Distinct([stk EXCEPT ![Len(stk)].i = i], allocated, counts)
<1> DEFINE new == [stk EXCEPT ![Len(stk)].i = i]
<1>1. /\ new \in Seq(Frame) /\ Len(new) = Len(stk) /\ DOMAIN new = DOMAIN stk
      /\ \A p \in DOMAIN stk : /\ p # Len(stk) => new[p] = stk[p]
                               /\ new[p].fn = stk[p].fn
                               /\ new[p].obj = stk[p].obj
  BY ResumeShape
<1> HIDE DEF new
<1>2. \A p \in DOMAIN new : new[p].fn = "dealloc" =>
         new[p].obj \in allocated /\ counts[new[p].obj] = 0
  BY <1>1 DEF Distinct
<1>3. \A p, q \in DOMAIN new :
         p # q /\ new[p].fn # "pop" /\ new[q].fn # "pop" /\ new[p].obj = new[q].obj
            => (new[p].i = 0 \/ new[q].i = 0) /\ new[p].fn # new[q].fn
  <2> SUFFICES ASSUME NEW p \in DOMAIN stk, NEW q \in DOMAIN stk, p # q,
                      stk[p].fn # "pop", stk[q].fn # "pop", stk[p].obj = stk[q].obj
               PROVE  (new[p].i = 0 \/ new[q].i = 0) /\ stk[p].fn # stk[q].fn
    BY <1>1
  <2>1. stk[p].fn # stk[q].fn /\ (stk[p].i = 0 \/ stk[q].i = 0)
    BY DEF Distinct
  <2>2. CASE p # Len(stk) /\ q # Len(stk)
    BY <1>1, <2>1, <2>2
  <2>3. CASE p = Len(stk)
    BY <1>1, <2>1, <2>3
  <2>4. CASE q = Len(stk)
    BY <1>1, <2>1, <2>4
  <2> QED
    BY <2>2, <2>3, <2>4
<1> QED
  BY <1>2, <1>3 DEF Distinct, new

LEMMA AppendDistinct ==
    ASSUME NEW stk \in Seq(Frame), NEW f \in Frame, NEW allocated, NEW counts,
           Distinct(stk, allocated, counts),
           f.fn = "dealloc" => f.obj \in allocated /\ counts[f.obj] = 0,
           f.fn # "pop" =>
              \A p \in DOMAIN stk : stk[p].fn # "pop" /\ stk[p].obj = f.obj
                 => (stk[p].i = 0 \/ f.i = 0) /\ stk[p].fn # f.fn
    PROVE  Distinct(Append(stk, f), allocated, counts)
<1> DEFINE new == Append(stk, f)
<1>1. /\ new \in Seq(Frame) /\ DOMAIN new = 1 .. Len(stk) + 1
      /\ new[Len(stk) + 1] = f /\ DOMAIN stk = 1 .. Len(stk) /\ Len(stk) \in Nat
      /\ \A p \in DOMAIN stk : new[p] = stk[p]
  BY AppendElements
<1> HIDE DEF new
<1>2. \A p \in DOMAIN new : p \in DOMAIN stk \/ p = Len(stk) + 1
  BY <1>1
<1>3. \A p \in DOMAIN new : new[p].fn = "dealloc" =>
         new[p].obj \in allocated /\ counts[new[p].obj] = 0
  BY <1>1, <1>2 DEF Distinct
<1>4. \A p, q \in DOMAIN new :
         p # q /\ new[p].fn # "pop" /\ new[q].fn # "pop" /\ new[p].obj = new[q].obj
            => (new[p].i = 0 \/ new[q].i = 0) /\ new[p].fn # new[q].fn
  BY <1>1, <1>2 DEF Distinct
<1> QED
  BY <1>3, <1>4 DEF Distinct, new

LEMMA ReturnDistinct ==
    ASSUME NEW stk \in Seq(Frame), stk # <<>>, NEW allocated, NEW counts,
           Distinct(stk, allocated, counts)
    PROVE  Distinct(SubSeq(stk, 1, Len(stk) - 1), allocated, counts)
<1> DEFINE new == SubSeq(stk, 1, Len(stk) - 1)
<1>1. Len(stk) - 1 \in 0 .. Len(stk) /\ DOMAIN stk = 1 .. Len(stk) /\ Len(stk) \in Nat
  OBVIOUS
<1>2. DOMAIN new = 1 .. Len(stk) - 1 /\ \A p \in 1 .. Len(stk) - 1 : new[p] = stk[p]
  BY <1>1, Prefix
<1>3. \A p \in DOMAIN new : p \in DOMAIN stk /\ new[p] = stk[p]
  BY <1>1, <1>2
<1> HIDE DEF new
<1> QED
  BY <1>3 DEF Distinct, new

\* An object that is alive is in no dealloc.
LEMMA AliveNotInDealloc ==
    ASSUME NEW stk, NEW allocated, NEW counts, Distinct(stk, allocated, counts),
           NEW o, counts[o] > 0
    PROVE  \A p \in DOMAIN stk : stk[p].fn = "dealloc" => stk[p].obj # o
<1>1. counts[o] # 0
  OBVIOUS
<1> QED
  BY <1>1 DEF Distinct

-----------------------------------------------------------------------------
(* The weak table *)

\* A step that touches neither the table nor a weak location, and lets no
\* object die, keeps the invariants of the table.
LEMMA KeepTable ==
    ASSUME EntriesWellFormed, Registered, UNCHANGED <<weak_table, cell>>,
           \A o \in heap : rc[o] > 0 => o \in heap' /\ rc'[o] > 0,
           \A x \in Loc : Readable(x)' => Readable(x)
    PROVE  (EntriesWellFormed /\ Registered)'
<1>1. \A i \in DOMAIN weak_table : Live(weak_table[i].object)'
  BY DEF EntriesWellFormed, Live
<1>2. EntriesWellFormed'
  BY <1>1 DEF EntriesWellFormed
<1>3. Registered'
  BY DEF Registered
<1> QED
  BY <1>2, <1>3

\* A release, however it was called, keeps the invariants: "counts" are the
\* retain counts it finds.
LEMMA ReleaseWeak ==
    ASSUME TypeInv, WeakIndInv,
           NEW counts \in [Obj -> Nat], \A x \in Obj : counts[x] > 0 <=> rc[x] > 0,
           NEW o \in Obj, o \in heap, counts[o] > 0,
           NEW rest \in Seq(Frame), Distinct(rest, heap, rc),
           \A p \in DOMAIN rest : rest[p].fn # "pop" => rest[p].obj \in Obj,
           ReleaseRef(counts, o, rest), UNCHANGED <<heap, scope>>
    PROVE  WeakIndInv'
<1>0. /\ rc \in [Obj -> Nat] /\ heap \subseteq Obj /\ weak_table \in Seq(Entry)
      /\ EntriesWellFormed /\ Registered
  BY DEF TypeInv, TypeOK, WeakIndInv
<1>1. \A x \in Obj : counts[x] = 0 <=> rc[x] = 0
  BY <1>0
<1>2. \A p \in DOMAIN rest : rest[p].fn = "dealloc" =>
         rest[p].obj \in Obj /\ rest[p].obj \in heap /\ counts[rest[p].obj] = 0
  BY <1>0, <1>1 DEF Distinct
<1>3. CASE counts[o] > 1 /\ rc' = [counts EXCEPT ![o] = @ - 1]
           /\ stack' = rest /\ UNCHANGED <<cell, weak_table>>
  <2>1. \A x \in Obj : rc'[x] = IF x = o THEN counts[o] - 1 ELSE counts[x]
    BY <1>3
  <2>2. counts[o] \in Nat /\ counts[o] - 1 > 0
    BY <1>3
  <2>3. \A x \in heap : rc[x] > 0 => x \in heap' /\ rc'[x] > 0
    BY <1>0, <2>1, <2>2
  <2>4. (EntriesWellFormed /\ Registered)'
    <3>1. UNCHANGED <<weak_table, cell>>
      BY <1>3
    <3>2. \A x \in Loc : Readable(x)' => Readable(x)
      BY DEF Readable
    <3> QED
      BY <1>0, <2>3, <3>1, <3>2, KeepTable
  <2>5. \A p \in DOMAIN rest : rest[p].fn = "dealloc" =>
           rest[p].obj \in heap /\ rc'[rest[p].obj] = 0
    BY <1>2, <1>3, <2>1
  <2>6. DeallocsDistinct'
    BY <1>3, <2>5 DEF DeallocsDistinct, Distinct
  <2> QED
    BY <2>4, <2>6 DEF WeakIndInv
<1>4. CASE /\ rc' = [counts EXCEPT ![o] = 0]
           /\ cell' = [x \in Loc |-> IF x \in Cleared(weak_table, o)
                                       THEN Null ELSE cell[x]]
           /\ weak_table' = weakClearAll(weak_table, o)
           /\ stack' = Append(rest, [fn |-> "dealloc", obj |-> o, pool |-> 0, i |-> 0])
  <2>1. \A x \in Obj : rc'[x] = IF x = o THEN 0 ELSE counts[x]
    BY <1>4
  <2>2. /\ \A i, j \in DOMAIN weak_table' :
              weak_table'[i].object = weak_table'[j].object => i = j
        /\ \A k \in DOMAIN weak_table' : weak_table'[k].object # o
              /\ \E i \in DOMAIN weak_table : weak_table'[k] = weak_table[i]
        /\ \A i \in DOMAIN weak_table : weak_table[i].object # o =>
              \E k \in DOMAIN weak_table' : weak_table'[k] = weak_table[i]
        /\ \A i \in DOMAIN weak_table : weak_table[i].object = o =>
              Elements(weak_table[i].slots) \subseteq Cleared(weak_table, o)
    <3>1. PICK t \in Seq(Entry) : t = weak_table
      BY <1>0
    <3>2. \A i, j \in DOMAIN t : t[i].object = t[j].object => i = j
      BY <1>0, <3>1 DEF EntriesWellFormed
    <3>3. LET r == weakClearAll(t, o)
          IN  /\ r \in Seq(Entry)
              /\ \A i, j \in DOMAIN r : r[i].object = r[j].object => i = j
              /\ \A k \in DOMAIN r : r[k].object # o
                                     /\ \E i \in DOMAIN t : r[k] = t[i]
              /\ \A i \in DOMAIN t : t[i].object # o => \E k \in DOMAIN r : r[k] = t[i]
              /\ \A i \in DOMAIN t : t[i].object = o =>
                    Elements(t[i].slots) \subseteq Cleared(t, o)
      BY ONLY <3>2, ClearTable, t \in Seq(Entry)
    <3>4. weak_table' = weakClearAll(t, o) /\ Cleared(t, o) = Cleared(weak_table, o)
      BY <1>4, <3>1
    <3> QED
      BY <3>1, <3>3, <3>4
  <2>3. \A k \in DOMAIN weak_table' :
           weak_table'[k].object \in heap' /\ rc'[weak_table'[k].object] > 0
    <3> SUFFICES ASSUME NEW k \in DOMAIN weak_table'
                 PROVE  /\ weak_table'[k].object \in heap'
                        /\ rc'[weak_table'[k].object] > 0
      OBVIOUS
    <3>1. PICK x : x = weak_table'[k].object
      OBVIOUS
    <3>2. x # o /\ Live(x)
      BY <1>0, <2>2, <3>1 DEF EntriesWellFormed
    <3>3. x \in heap /\ x \in Obj /\ rc[x] > 0
      BY <1>0, <3>2 DEF Live
    <3>4. rc'[x] > 0
      BY <2>1, <3>2, <3>3
    <3>5. x \in heap' /\ rc'[x] > 0
      BY <3>3, <3>4
    <3> QED
      BY <3>1, <3>5
  <2>4. EntriesWellFormed'
    BY <2>2, <2>3 DEF EntriesWellFormed, Live
  <2>5. Registered'
    <3> SUFFICES ASSUME NEW x \in Loc, Readable(x)', cell'[x] # Null
                 PROVE  \E i \in DOMAIN weak_table' :
                           /\ weak_table'[i].object = cell'[x]
                           /\ x \in Elements(weak_table'[i].slots)
      BY DEF Registered
    <3>1. x \notin Cleared(weak_table, o) /\ cell'[x] = cell[x] /\ Readable(x)
      BY <1>4 DEF Readable
    <3>2. PICK i \in DOMAIN weak_table :
             weak_table[i].object = cell[x] /\ x \in Elements(weak_table[i].slots)
      BY <1>0, <3>1 DEF Registered
    <3>3. weak_table[i].object # o
      BY <2>2, <3>1, <3>2
    <3> QED
      BY <2>2, <3>1, <3>2, <3>3
  <2>6. PICK f \in Frame : f = [fn |-> "dealloc", obj |-> o, pool |-> 0, i |-> 0]
    BY DEF Frame, Id
  <2>7. f.fn = "dealloc" /\ f.obj = o /\ f.i = 0
    BY <2>6
  <2>8. Distinct(rest, heap, rc')
    <3>1. \A p \in DOMAIN rest : rest[p].fn = "dealloc" =>
             rest[p].obj \in heap /\ rc'[rest[p].obj] = 0
      BY <1>2, <2>1
    <3> QED
      BY <3>1 DEF Distinct
  <2>9. \A p \in DOMAIN rest : rest[p].fn = "dealloc" => rest[p].obj # o
    BY <1>2
  <2>10. Distinct(Append(rest, f), heap, rc')
    BY <2>1, <2>7, <2>8, <2>9, AppendDistinct
  <2>11. DeallocsDistinct'
    BY <1>4, <2>6, <2>10 DEF DeallocsDistinct
  <2> QED
    BY <2>4, <2>5, <2>11 DEF WeakIndInv
<1> QED
  BY <1>3, <1>4 DEF ReleaseRef

\* nupa_weakRegister keeps the entries unique and adds one only for o.
LEMMA RegisterEntries ==
    ASSUME NEW t \in Seq(Entry), NEW loc \in Loc, NEW o \in Id,
           Len(t) < MAX_WEAK_ENTRIES,
           \A i, j \in DOMAIN t : t[i].object = t[j].object => i = j
    PROVE  LET r == weakRegister(t, loc, o)
           IN  /\ r \in Seq(Entry)
               /\ \A i, j \in DOMAIN r : r[i].object = r[j].object => i = j
               /\ \A i \in DOMAIN r : \/ \E k \in DOMAIN t : r[i].object = t[k].object
                                      \/ r[i].object = o /\ o \in Obj
               /\ \A i \in DOMAIN t : \E k \in DOMAIN r :
                     /\ r[k].object = t[i].object
                     /\ Elements(t[i].slots) \subseteq Elements(r[k].slots)
               /\ o # Null => \E i \in DOMAIN r :
                                 r[i].object = o /\ loc \in Elements(r[i].slots)
<1> DEFINE r == weakRegister(t, loc, o)
<1>1. /\ r \in Seq(Entry) /\ DOMAIN t \subseteq DOMAIN r
      /\ \A i \in DOMAIN t : /\ r[i].object = t[i].object
                             /\ Elements(t[i].slots) \subseteq Elements(r[i].slots)
      /\ \A i \in DOMAIN r \ DOMAIN t :
            /\ i = Len(t) + 1 /\ r[i].object = o
            /\ o \in Obj /\ ~HasEntry(t, o)
      /\ o # Null => \E i \in DOMAIN r : r[i].object = o /\ loc \in Elements(r[i].slots)
  BY RegisterTable
<1> HIDE DEF r
<1>2. \A i, j \in DOMAIN r : r[i].object = r[j].object => i = j
  <2> SUFFICES ASSUME NEW i \in DOMAIN r, NEW j \in DOMAIN r, r[i].object = r[j].object
               PROVE  i = j
    OBVIOUS
  <2>1. CASE i \in DOMAIN t /\ j \in DOMAIN t
    BY <1>1, <2>1
  <2>2. CASE i \notin DOMAIN t /\ j \notin DOMAIN t
    BY <1>1, <2>2
  <2>3. CASE i \in DOMAIN t /\ j \notin DOMAIN t
    BY <1>1, <2>3 DEF HasEntry
  <2>4. CASE i \notin DOMAIN t /\ j \in DOMAIN t
    BY <1>1, <2>4 DEF HasEntry
  <2> QED
    BY <2>1, <2>2, <2>3, <2>4
<1>3. \A i \in DOMAIN r : \/ \E k \in DOMAIN t : r[i].object = t[k].object
                          \/ r[i].object = o /\ o \in Obj
  BY <1>1
<1>4. \A i \in DOMAIN t : \E k \in DOMAIN r :
         /\ r[k].object = t[i].object
         /\ Elements(t[i].slots) \subseteq Elements(r[k].slots)
  BY <1>1
<1> QED
  BY <1>1, <1>2, <1>3, <1>4 DEF r

-----------------------------------------------------------------------------
(* The steps *)

\* The elements that the innermost loop over an array still has to release are
\* alive.
LEMMA LoopElementAlive ==
    ASSUME TypeInv, WeakIndInv, StrongRefsLive, stack # <<>>, Top.fn # "pop",
           Top.i > 0, Top.i <= Len(items[Top.obj])
    PROVE  /\ items[Top.obj][Top.i] \in Obj /\ Live(items[Top.obj][Top.i])
           /\ PendingItem(Top.obj, Top.i)
<1>1. /\ Len(stack) \in DOMAIN stack /\ stack \in Seq(Frame) /\ Top \in Frame
      /\ Top.obj \in Obj /\ items[Top.obj] \in Seq(Obj) /\ Top.i \in Nat
  BY TopFrame DEF TypeInv, TypeOK
<1>2. Top.i \in DOMAIN items[Top.obj] /\ items[Top.obj][Top.i] \in Obj
  BY <1>1
<1>3. Top.obj \in heap
  <2>1. Top.fn = "dealloc" \/ Top.fn = "removeAll"
    BY <1>1 DEF Frame
  <2> QED
    BY <1>1, <2>1, RemoveAllAllocated DEF WeakIndInv, DeallocsDistinct, Distinct, Top
<1>4. \A f \in Elements(stack) :
         f.fn \in {"dealloc", "removeAll"} /\ f.obj = Top.obj => Top.i >= f.i
  <2> SUFFICES ASSUME NEW p \in DOMAIN stack, stack[p].fn \in {"dealloc", "removeAll"},
                      stack[p].obj = Top.obj
               PROVE  Top.i >= stack[p].i
    BY DEF Elements
  <2>1. CASE p = Len(stack)
    BY <1>1, <2>1 DEF Top
  <2>2. CASE p # Len(stack)
    <3>1. stack[p].i = 0 \/ Top.i = 0
      BY <1>1, <2>2 DEF WeakIndInv, DeallocsDistinct, Distinct, Top
    <3> QED
      BY <1>1, <3>1
  <2> QED
    BY <2>1, <2>2
<1>5. PendingItem(Top.obj, Top.i)
  BY <1>2, <1>3, <1>4 DEF PendingItem
<1>6. StrongRef(items[Top.obj][Top.i])
  BY <1>2, <1>3, <1>5 DEF StrongRef
<1> QED
  BY <1>2, <1>5, <1>6 DEF StrongRefsLive

\* So are the entries of the pool that the innermost pop has not passed: no
\* other pop works on that pool.
LEMMA PopElementAlive ==
    ASSUME TypeInv, StrongRefsLive, stack # <<>>, Top.fn = "pop",
           Top.i <= Len(pools[Top.pool].objs)
    PROVE  /\ pools[Top.pool].objs[Top.i] \in Obj /\ Live(pools[Top.pool].objs[Top.i])
           /\ PendingEntry(Top.pool, Top.i)
<1>1. /\ Len(stack) \in DOMAIN stack /\ stack \in Seq(Frame) /\ Top \in Frame
      /\ Top.pool \in DOMAIN pools /\ Top.i \in Nat /\ Top.i >= 1
  BY TopFrame DEF TypeInv, TypeOK
<1>2. pools[Top.pool].objs \in Seq(Obj)
  BY <1>1, PoolObjs
<1>3. /\ Top.i \in DOMAIN pools[Top.pool].objs
      /\ pools[Top.pool].objs[Top.i] \in Obj
  BY <1>1, <1>2
<1>4. \A f \in Elements(stack) : f.fn = "pop" /\ f.pool = Top.pool => Top.i >= f.i
  <2> SUFFICES ASSUME NEW p \in DOMAIN stack, stack[p].fn = "pop",
                      stack[p].pool = Top.pool
               PROVE  Top.i >= stack[p].i
    BY DEF Elements
  <2>1. pools[Top.pool].depth = p - 1 /\ pools[Top.pool].depth = Len(stack) - 1
    BY <1>1 DEF TypeInv, CallsWellNested, WellNested, Top
  <2>2. p = Len(stack)
    BY <1>1, <2>1
  <2> QED
    BY <1>1, <2>2 DEF Top
<1>5. PendingEntry(Top.pool, Top.i)
  BY <1>1, <1>3, <1>4 DEF PendingEntry
<1>6. StrongRef(pools[Top.pool].objs[Top.i])
  BY <1>1, <1>3, <1>5 DEF StrongRef
<1> QED
  BY <1>3, <1>5, <1>6 DEF StrongRefsLive

\* The loop of the innermost activation resumes.
LEMMA ResumedActivations ==
    ASSUME TypeInv, WeakIndInv, stack # <<>>, NEW i \in Nat, i >= 1,
           Top.fn = "pop" \/ Top.i # 0
    PROVE  /\ Resume(i) \in Seq(Frame) /\ Distinct(Resume(i), heap, rc)
           /\ \A p \in DOMAIN Resume(i) : Resume(i)[p].fn # "pop" => Resume(i)[p].obj \in Obj
<1>1. stack \in Seq(Frame) /\ Distinct(stack, heap, rc)
  BY DEF TypeInv, TypeOK, WeakIndInv, DeallocsDistinct
<1>2. Distinct(Resume(i), heap, rc)
  BY <1>1, ResumeDistinct DEF Resume, Top
<1>3. /\ Resume(i) \in Seq(Frame) /\ DOMAIN Resume(i) = DOMAIN stack
      /\ \A p \in DOMAIN stack : /\ Resume(i)[p].fn = stack[p].fn
                                 /\ Resume(i)[p].obj = stack[p].obj
  BY <1>1, ResumeShape DEF Resume
<1>4. \A p \in DOMAIN stack : stack[p].fn # "pop" => stack[p].obj \in Obj
  BY DEF TypeInv, CallsWellNested, WellNested
<1> QED
  BY <1>2, <1>3, <1>4

LEMMA WeakRuntime ==
    ASSUME TypeInv, WeakIndInv, StrongRefsLive, Runtime
    PROVE  WeakIndInv'
<1>0. /\ rc \in [Obj -> Nat] /\ stack \in Seq(Frame) /\ Distinct(stack, heap, rc)
      /\ EntriesWellFormed /\ Registered
  BY DEF TypeInv, TypeOK, WeakIndInv, DeallocsDistinct
<1>1. CASE PopStep
  <2>1. /\ stack # <<>> /\ Top.fn = "pop" /\ Top.i <= Len(pools[Top.pool].objs)
        /\ ReleaseRef(rc, pools[Top.pool].objs[Top.i], Resume(Top.i + 1))
        /\ UNCHANGED <<heap, scope>>
    BY <1>1 DEF PopStep
  <2>2. Top.i + 1 \in Nat /\ Top.i + 1 >= 1
    BY <2>1, TopFrame
  <2>3. PICK o \in Obj : o = pools[Top.pool].objs[Top.i] /\ o \in heap /\ rc[o] > 0
    BY <2>1, PopElementAlive DEF Live
  <2>4. PICK rest \in Seq(Frame) :
           /\ rest = Resume(Top.i + 1) /\ Distinct(rest, heap, rc)
           /\ \A p \in DOMAIN rest : rest[p].fn # "pop" => rest[p].obj \in Obj
    BY <2>1, <2>2, ResumedActivations
  <2>5. ReleaseRef(rc, o, rest)
    BY <2>1, <2>3, <2>4
  <2> QED
    BY <1>0, <2>1, <2>3, <2>4, <2>5, ReleaseWeak
<1>2. CASE PopEnd \/ RemoveAllEnd
  <2>1. stack # <<>> /\ stack' = Caller /\ UNCHANGED <<heap, rc, cell, weak_table, scope>>
    BY <1>2 DEF PopEnd, RemoveAllEnd
  <2>2. Distinct(stack', heap, rc)
    BY <1>0, <2>1, ReturnDistinct DEF Caller
  <2>3. DeallocsDistinct'
    BY <2>1, <2>2 DEF DeallocsDistinct
  <2>4. (EntriesWellFormed /\ Registered)'
    BY <1>0, <2>1, KeepTable DEF Readable
  <2> QED
    BY <2>3, <2>4 DEF WeakIndInv
<1>3. CASE SuperDealloc
  <2>1. /\ stack # <<>> /\ Top.fn = "dealloc" /\ stack' = Resume(1)
        /\ UNCHANGED <<heap, rc, cell, weak_table, scope>>
    BY <1>3 DEF SuperDealloc
  <2>2. Len(stack) \in DOMAIN stack /\ Len(stack) \in Nat
    BY <2>1, TopFrame
  <2>3. \A p \in DOMAIN stack : p # Len(stack) /\ stack[p].fn # "pop"
                                => stack[p].obj # stack[Len(stack)].obj
    <3> SUFFICES ASSUME NEW p \in DOMAIN stack, p # Len(stack), stack[p].fn # "pop",
                        stack[p].obj = stack[Len(stack)].obj
                 PROVE  FALSE
      OBVIOUS
    <3>1. stack[p] \in Frame
      BY <1>0
    <3>2. stack[p].fn = "removeAll"
      BY <1>0, <2>1, <2>2, <3>1 DEF Distinct, Top, Frame
    <3>3. rc[stack[p].obj] = 0
      BY <1>0, <2>1, <2>2 DEF Distinct, Top
    <3>4. PICK q \in 1 .. p - 1 : stack[q].fn = "dealloc" /\ stack[q].obj = stack[p].obj
      BY <3>2, <3>3, RemoveAllAllocated DEF WeakIndInv
    <3>5. q \in DOMAIN stack /\ q # Len(stack)
      BY <1>0, <2>2
    <3> QED
      BY <1>0, <2>1, <2>2, <3>4, <3>5 DEF Distinct, Top
  <2>4. Distinct(stack', heap, rc)
    BY <1>0, <2>1, <2>3, ResumeDistinct DEF Resume
  <2>5. DeallocsDistinct'
    BY <2>1, <2>4 DEF DeallocsDistinct
  <2>6. (EntriesWellFormed /\ Registered)'
    BY <1>0, <2>1, KeepTable DEF Readable
  <2> QED
    BY <2>5, <2>6 DEF WeakIndInv
<1>4. CASE DeallocStep \/ RemoveAllStep
  <2>1. /\ stack # <<>> /\ Top.fn # "pop" /\ Top.i <= Len(items[Top.obj])
        /\ ReleaseRef(rc, items[Top.obj][Top.i], Resume(Top.i + 1))
        /\ UNCHANGED <<heap, scope>>
    BY <1>4 DEF DeallocStep, RemoveAllStep
  <2>2. Top.i \in Nat /\ Top.i > 0 /\ Top.i + 1 \in Nat /\ Top.i + 1 >= 1
    <3>1. Top.i \in Nat /\ Top.i > 0
      BY <1>4, <2>1, TopFrame DEF DeallocStep, RemoveAllStep
    <3> QED
      BY <3>1
  <2>3. PICK o \in Obj : o = items[Top.obj][Top.i] /\ o \in heap /\ rc[o] > 0
    BY <2>1, <2>2, LoopElementAlive DEF Live
  <2>4. PICK rest \in Seq(Frame) :
           /\ rest = Resume(Top.i + 1) /\ Distinct(rest, heap, rc)
           /\ \A p \in DOMAIN rest : rest[p].fn # "pop" => rest[p].obj \in Obj
    BY <2>1, <2>2, ResumedActivations
  <2>5. ReleaseRef(rc, o, rest)
    BY <2>1, <2>3, <2>4
  <2> QED
    BY <1>0, <2>1, <2>3, <2>4, <2>5, ReleaseWeak
<1>5. CASE DeallocEnd
  <2>1. /\ stack # <<>> /\ Top.fn = "dealloc" /\ stack' = Caller
        /\ heap' = heap \ {Top.obj} /\ UNCHANGED <<rc, cell, weak_table, scope>>
    BY <1>5 DEF DeallocEnd
  <2>2. /\ Len(stack) \in DOMAIN stack /\ Len(stack) \in Nat /\ DOMAIN stack = 1 .. Len(stack)
        /\ Len(stack) - 1 \in 0 .. Len(stack)
    BY <1>0, <2>1, TopFrame
  <2>3. Top.obj \in heap /\ rc[Top.obj] = 0
    BY <1>0, <2>1, <2>2 DEF Distinct, Top
  <2>4. /\ DOMAIN stack' = 1 .. Len(stack) - 1
        /\ \A p \in 1 .. Len(stack) - 1 : stack'[p] = stack[p]
    BY <1>0, <2>1, <2>2, Prefix DEF Caller
  <2>5. \A p \in DOMAIN stack' : /\ p \in DOMAIN stack /\ p # Len(stack)
                                 /\ stack'[p] = stack[p]
    BY <2>2, <2>4
  <2>6. \A p \in DOMAIN stack' : stack'[p].fn = "dealloc" => stack'[p].obj # Top.obj
    BY <1>0, <2>1, <2>2, <2>5 DEF Distinct, Top
  <2>7. Distinct(stack', heap', rc')
    BY <1>0, <2>1, <2>5, <2>6 DEF Distinct
  <2>8. DeallocsDistinct'
    BY <2>7 DEF DeallocsDistinct
  <2>9. \A o \in heap : rc[o] > 0 => o \in heap' /\ rc'[o] > 0
    BY <2>1, <2>3
  <2>10. (EntriesWellFormed /\ Registered)'
    BY <1>0, <2>1, <2>9, KeepTable DEF Readable
  <2> QED
    BY <2>8, <2>10 DEF WeakIndInv
<1> QED
  BY <1>1, <1>2, <1>3, <1>4, <1>5 DEF Runtime

\* A retain of a live object keeps the invariants.
LEMMA RetainWeak ==
    ASSUME TypeInv, WeakIndInv, NEW o \in Obj, Live(o),
           rc' = [rc EXCEPT ![o] = @ + 1],
           UNCHANGED <<heap, cell, weak_table, scope, stack>>
    PROVE  WeakIndInv'
<1>0. /\ rc \in [Obj -> Nat] /\ heap \subseteq Obj /\ Distinct(stack, heap, rc)
      /\ EntriesWellFormed /\ Registered
  BY DEF TypeInv, TypeOK, WeakIndInv, DeallocsDistinct
<1>1. \A x \in Obj : rc'[x] = IF x = o THEN rc[o] + 1 ELSE rc[x]
  BY <1>0
<1>2. rc[o] > 0 /\ rc[o] + 1 > 0 /\ o \in heap
  BY <1>0 DEF Live
<1>3. \A p \in DOMAIN stack : stack[p].fn = "dealloc" =>
         stack[p].obj # o /\ stack[p].obj \in Obj
  BY <1>0, <1>2, AliveNotInDealloc DEF Distinct
<1>4. DeallocsDistinct'
  BY <1>0, <1>1, <1>3 DEF DeallocsDistinct, Distinct
<1>5. \A x \in heap : rc[x] > 0 => x \in heap' /\ rc'[x] > 0
  BY <1>0, <1>1, <1>2
<1>6. (EntriesWellFormed /\ Registered)'
  BY <1>0, <1>5, KeepTable DEF Readable
<1> QED
  BY <1>4, <1>6 DEF WeakIndInv

\* An array that user code may send a message to is allocated, and each of
\* its elements is still to be released.
LEMMA ReceiverElements ==
    ASSUME TypeInv, WeakIndInv, StrongRefsLive, NEW c \in Obj, Receiver(c)
    PROVE  c \in heap /\ \A j \in DOMAIN items[c] :
                            items[c][j] \in Obj /\ Live(items[c][j])
<1>0. /\ stack \in Seq(Frame) /\ items[c] \in Seq(Obj) /\ Distinct(stack, heap, rc)
      /\ c # Null
  BY DisjointAddresses DEF TypeInv, TypeOK, WeakIndInv, DeallocsDistinct
<1>1. CASE c = Self
  <2>1. /\ stack # <<>> /\ Top.fn = "dealloc" /\ Top.i = 0 /\ Top.obj = c
        /\ Len(stack) \in DOMAIN stack
    BY <1>0, <1>1, TopFrame DEF Receiver, UserRuns, Self
  <2>2. c \in heap
    BY <1>0, <2>1 DEF Distinct, Top
  <2>3. \A f \in Elements(stack) : f.fn = "dealloc" /\ f.obj = c => f.i = 0
    <3> SUFFICES ASSUME NEW p \in DOMAIN stack, stack[p].fn = "dealloc", stack[p].obj = c
                 PROVE  stack[p].i = 0
      BY DEF Elements
    <3>1. p = Len(stack)
      BY <1>0, <2>1 DEF Distinct, Top
    <3> QED
      BY <2>1, <3>1 DEF Top
  <2> QED
    <3> SUFFICES ASSUME NEW j \in DOMAIN items[c]
                 PROVE  items[c][j] \in Obj /\ Live(items[c][j])
      BY <2>2
    <3>1. j \in Nat /\ j >= 0 /\ items[c][j] \in Obj
      BY <1>0
    <3>2. PendingItem(c, j)
      BY <2>2, <2>3, <3>1 DEF PendingItem, Receiver, Draining
    <3> QED
      BY <2>2, <3>1, <3>2 DEF StrongRef, StrongRefsLive
<1>2. CASE c # Self
  <2>1. Live(c) /\ rc[c] > 0 /\ c \in heap
    BY <1>2, ReferencedAlive DEF Receiver, WeakIndInv, Live
  <2>2. \A f \in Elements(stack) : f.fn = "dealloc" => f.obj # c
    BY <1>0, <2>1, AliveNotInDealloc DEF Elements
  <2> SUFFICES ASSUME NEW j \in DOMAIN items[c]
               PROVE  items[c][j] \in Obj /\ Live(items[c][j])
    BY <2>1
  <2>3. items[c][j] \in Obj
    BY <1>0
  <2>4. PendingItem(c, j)
    BY <2>1, <2>2 DEF PendingItem, Receiver, Draining
  <2> QED
    BY <2>1, <2>3, <2>4 DEF StrongRef, StrongRefsLive
<1> QED
  BY <1>1, <1>2

\* Registering an object that is alive, or nil, at a location.
LEMMA RegisterWeak ==
    ASSUME TypeInv, EntriesWellFormed, TableHasRoom,
           NEW t \in Seq(Entry), Len(t) = Len(weak_table), DOMAIN t = DOMAIN weak_table,
           \A i \in DOMAIN t : t[i].object = weak_table[i].object,
           NEW loc \in Loc,
           \A i \in DOMAIN t :
              Elements(weak_table[i].slots) \ {loc} \subseteq Elements(t[i].slots),
           NEW o \in Id, o # Null => Live(o),
           weak_table' = weakRegister(t, loc, o),
           cell' = [cell EXCEPT ![loc] = o],
           \A x \in Loc \ {loc} : Readable(x)' => Readable(x),
           UNCHANGED <<heap, rc>>, Registered
    PROVE  (EntriesWellFormed /\ Registered)'
<1>1. cell \in [Loc -> Id] /\ weak_table \in Seq(Entry)
  BY DEF TypeInv, TypeOK
<1>2. \A i, j \in DOMAIN t : t[i].object = t[j].object => i = j
  BY DEF EntriesWellFormed
<1>3. Len(t) < MAX_WEAK_ENTRIES
  BY DEF TableHasRoom
<1> DEFINE r == weakRegister(t, loc, o)
<1>4. LET q == weakRegister(t, loc, o)
      IN  /\ q \in Seq(Entry)
          /\ \A i, j \in DOMAIN q : q[i].object = q[j].object => i = j
          /\ \A i \in DOMAIN q : \/ \E k \in DOMAIN t : q[i].object = t[k].object
                                 \/ q[i].object = o /\ o \in Obj
          /\ \A i \in DOMAIN t : \E k \in DOMAIN q :
                /\ q[k].object = t[i].object
                /\ Elements(t[i].slots) \subseteq Elements(q[k].slots)
          /\ o # Null => \E i \in DOMAIN q :
                            q[i].object = o /\ loc \in Elements(q[i].slots)
  BY ONLY <1>2, <1>3, RegisterEntries, t \in Seq(Entry), loc \in Loc, o \in Id
<1>5. /\ \A i, j \in DOMAIN r : r[i].object = r[j].object => i = j
      /\ \A i \in DOMAIN r : \/ \E k \in DOMAIN t : r[i].object = t[k].object
                             \/ r[i].object = o /\ o \in Obj
      /\ \A i \in DOMAIN t : \E k \in DOMAIN r :
            /\ r[k].object = t[i].object
            /\ Elements(t[i].slots) \subseteq Elements(r[k].slots)
      /\ o # Null => \E i \in DOMAIN r : r[i].object = o /\ loc \in Elements(r[i].slots)
  BY ONLY <1>4
<1>6. weak_table' = r
  OBVIOUS
<1> HIDE DEF r
<1>7. \A i \in DOMAIN r : r[i].object \in heap /\ rc[r[i].object] > 0
  <2> SUFFICES ASSUME NEW i \in DOMAIN r
               PROVE  r[i].object \in heap /\ rc[r[i].object] > 0
    OBVIOUS
  <2>1. CASE \E k \in DOMAIN t : r[i].object = t[k].object
    BY <2>1 DEF EntriesWellFormed, Live
  <2>2. CASE r[i].object = o /\ o \in Obj
    BY <2>2, DisjointAddresses DEF Live
  <2> QED
    BY <1>5, <2>1, <2>2
<1>8. EntriesWellFormed'
  BY <1>5, <1>6, <1>7 DEF EntriesWellFormed, Live
<1>9. \A x \in Loc : Readable(x)' /\ cell'[x] # Null =>
         \E i \in DOMAIN r : r[i].object = cell'[x] /\ x \in Elements(r[i].slots)
  <2> SUFFICES ASSUME NEW x \in Loc, Readable(x)', cell'[x] # Null
               PROVE  \E i \in DOMAIN r : r[i].object = cell'[x]
                                          /\ x \in Elements(r[i].slots)
    OBVIOUS
  <2>1. CASE x = loc
    <3>1. cell'[x] = o /\ o # Null
      BY <1>1, <2>1
    <3> QED
      BY <1>5, <2>1, <3>1
  <2>2. CASE x # loc
    <3>1. cell'[x] = cell[x] /\ Readable(x)
      BY <1>1, <2>2
    <3>2. PICK i \in DOMAIN weak_table :
             weak_table[i].object = cell[x] /\ x \in Elements(weak_table[i].slots)
      BY <3>1 DEF Registered
    <3>3. t[i].object = cell[x] /\ x \in Elements(t[i].slots)
      BY <2>2, <3>2
    <3> QED
      BY <1>5, <3>1, <3>2, <3>3
  <2> QED
    BY <2>1, <2>2
<1>10. Registered'
  BY <1>6, <1>9 DEF Registered
<1> QED
  BY <1>8, <1>10

\* Actions that leave counts, table, weak locations and activations alone.
LEMMA KeepWeak ==
    ASSUME WeakIndInv, UNCHANGED <<heap, rc, cell, weak_table, scope, stack>>
    PROVE  WeakIndInv'
<1>1. (EntriesWellFormed /\ Registered)'
  BY KeepTable DEF Readable, WeakIndInv
<1> QED
  BY <1>1 DEF WeakIndInv, DeallocsDistinct

LEMMA IncrementType ==
    ASSUME NEW f \in [Obj -> Nat], NEW o \in Obj
    PROVE  /\ [f EXCEPT ![o] = @ + 1] \in [Obj -> Nat]
           /\ \A x \in Obj : [f EXCEPT ![o] = @ + 1][x] = IF x = o THEN f[o] + 1 ELSE f[x]
  OBVIOUS

LEMMA WeakUser ==
    ASSUME TypeInv, WeakIndInv, StrongRefsLive, TableHasRoom, User
    PROVE  WeakIndInv'
<1>0. /\ heap \subseteq Obj /\ rc \in [Obj -> Nat] /\ cell \in [Loc -> Id]
      /\ weak_table \in Seq(Entry) /\ scope \in [Local -> Nat \cup {Out}]
      /\ stack \in Seq(Frame) /\ Distinct(stack, heap, rc)
      /\ EntriesWellFormed /\ Registered
      /\ \A p \in DOMAIN stack : stack[p].fn # "pop" => stack[p].obj \in Obj
  BY DEF TypeInv, TypeOK, WeakIndInv, DeallocsDistinct, CallsWellNested, WellNested
<1>a. \A o \in Referenced : o \in Obj /\ o # Self /\ Live(o)
  BY <1>0, ReferencedAlive
<1>h. \A o \in Obj : held[o] > 0 => Live(o)
  BY DEF StrongRefsLive, StrongRef
<1>1. ASSUME NEW o \in Obj, nupa_alloc(o) PROVE WeakIndInv'
  <2>1. /\ o \notin heap /\ heap' = heap \cup {o} /\ rc' = [rc EXCEPT ![o] = 1]
        /\ cell' = [x \in Loc |-> IF x = o THEN Null ELSE cell[x]]
        /\ UNCHANGED <<weak_table, scope, stack>>
    BY <1>1 DEF nupa_alloc
  <2>2. \A x \in Obj : x # o => rc'[x] = rc[x]
    BY <1>0, <2>1
  <2>3. \A p \in DOMAIN stack : stack[p].fn = "dealloc" =>
           stack[p].obj \in heap /\ stack[p].obj # o /\ rc'[stack[p].obj] = 0
    BY <1>0, <2>1, <2>2 DEF Distinct
  <2>4. DeallocsDistinct'
    BY <1>0, <2>1, <2>3 DEF DeallocsDistinct, Distinct
  <2>5. \A i \in DOMAIN weak_table :
           /\ weak_table[i].object \in heap' /\ rc'[weak_table[i].object] > 0
    BY <1>0, <2>1, <2>2 DEF EntriesWellFormed, Live
  <2>6. EntriesWellFormed'
    BY <1>0, <2>1, <2>5 DEF EntriesWellFormed, Live
  <2>7. \A x \in Loc : Readable(x)' /\ cell'[x] # Null => Readable(x) /\ cell'[x] = cell[x]
    BY <1>0, <2>1 DEF Readable
  <2>8. Registered'
    BY <1>0, <2>1, <2>7 DEF Registered
  <2> QED
    BY <2>4, <2>6, <2>8 DEF WeakIndInv
<1>2. ASSUME NEW o \in Obj, nupa_retain(o) PROVE WeakIndInv'
  BY <1>2, <1>a, RetainWeak DEF nupa_retain
<1>3. ASSUME NEW o \in Obj, nupa_release(o) PROVE WeakIndInv'
  <2>1. o \in heap /\ rc[o] > 0
    BY <1>3, <1>h DEF nupa_release, Live
  <2>2. ReleaseRef(rc, o, stack) /\ UNCHANGED <<heap, scope>>
    BY <1>3 DEF nupa_release
  <2> QED
    BY <1>0, <2>1, <2>2, ReleaseWeak
<1>4. ASSUME NEW o \in Obj, nupa_autorelease(o) PROVE WeakIndInv'
  BY <1>4, KeepWeak DEF nupa_autorelease
<1>5. ASSUME nupa_autoreleasepoolPush PROVE WeakIndInv'
  BY <1>5, KeepWeak DEF nupa_autoreleasepoolPush
<1>6. ASSUME NEW k, LeavePool(k) PROVE WeakIndInv'
  BY <1>6, KeepWeak DEF LeavePool
<1>7. ASSUME NEW k, nupa_autoreleasepoolPop(k) PROVE WeakIndInv'
  <2>1. k \in DOMAIN pools /\ UNCHANGED <<heap, rc, cell, weak_table, scope>>
    BY <1>7 DEF nupa_autoreleasepoolPop, OpenPool
  <2>2. pools \in Seq(Pool)
    BY DEF TypeInv, TypeOK
  <2>f. PICK f : f = [fn |-> "pop", obj |-> Null, pool |-> k, i |-> 1]
    OBVIOUS
  <2>3. f \in Frame /\ f.fn = "pop"
    BY <2>1, <2>2, <2>f DEF Frame, Id
  <2>4. Distinct(Append(stack, f), heap, rc)
    BY <1>0, <2>3, AppendDistinct
  <2>5. DeallocsDistinct'
    BY <1>7, <2>1, <2>f, <2>4 DEF nupa_autoreleasepoolPop, DeallocsDistinct
  <2>6. (EntriesWellFormed /\ Registered)'
    BY <1>0, <2>1, KeepTable DEF Readable
  <2> QED
    BY <2>5, <2>6 DEF WeakIndInv
<1>8. ASSUME NEW c \in Obj, removeAllObjects(c) PROVE WeakIndInv'
  <2>1. /\ UserRuns /\ ~Draining(c) /\ (held[c] > 0 \/ c = Self)
        /\ UNCHANGED <<heap, rc, cell, weak_table, scope>>
    BY <1>8 DEF removeAllObjects, Receiver
  <2>f. PICK f : f = [fn |-> "removeAll", obj |-> c, pool |-> 0, i |-> 1]
    OBVIOUS
  <2>2. f \in Frame /\ f.fn = "removeAll" /\ f.obj = c
    BY <2>f DEF Frame, Id
  <2>3. \A p \in DOMAIN stack : stack[p].fn # "pop" /\ stack[p].obj = c =>
           stack[p].i = 0 /\ stack[p].fn # "removeAll"
    <3> SUFFICES ASSUME NEW p \in DOMAIN stack, stack[p].fn # "pop", stack[p].obj = c
                 PROVE  stack[p].i = 0 /\ stack[p].fn # "removeAll"
      OBVIOUS
    <3>1. stack[p] \in Frame
      BY <1>0
    <3>b. stack[p].fn \in {"dealloc", "removeAll", "pop"}
      BY <3>1 DEF Frame
    <3>2. stack[p].fn = "dealloc"
      BY <2>1, <3>b DEF Draining, Elements
    <3>3. rc[c] = 0
      BY <1>0, <3>2 DEF Distinct
    <3>4. ~ (held[c] > 0)
      BY <1>h, <3>3 DEF Live
    <3>5. stack # <<>> /\ Top.obj = c /\ Top.fn = "dealloc" /\ Top.i = 0
      <4>1. c = Self /\ c # Null
        BY <2>1, <3>4, DisjointAddresses
      <4>2. stack # <<>> /\ Top.obj = c
        BY <4>1 DEF Self
      <4> QED
        BY <2>1, <4>2 DEF UserRuns
    <3>6. Len(stack) \in DOMAIN stack
      BY <3>5, TopFrame
    <3>7. p = Len(stack)
      BY <1>0, <3>2, <3>5, <3>6 DEF Distinct, Top
    <3> QED
      BY <3>2, <3>5, <3>7 DEF Top
  <2>4. Distinct(Append(stack, f), heap, rc)
    BY <1>0, <2>2, <2>3, AppendDistinct
  <2>5. DeallocsDistinct'
    BY <1>8, <2>1, <2>f, <2>4 DEF removeAllObjects, DeallocsDistinct
  <2>6. (EntriesWellFormed /\ Registered)'
    BY <1>0, <2>1, KeepTable DEF Readable
  <2> QED
    BY <2>5, <2>6 DEF WeakIndInv
<1>9. ASSUME NEW c \in Obj, NEW o \in Obj, NEW j, insertObject(c, j, o)
      PROVE  WeakIndInv'
  BY <1>9, <1>a, RetainWeak DEF insertObject
<1>10. ASSUME NEW c \in Obj, NEW o \in Obj, NEW j, replaceObjectAtIndex(c, j, o)
       PROVE  WeakIndInv'
  <2>1. /\ Receiver(c) /\ Live(o) /\ j \in DOMAIN items[c]
        /\ ReleaseRef([rc EXCEPT ![o] = @ + 1], items[c][j], stack)
        /\ UNCHANGED <<heap, scope>>
    BY <1>10, <1>a DEF replaceObjectAtIndex
  <2>2. PICK x \in Obj : x = items[c][j] /\ x \in heap /\ rc[x] > 0
    BY <2>1, ReceiverElements DEF Live
  <2>3. PICK counts \in [Obj -> Nat] : counts = [rc EXCEPT ![o] = @ + 1]
    BY <1>0, IncrementType
  <2>4. \A y \in Obj : counts[y] = IF y = o THEN rc[o] + 1 ELSE rc[y]
    BY <1>0, <2>3, IncrementType
  <2>5. rc[o] > 0
    BY <2>1 DEF Live
  <2>6. (\A y \in Obj : counts[y] > 0 <=> rc[y] > 0) /\ counts[x] > 0
    <3>1. rc[o] \in Nat /\ rc[o] + 1 > 0
      BY <1>0
    <3>2. \A y \in Obj : counts[y] > 0 <=> rc[y] > 0
      BY <2>4, <2>5, <3>1
    <3> QED
      BY <2>2, <3>2
  <2>7. ReleaseRef(counts, x, stack)
    BY <2>1, <2>2, <2>3
  <2> QED
    BY <1>0, <2>1, <2>2, <2>6, <2>7, ReleaseWeak
<1>11. ASSUME NEW c \in Obj, NEW j, removeObjectAtIndex(c, j) PROVE WeakIndInv'
  <2>1. /\ Receiver(c) /\ j \in DOMAIN items[c] /\ ReleaseRef(rc, items[c][j], stack)
        /\ UNCHANGED <<heap, scope>>
    BY <1>11 DEF removeObjectAtIndex
  <2>2. PICK x \in Obj : x = items[c][j] /\ x \in heap /\ rc[x] > 0
    BY <2>1, ReceiverElements DEF Live
  <2>3. ReleaseRef(rc, x, stack)
    BY <2>1, <2>2
  <2> QED
    BY <1>0, <2>1, <2>2, <2>3, ReleaseWeak
<1>12. ASSUME NEW c \in Obj, NEW a, NEW b, exchangeObjectAtIndex(c, a, b)
       PROVE  WeakIndInv'
  BY <1>12, KeepWeak DEF exchangeObjectAtIndex
<1>13. ASSUME NEW l \in Local, NEW o \in Id, WeakDecl(l, o) PROVE WeakIndInv'
  <2>1. /\ weak_table' = weakRegister(weak_table, l, o) /\ cell' = [cell EXCEPT ![l] = o]
        /\ scope' = [scope EXCEPT ![l] = Len(stack)] /\ o \in Referenced \cup {Null}
        /\ UNCHANGED <<heap, rc, stack>>
    BY <1>13 DEF WeakDecl
  <2>2. l \in Loc /\ (o # Null => Live(o))
    BY <1>a, <2>1 DEF Loc
  <2>3. \A x \in Loc \ {l} : Readable(x)' => Readable(x)
    BY <1>0, <2>1 DEF Readable
  <2>4. (EntriesWellFormed /\ Registered)'
    BY <1>0, <2>1, <2>2, <2>3, RegisterWeak
  <2> QED
    BY <1>0, <2>1, <2>4 DEF WeakIndInv, DeallocsDistinct
<1>14. ASSUME NEW l \in Local, WeakScopeEnd(l) PROVE WeakIndInv'
  <2>1. /\ weak_table' = weakUnregister(weak_table, l)
        /\ scope' = [scope EXCEPT ![l] = Out] /\ UNCHANGED <<heap, rc, cell, stack>>
    BY <1>14 DEF WeakScopeEnd
  <2>2. l \in Loc
    BY DEF Loc
  <2>3. /\ DOMAIN weak_table' = DOMAIN weak_table
        /\ \A i \in DOMAIN weak_table : weak_table'[i].object = weak_table[i].object
        /\ \A i \in DOMAIN weak_table :
              Elements(weak_table[i].slots) \ {l} \subseteq Elements(weak_table'[i].slots)
    BY <1>0, <2>1, <2>2, UnregisterTable
  <2>4. EntriesWellFormed'
    BY <1>0, <2>1, <2>3 DEF EntriesWellFormed, Live
  <2>5. \A x \in Loc : Readable(x)' => Readable(x) /\ x # l
    BY <1>0, <2>1 DEF Readable
  <2>6. Registered'
    <3> SUFFICES ASSUME NEW x \in Loc, Readable(x)', cell'[x] # Null
                 PROVE  \E i \in DOMAIN weak_table' :
                           /\ weak_table'[i].object = cell'[x]
                           /\ x \in Elements(weak_table'[i].slots)
      BY DEF Registered
    <3>1. Readable(x) /\ x # l /\ cell'[x] = cell[x]
      BY <2>1, <2>5
    <3>2. PICK i \in DOMAIN weak_table :
             weak_table[i].object = cell[x] /\ x \in Elements(weak_table[i].slots)
      BY <1>0, <2>1, <3>1 DEF Registered
    <3> QED
      BY <2>3, <3>1, <3>2
  <2> QED
    BY <1>0, <2>1, <2>4, <2>6 DEF WeakIndInv, DeallocsDistinct
<1>15. ASSUME NEW c \in WeakHolder, NEW o \in Id, WeakIvarStore(c, o) PROVE WeakIndInv'
  <2>1. /\ weak_table' = weakRegister(weakUnregister(weak_table, c), c, o)
        /\ cell' = [cell EXCEPT ![c] = o] /\ o \in Referenced \cup {Null}
        /\ UNCHANGED <<heap, rc, scope, stack>>
    BY <1>15 DEF WeakIvarStore
  <2>2. c \in Loc /\ (o # Null => Live(o))
    BY <1>a, <2>1 DEF Loc
  <2>t. PICK t : t = weakUnregister(weak_table, c)
    OBVIOUS
  <2>3. /\ t \in Seq(Entry)
        /\ Len(t) = Len(weak_table) /\ DOMAIN t = DOMAIN weak_table
        /\ \A i \in DOMAIN t : t[i].object = weak_table[i].object
        /\ \A i \in DOMAIN t :
              Elements(weak_table[i].slots) \ {c} \subseteq Elements(t[i].slots)
    BY <1>0, <2>2, <2>t, UnregisterTable
  <2>4. \A x \in Loc \ {c} : Readable(x)' => Readable(x)
    BY <2>1 DEF Readable
  <2>5. (EntriesWellFormed /\ Registered)'
    BY <1>0, <2>1, <2>2, <2>t, <2>3, <2>4, RegisterWeak
  <2> QED
    BY <1>0, <2>1, <2>5 DEF WeakIndInv, DeallocsDistinct
<1> QED
  BY <1>1, <1>2, <1>3, <1>4, <1>5, <1>6, <1>7, <1>8, <1>9, <1>10, <1>11, <1>12, <1>13,
     <1>14, <1>15 DEF User

LEMMA WeakStep ==
    TypeInv /\ WeakIndInv /\ StrongRefsLive /\ TableHasRoom /\ [NextThrow]_vars
       => WeakIndInv'
<1> SUFFICES ASSUME TypeInv, WeakIndInv, StrongRefsLive, TableHasRoom, [NextThrow]_vars
             PROVE  WeakIndInv'
  OBVIOUS
<1>1. CASE Next
  BY <1>1, WeakRuntime, WeakUser DEF Next
<1>2. ASSUME NEW l \in Local, WeakUnwind(l) PROVE WeakIndInv'
  <2>1. /\ scope' = [scope EXCEPT ![l] = Out]
        /\ UNCHANGED <<heap, rc, cell, weak_table, stack>>
    BY <1>2 DEF WeakUnwind
  <2>2. \A x \in Loc : Readable(x)' => Readable(x)
    BY <2>1 DEF Readable, TypeInv, TypeOK
  <2>3. (EntriesWellFormed /\ Registered)'
    BY <2>1, <2>2, KeepTable DEF WeakIndInv
  <2> QED
    BY <2>1, <2>3 DEF WeakIndInv, DeallocsDistinct
<1>3. CASE UNCHANGED vars
  BY <1>3, KeepWeak DEF vars
<1> QED
  BY <1>1, <1>2, <1>3 DEF NextThrow

LEMMA WeakInit == Init => WeakIndInv
BY DEF Init, WeakIndInv, DeallocsDistinct, Distinct, EntriesWellFormed, Registered

-----------------------------------------------------------------------------
(* Registrations are unique                                                  *)

RegisteredIn(t, x) == \E i \in DOMAIN t : x \in Elements(t[i].slots)
OnceIn(t) ==
    \A i, j \in DOMAIN t : \A m \in DOMAIN t[i].slots, n \in DOMAIN t[j].slots :
        t[i].slots[m] = t[j].slots[n] => i = j /\ m = n

\* The position that SwapRemove(q, j) moves to k.
MovedFrom(q, j, k) == IF k = j THEN Len(q) ELSE k
LEMMA SwapRemoveMoves ==
    ASSUME NEW S, NEW q \in Seq(S), NEW j \in DOMAIN q
    PROVE  /\ \A k \in DOMAIN SwapRemove(q, j) :
                 /\ MovedFrom(q, j, k) \in DOMAIN q \ {j}
                 /\ SwapRemove(q, j)[k] = q[MovedFrom(q, j, k)]
           /\ \A k, m \in DOMAIN SwapRemove(q, j) :
                 MovedFrom(q, j, k) = MovedFrom(q, j, m) => k = m
<1>1. /\ DOMAIN SwapRemove(q, j) = 1 .. Len(q) - 1 /\ DOMAIN q = 1 .. Len(q) /\ Len(q) \in Nat
      /\ \A k \in 1 .. Len(q) - 1 : SwapRemove(q, j)[k] = IF k = j THEN q[Len(q)] ELSE q[k]
  <2>1. /\ SwapRemove(q, j) \in Seq(S) /\ Len(SwapRemove(q, j)) = Len(q) - 1
        /\ \A k \in 1 .. Len(q) - 1 : SwapRemove(q, j)[k] = IF k = j THEN q[Len(q)] ELSE q[k]
    BY SwapRemoveType
  <2>2. PICK r \in Seq(S) : r = SwapRemove(q, j)
    BY <2>1
  <2>3. DOMAIN r = 1 .. Len(r)
    OBVIOUS
  <2> QED
    BY <2>1, <2>2, <2>3
<1>2. ASSUME NEW k \in DOMAIN SwapRemove(q, j)
      PROVE  /\ MovedFrom(q, j, k) \in DOMAIN q \ {j}
             /\ SwapRemove(q, j)[k] = q[MovedFrom(q, j, k)]
  <2>1. k \in 1 .. Len(q) - 1 /\ j \in 1 .. Len(q)
    BY <1>1
  <2>2. MovedFrom(q, j, k) \in DOMAIN q \ {j}
    BY <1>1, <2>1 DEF MovedFrom
  <2> QED
    BY <1>1, <2>1, <2>2 DEF MovedFrom
<1>3. ASSUME NEW k \in DOMAIN SwapRemove(q, j), NEW m \in DOMAIN SwapRemove(q, j),
             MovedFrom(q, j, k) = MovedFrom(q, j, m)
      PROVE  k = m
  BY <1>1, <1>3 DEF MovedFrom
<1> QED
  BY <1>2, <1>3

\* nupa_weakClearAll registers nothing.
LEMMA OnceClear ==
    ASSUME NEW t \in Seq(Entry), NEW o, OnceIn(t)
    PROVE  /\ OnceIn(weakClearAll(t, o))
           /\ \A x : RegisteredIn(weakClearAll(t, o), x) => RegisteredIn(t, x)
<1> DEFINE u == weakClearAll(t, o)
<1>1. CASE ~HasEntry(t, o)
  BY <1>1 DEF weakClearAll
<1>2. CASE HasEntry(t, o)
  <2>1. PICK n \in DOMAIN t : n = find_entry(t, o)
    BY <1>2, FindEntry
  <2>2. u = SwapRemove(t, n)
    BY <1>2, <2>1 DEF weakClearAll
  <2> HIDE DEF u
  <2>3. /\ \A k \in DOMAIN u : MovedFrom(t, n, k) \in DOMAIN t /\ u[k] = t[MovedFrom(t, n, k)]
        /\ \A k, m \in DOMAIN u : MovedFrom(t, n, k) = MovedFrom(t, n, m) => k = m
    BY <2>2, SwapRemoveMoves
  <2>4. OnceIn(u)
    <3> SUFFICES ASSUME NEW i \in DOMAIN u, NEW j \in DOMAIN u,
                        NEW a \in DOMAIN u[i].slots, NEW b \in DOMAIN u[j].slots,
                        u[i].slots[a] = u[j].slots[b]
                 PROVE  i = j /\ a = b
      BY DEF OnceIn
    <3>1. MovedFrom(t, n, i) = MovedFrom(t, n, j) /\ a = b
      BY <2>3 DEF OnceIn
    <3> QED
      BY <2>3, <3>1
  <2>5. ASSUME NEW x, RegisteredIn(u, x) PROVE RegisteredIn(t, x)
    BY <2>3, <2>5 DEF RegisteredIn
  <2> QED
    BY <2>4, <2>5 DEF u
<1> QED
  BY <1>1, <1>2

\* nupa_weakUnregister takes the only registration of a location away.
LEMMA OnceUnregister ==
    ASSUME NEW t \in Seq(Entry), NEW loc \in Loc, OnceIn(t)
    PROVE  /\ OnceIn(weakUnregister(t, loc)) /\ ~RegisteredIn(weakUnregister(t, loc), loc)
           /\ \A x : RegisteredIn(weakUnregister(t, loc), x) => RegisteredIn(t, x)
<1> DEFINE u == weakUnregister(t, loc)
<1>1. CASE \A i \in DOMAIN t : loc \notin Elements(t[i].slots)
  BY <1>1 DEF weakUnregister, RegisteredIn
<1>2. CASE ~ \A i \in DOMAIN t : loc \notin Elements(t[i].slots)
  <2>0. PICK n \in DOMAIN t : \E m : Unregisters(t, u, loc, n, m)
    BY <1>2, UnregisterEntry
  <2>1. PICK m : Unregisters(t, u, loc, n, m)
    BY <2>0
  <2>2. /\ m \in DOMAIN t[n].slots /\ t[n].slots[m] = loc
        /\ u = [t EXCEPT ![n].slots = SwapRemove(t[n].slots, m)]
    BY <2>1 DEF Unregisters
  <2> DEFINE q == t[n].slots
  <2>3. t[n] \in Entry
    OBVIOUS
  <2>4. q \in Seq(Loc)
    BY <2>3 DEF Entry
  <2>5. PICK s : s = SwapRemove(q, m)
    OBVIOUS
  <2>6. s \in Seq(Loc)
    BY <2>2, <2>4, <2>5, SwapRemoveType
  <2> HIDE DEF u
  <2>7. /\ DOMAIN u = DOMAIN t /\ u[n].slots = s /\ \A i \in DOMAIN t : i # n => u[i] = t[i]
    BY <2>2, <2>5, <2>6, SlotsUpdate
  <2>8. /\ \A k \in DOMAIN s : MovedFrom(q, m, k) \in DOMAIN q \ {m} /\ s[k] = q[MovedFrom(q, m, k)]
        /\ \A k, l \in DOMAIN s : MovedFrom(q, m, k) = MovedFrom(q, m, l) => k = l
    BY <2>2, <2>4, <2>5, SwapRemoveMoves
  <2> DEFINE col(i, a) == IF i = n THEN MovedFrom(q, m, a) ELSE a
  <2>9. ASSUME NEW i \in DOMAIN u, NEW a \in DOMAIN u[i].slots
        PROVE  /\ i \in DOMAIN t /\ col(i, a) \in DOMAIN t[i].slots
               /\ u[i].slots[a] = t[i].slots[col(i, a)]
               /\ i = n => col(i, a) # m
    BY <2>7, <2>8
  <2>10. OnceIn(u)
    <3> SUFFICES ASSUME NEW i \in DOMAIN u, NEW j \in DOMAIN u,
                        NEW a \in DOMAIN u[i].slots, NEW b \in DOMAIN u[j].slots,
                        u[i].slots[a] = u[j].slots[b]
                 PROVE  i = j /\ a = b
      BY DEF OnceIn
    <3>1. /\ i \in DOMAIN t /\ col(i, a) \in DOMAIN t[i].slots
          /\ j \in DOMAIN t /\ col(j, b) \in DOMAIN t[j].slots
          /\ t[i].slots[col(i, a)] = t[j].slots[col(j, b)]
      BY <2>9
    <3>2. i = j /\ col(i, a) = col(j, b)
      <4> HIDE DEF col
      <4> QED
        BY <3>1 DEF OnceIn
    <3>3. a = b
      BY <2>7, <2>8, <3>2
    <3> QED
      BY <3>2, <3>3
  <2>11. ~RegisteredIn(u, loc)
    <3> SUFFICES ASSUME NEW i \in DOMAIN u, NEW a \in DOMAIN u[i].slots, u[i].slots[a] = loc
                 PROVE  FALSE
      BY DEF RegisteredIn, Elements
    <3>1. i \in DOMAIN t /\ col(i, a) \in DOMAIN t[i].slots /\ t[i].slots[col(i, a)] = t[n].slots[m]
      BY <2>2, <2>9
    <3>2. i = n /\ col(i, a) = m
      <4> HIDE DEF col
      <4> QED
        BY <2>2, <3>1 DEF OnceIn
    <3> QED
      BY <2>9, <3>2
  <2>12. ASSUME NEW x, RegisteredIn(u, x) PROVE RegisteredIn(t, x)
    <3> HIDE DEF col
    <3> QED
      BY <2>9, <2>12 DEF RegisteredIn, Elements
  <2> QED
    BY <2>10, <2>11, <2>12 DEF u
<1> QED
  BY <1>1, <1>2

\* u is t with one more registration, of loc, at slot g of entry n.
OneMoreSlot(t, u, loc, n, g) ==
    \A i \in DOMAIN u : \A a \in DOMAIN u[i].slots :
        \/ i \in DOMAIN t /\ a \in DOMAIN t[i].slots /\ u[i].slots[a] = t[i].slots[a]
        \/ i = n /\ a = g /\ u[i].slots[a] = loc

\* nupa_weakRegister keeps the registrations unique if loc has none.
LEMMA OnceRegister ==
    ASSUME NEW t \in Seq(Entry), NEW loc \in Loc, NEW o \in Id,
           OnceIn(t), ~RegisteredIn(t, loc)
    PROVE  /\ OnceIn(weakRegister(t, loc, o))
           /\ \A x : RegisteredIn(weakRegister(t, loc, o), x) => RegisteredIn(t, x) \/ x = loc
<1> DEFINE u == weakRegister(t, loc, o)
<1>0. \A i \in DOMAIN t : \A a \in DOMAIN t[i].slots : t[i].slots[a] # loc
  BY DEF RegisteredIn, Elements
<1>1. ASSUME NEW n, NEW g, OneMoreSlot(t, u, loc, n, g)
      PROVE  OnceIn(u) /\ \A x : RegisteredIn(u, x) => RegisteredIn(t, x) \/ x = loc
  <2> HIDE DEF u
  <2>0. \A i \in DOMAIN u : \A a \in DOMAIN u[i].slots :
           \/ i \in DOMAIN t /\ a \in DOMAIN t[i].slots /\ u[i].slots[a] = t[i].slots[a]
           \/ i = n /\ a = g /\ u[i].slots[a] = loc
    BY <1>1 DEF OneMoreSlot
  <2>1. OnceIn(u)
    <3> SUFFICES ASSUME NEW i \in DOMAIN u, NEW j \in DOMAIN u,
                        NEW a \in DOMAIN u[i].slots, NEW b \in DOMAIN u[j].slots,
                        u[i].slots[a] = u[j].slots[b]
                 PROVE  i = j /\ a = b
      BY DEF OnceIn
    <3> QED
      BY <1>0, <2>0 DEF OnceIn
  <2>2. ASSUME NEW x, RegisteredIn(u, x) PROVE RegisteredIn(t, x) \/ x = loc
    BY <2>0, <2>2 DEF RegisteredIn, Elements
  <2> QED
    BY <2>1, <2>2
<1>2. CASE o = Null \/ (~HasEntry(t, o) /\ Len(t) >= MAX_WEAK_ENTRIES)
  BY <1>2 DEF weakRegister
<1>3. CASE o # Null /\ HasEntry(t, o)
  <2>1. PICK n \in DOMAIN t : n = find_entry(t, o)
    BY <1>3, FindEntry
  <2>2. t[n] \in Entry
    OBVIOUS
  <2>3. t[n].slots \in Seq(Loc)
    BY <2>2 DEF Entry
  <2>s. PICK s : s = Append(t[n].slots, loc)
    OBVIOUS
  <2>4. /\ s \in Seq(Loc) /\ DOMAIN s = 1 .. Len(t[n].slots) + 1
        /\ s[Len(t[n].slots) + 1] = loc
        /\ \A a \in DOMAIN t[n].slots : s[a] = t[n].slots[a]
    BY <2>3, <2>s, AppendElements
  <2>5. u = [t EXCEPT ![n].slots = s]
    BY <1>3, <2>1, <2>s DEF weakRegister
  <2> HIDE DEF u
  <2>6. DOMAIN u = DOMAIN t /\ u[n].slots = s /\ \A i \in DOMAIN t : i # n => u[i] = t[i]
    BY <2>4, <2>5, SlotsUpdate
  <2>7. \A a \in DOMAIN s : a \in DOMAIN t[n].slots \/ a = Len(t[n].slots) + 1
    BY <2>3, <2>4
  <2>8. ASSUME NEW i \in DOMAIN u, NEW a \in DOMAIN u[i].slots
        PROVE  \/ i \in DOMAIN t /\ a \in DOMAIN t[i].slots /\ u[i].slots[a] = t[i].slots[a]
               \/ i = n /\ a = Len(t[n].slots) + 1 /\ u[i].slots[a] = loc
    BY <2>4, <2>6, <2>7
  <2>9. OneMoreSlot(t, u, loc, n, Len(t[n].slots) + 1)
    BY <2>8 DEF OneMoreSlot
  <2> QED
    BY <1>1, <2>9 DEF u
<1>4. CASE o # Null /\ ~HasEntry(t, o) /\ Len(t) < MAX_WEAK_ENTRIES
  <2>1. PICK e : e = [object |-> o, slots |-> <<loc>>]
    OBVIOUS
  <2>2. Len(t) \in Nat /\ MAX_WEAK_ENTRIES \in Nat
    BY BoundsAreNat
  <2>3. u = Append(t, e)
    BY <1>4, <2>1, <2>2 DEF weakRegister
  <2>4. e \in Entry /\ e.slots = <<loc>>
    BY <1>4, <2>1 DEF Entry, Id
  <2> HIDE DEF u
  <2>5. /\ DOMAIN u = 1 .. Len(t) + 1 /\ DOMAIN t = 1 .. Len(t)
        /\ u[Len(t) + 1] = e /\ \A i \in DOMAIN t : u[i] = t[i]
    BY <2>3, <2>4, AppendElements
  <2>6. \A i \in DOMAIN u : i \in DOMAIN t \/ i = Len(t) + 1
    BY <2>2, <2>5
  <2>7. \A a \in DOMAIN e.slots : a = 1 /\ e.slots[a] = loc
    BY <2>4
  <2>8. OneMoreSlot(t, u, loc, Len(t) + 1, 1)
    BY <2>5, <2>6, <2>7 DEF OneMoreSlot
  <2> QED
    BY <1>1, <2>8 DEF u
<1>5. Len(t) >= MAX_WEAK_ENTRIES \/ Len(t) < MAX_WEAK_ENTRIES
  BY BoundsAreNat
<1> QED
  BY <1>2, <1>3, <1>4, <1>5

OnceInv == RegisteredOnce /\ RegisteredLocalsInScope

LEMMA OnceByTable ==
    /\ OnceInv <=> /\ OnceIn(weak_table)
                   /\ \A x \in Local : RegisteredIn(weak_table, x) => scope[x] # Out
    /\ OnceInv' <=> /\ OnceIn(weak_table')
                    /\ \A x \in Local : RegisteredIn(weak_table', x) => scope'[x] # Out
BY DEF OnceInv, RegisteredOnce, RegisteredLocalsInScope, OnceIn, RegisteredIn

\* A release only takes registrations away.
LEMMA ReleaseOnce ==
    ASSUME TypeInv, OnceInv, NEW counts, NEW o, NEW rest, ReleaseRef(counts, o, rest),
           UNCHANGED scope
    PROVE  OnceInv'
<1>1. /\ weak_table \in Seq(Entry) /\ OnceIn(weak_table)
      /\ \A x \in Local : RegisteredIn(weak_table, x) => scope[x] # Out
  BY OnceByTable DEF TypeInv, TypeOK
<1>2. CASE weak_table' = weak_table
  BY <1>1, <1>2, OnceByTable
<1>3. CASE weak_table' = weakClearAll(weak_table, o)
  <2>1. OnceIn(weak_table') /\ \A x : RegisteredIn(weak_table', x) => RegisteredIn(weak_table, x)
    BY <1>1, <1>3, OnceClear
  <2> QED
    BY <1>1, <2>1, OnceByTable
<1> QED
  BY <1>2, <1>3 DEF ReleaseRef

LEMMA OnceStep == TypeInv /\ OnceInv /\ [Next]_vars => OnceInv'
<1> SUFFICES ASSUME TypeInv, OnceInv, [Next]_vars PROVE OnceInv'
  OBVIOUS
<1>0. /\ weak_table \in Seq(Entry) /\ OnceIn(weak_table)
      /\ scope \in [Local -> Nat \cup {Out}] /\ stack \in Seq(Frame) /\ Len(stack) # Out
      /\ \A x \in Local : RegisteredIn(weak_table, x) => scope[x] # Out
  BY OnceByTable DEF TypeInv, TypeOK, Out
<1>1. CASE UNCHANGED <<weak_table, scope>>
  BY <1>0, <1>1, OnceByTable
<1>2. CASE /\ \E counts, o, rest : ReleaseRef(counts, o, rest)
           /\ UNCHANGED scope
  BY <1>2, ReleaseOnce
<1>3. ASSUME NEW l \in Local, NEW o \in Id, WeakDecl(l, o) PROVE OnceInv'
  <2>1. /\ scope[l] = Out /\ scope' = [scope EXCEPT ![l] = Len(stack)]
        /\ weak_table' = weakRegister(weak_table, l, o) /\ l \in Loc
    BY <1>3 DEF WeakDecl, Loc
  <2>2. ~RegisteredIn(weak_table, l)
    BY <1>0, <2>1
  <2>3. /\ OnceIn(weak_table')
        /\ \A x : RegisteredIn(weak_table', x) => RegisteredIn(weak_table, x) \/ x = l
    BY <1>0, <2>1, <2>2, OnceRegister
  <2>4. \A x \in Local : RegisteredIn(weak_table', x) => scope'[x] # Out
    BY <1>0, <2>1, <2>3
  <2> QED
    BY <2>3, <2>4, OnceByTable
<1>4. ASSUME NEW l \in Local, WeakScopeEnd(l) PROVE OnceInv'
  <2>1. /\ scope' = [scope EXCEPT ![l] = Out]
        /\ weak_table' = weakUnregister(weak_table, l) /\ l \in Loc
    BY <1>4 DEF WeakScopeEnd, Loc
  <2>2. /\ OnceIn(weak_table') /\ ~RegisteredIn(weak_table', l)
        /\ \A x : RegisteredIn(weak_table', x) => RegisteredIn(weak_table, x)
    BY <1>0, <2>1, OnceUnregister
  <2>3. \A x \in Local : RegisteredIn(weak_table', x) => scope'[x] # Out
    BY <1>0, <2>1, <2>2
  <2> QED
    BY <2>2, <2>3, OnceByTable
<1>5. ASSUME NEW c \in WeakHolder, NEW o \in Id, WeakIvarStore(c, o) PROVE OnceInv'
  <2>t. PICK t : t = weakUnregister(weak_table, c)
    OBVIOUS
  <2>1. /\ weak_table' = weakRegister(t, c, o) /\ scope' = scope /\ c \in Loc /\ c \notin Local
    BY <1>5, <2>t, DisjointAddresses DEF WeakIvarStore, Loc
  <2>2. /\ OnceIn(t) /\ ~RegisteredIn(t, c) /\ t \in Seq(Entry)
        /\ \A x : RegisteredIn(t, x) => RegisteredIn(weak_table, x)
    BY <1>0, <2>1, <2>t, OnceUnregister, UnregisterTable
  <2>3. /\ OnceIn(weak_table')
        /\ \A x : RegisteredIn(weak_table', x) => RegisteredIn(t, x) \/ x = c
    BY <2>1, <2>2, OnceRegister
  <2>4. \A x \in Local : RegisteredIn(weak_table', x) => scope'[x] # Out
    BY <1>0, <2>1, <2>2, <2>3
  <2> QED
    BY <2>3, <2>4, OnceByTable
<1>6. CASE Runtime
  BY <1>1, <1>2, <1>6 DEF Runtime, PopStep, PopEnd, SuperDealloc, DeallocStep, DeallocEnd,
     RemoveAllStep, RemoveAllEnd
<1>7. CASE User
  BY <1>1, <1>2, <1>3, <1>4, <1>5, <1>7 DEF User, nupa_alloc, nupa_retain, nupa_release,
     nupa_autorelease, nupa_autoreleasepoolPush, nupa_autoreleasepoolPop, LeavePool,
     removeAllObjects, insertObject, replaceObjectAtIndex, removeObjectAtIndex,
     exchangeObjectAtIndex
<1>8. CASE UNCHANGED vars
  BY <1>1, <1>8 DEF vars
<1> QED
  BY <1>6, <1>7, <1>8 DEF Next

LEMMA OnceInit == Init => OnceInv
BY DEF Init, OnceInv, RegisteredOnce, RegisteredLocalsInScope

LEMMA OnceCorrect == Spec => []OnceInv
<1>1. TypeInv /\ [Next]_vars => TypeInv'
  BY TypeStep DEF NextThrow
<1> QED
  BY TypeInit, <1>1, OnceInit, OnceStep, PTL DEF Spec

\* Programs that leave their blocks normally register no location twice, so
\* that nupa_weakUnregister leaves none of its registrations behind: whether or
\* not the table is full, and whatever became of the objects registered.
THEOREM RegistrationsUnique == Spec => []RegisteredOnce
<1>1. OnceInv => RegisteredOnce
  BY DEF OnceInv
<1> QED
  BY OnceCorrect, <1>1, PTL

\* In such programs a local that is registered is in scope: nupa_weakClearAll
\* never writes to the stack frame of a block that has ended.
THEOREM RegistrationsInScope == Spec => []RegisteredLocalsInScope
<1>1. OnceInv => RegisteredLocalsInScope
  BY DEF OnceInv
<1> QED
  BY OnceCorrect, <1>1, PTL

-----------------------------------------------------------------------------
(***************************************************************************)
(* Retain counts are the references that are still to be released, and the *)
(* runtime implements ObjectLifetime.  A reference held by a pool or an    *)
(* array is a pair of a container and a position; each step moves a loop   *)
(* past one such pair, adds or removes one, or renames some of them.       *)
(***************************************************************************)

-----------------------------------------------------------------------------
(* Counting *)

\* A renaming of the elements does not change their number.
LEMMA Renamed ==
    ASSUME NEW S, NEW T, IsFiniteSet(S), NEW f \in [S -> T],
           \A x, y \in S : f[x] = f[y] => x = y,
           \A y \in T : \E x \in S : f[x] = y
    PROVE  IsFiniteSet(T) /\ Cardinality(T) = Cardinality(S)
<1>1. f \in Bijection(S, T)
  BY Fun_IsBij
<1>2. ExistsBijection(S, T)
  BY <1>1 DEF ExistsBijection
<1> QED
  BY <1>2, FS_Bijection

\* T has the elements of S and, if it has x, x.
LEMMA OneMore ==
    ASSUME NEW S, NEW T, IsFiniteSet(S), NEW x, x \notin S, T \ {x} = S
    PROVE  /\ IsFiniteSet(T) /\ Cardinality(S) \in Nat
           /\ Cardinality(T) = Cardinality(S) + (IF x \in T THEN 1 ELSE 0)
<1>1. Cardinality(S) \in Nat
  BY FS_CardinalityType
<1>2. CASE x \in T
  <2>1. T = S \cup {x}
    BY <1>2
  <2> QED
    BY <1>1, <1>2, <2>1, FS_AddElement
<1>3. CASE x \notin T
  <2>1. T = S
    BY <1>3
  <2> QED
    BY <1>1, <1>3, <2>1
<1> QED
  BY <1>2, <1>3

-----------------------------------------------------------------------------
(* References that are still to be released, as a function of the C stack,   *)
(* the pools and the arrays                                                  *)

EntriesOf(stk, pls, o) ==
    {e \in (DOMAIN pls) \X (1 .. MaxPoolLen) :
        /\ e[2] \in DOMAIN pls[e[1]].objs /\ pls[e[1]].objs[e[2]] = o
        /\ \A p \in DOMAIN stk : stk[p].fn = "pop" /\ stk[p].pool = e[1] => e[2] >= stk[p].i}
ItemsOf(stk, allocated, its, o) ==
    {e \in allocated \X (1 .. MaxItems) :
        /\ e[2] \in DOMAIN its[e[1]] /\ its[e[1]][e[2]] = o
        /\ \A p \in DOMAIN stk :
              stk[p].fn \in {"dealloc", "removeAll"} /\ stk[p].obj = e[1] => e[2] >= stk[p].i}
PinnedBy(stk, c) ==
    \E p \in DOMAIN stk :
        /\ stk[p].fn = "removeAll" /\ stk[p].obj = c
        /\ \A q \in 1 .. p - 1 : stk[q].fn = "dealloc" => stk[q].obj # c
Pins(stk, c) == IF PinnedBy(stk, c) THEN 1 ELSE 0

\* The references to o, as Owners counts them.
Sum(h, l, stk, allocated, its, pls, o) ==
    h[o] + l[o] + Pins(stk, o) + Cardinality(EntriesOf(stk, pls, o))
    + Cardinality(ItemsOf(stk, allocated, its, o))

\* Every object has its references, and one more reference to x (if x is an
\* object) is about to be given up.
Balanced(h, l, counts, stk, allocated, its, pls, x) ==
    \A o \in Obj : Sum(h, l, stk, allocated, its, pls, o) + (IF o = x THEN 1 ELSE 0)
                      = IF o \in allocated THEN counts[o] ELSE 0

\* The sets are finite.
Bounded(allocated, its, pls) ==
    /\ IsFiniteSet(allocated)
    /\ \A k \in DOMAIN pls : Len(pls[k].objs) <= MaxPoolLen
    /\ \A c \in Obj : Len(its[c]) <= MaxItems

LEMMA FinitePending ==
    ASSUME NEW stk, NEW pls \in Seq(Pool), NEW allocated, IsFiniteSet(allocated),
           NEW its, NEW o
    PROVE  /\ IsFiniteSet(EntriesOf(stk, pls, o)) /\ IsFiniteSet(ItemsOf(stk, allocated, its, o))
           /\ Cardinality(EntriesOf(stk, pls, o)) \in Nat
           /\ Cardinality(ItemsOf(stk, allocated, its, o)) \in Nat
           /\ Pins(stk, o) \in Nat
<1>1. IsFiniteSet(1 .. MaxPoolLen) /\ IsFiniteSet(1 .. MaxItems)
  BY BoundsAreNat, FS_Interval
<1>2. IsFiniteSet(DOMAIN pls)
  <2>1. DOMAIN pls = 1 .. Len(pls) /\ Len(pls) \in Nat
    OBVIOUS
  <2> QED
    BY <2>1, FS_Interval
<1>3. IsFiniteSet((DOMAIN pls) \X (1 .. MaxPoolLen)) /\ IsFiniteSet(allocated \X (1 .. MaxItems))
  BY <1>1, <1>2, FS_Product
<1>4. /\ EntriesOf(stk, pls, o) \subseteq (DOMAIN pls) \X (1 .. MaxPoolLen)
      /\ ItemsOf(stk, allocated, its, o) \subseteq allocated \X (1 .. MaxItems)
  BY DEF EntriesOf, ItemsOf
<1>5. IsFiniteSet(EntriesOf(stk, pls, o)) /\ IsFiniteSet(ItemsOf(stk, allocated, its, o))
  BY <1>3, <1>4, FS_Subset
<1> QED
  BY <1>5, FS_CardinalityType DEF Pins

\* A frame that has passed no entry and no element changes nothing.
LEMMA AppendPending ==
    ASSUME NEW stk \in Seq(Frame), NEW f \in Frame, f.i \in {0, 1},
           NEW pls, NEW allocated, NEW its, NEW o
    PROVE  /\ EntriesOf(Append(stk, f), pls, o) = EntriesOf(stk, pls, o)
           /\ ItemsOf(Append(stk, f), allocated, its, o) = ItemsOf(stk, allocated, its, o)
           /\ f.fn # "removeAll" => Pins(Append(stk, f), o) = Pins(stk, o)
<1> DEFINE new == Append(stk, f)
<1>1. /\ DOMAIN new = 1 .. Len(stk) + 1 /\ DOMAIN stk = 1 .. Len(stk) /\ Len(stk) \in Nat
      /\ new[Len(stk) + 1] = f /\ \A p \in DOMAIN stk : new[p] = stk[p]
      /\ f.i \in Nat
  BY AppendElements DEF Frame
<1> HIDE DEF new
<1>b. MaxPoolLen \in Nat /\ MaxItems \in Nat
  BY BoundsAreNat
<1>2. \A e \in (DOMAIN pls) \X (1 .. MaxPoolLen) :
         e \in EntriesOf(new, pls, o) <=> e \in EntriesOf(stk, pls, o)
  <2> TAKE e \in (DOMAIN pls) \X (1 .. MaxPoolLen)
  <2>1. e[2] \in Nat /\ e[2] >= f.i
    BY <1>1, <1>b
  <2>2. (\A p \in DOMAIN new : new[p].fn = "pop" /\ new[p].pool = e[1] => e[2] >= new[p].i)
        <=> (\A p \in DOMAIN stk : stk[p].fn = "pop" /\ stk[p].pool = e[1] => e[2] >= stk[p].i)
    BY <1>1, <2>1
  <2> QED
    BY <2>2 DEF EntriesOf
<1>3. \A e \in allocated \X (1 .. MaxItems) :
         e \in ItemsOf(new, allocated, its, o) <=> e \in ItemsOf(stk, allocated, its, o)
  <2> TAKE e \in allocated \X (1 .. MaxItems)
  <2>1. e[2] \in Nat /\ e[2] >= f.i
    BY <1>1, <1>b
  <2>2. (\A p \in DOMAIN new : new[p].fn \in {"dealloc", "removeAll"} /\ new[p].obj = e[1]
                                 => e[2] >= new[p].i)
        <=> (\A p \in DOMAIN stk : stk[p].fn \in {"dealloc", "removeAll"} /\ stk[p].obj = e[1]
                                 => e[2] >= stk[p].i)
    BY <1>1, <2>1
  <2> QED
    BY <2>2 DEF ItemsOf
<1>4. ASSUME f.fn # "removeAll" PROVE PinnedBy(new, o) <=> PinnedBy(stk, o)
  <2>1. ASSUME NEW p \in DOMAIN stk
        PROVE  /\ p \in DOMAIN new /\ new[p] = stk[p]
               /\ \A q \in 1 .. p - 1 : new[q] = stk[q]
    BY <1>1
  <2>2. PinnedBy(new, o) => PinnedBy(stk, o)
    <3> SUFFICES ASSUME NEW p \in DOMAIN new, new[p].fn = "removeAll", new[p].obj = o,
                        \A q \in 1 .. p - 1 : new[q].fn = "dealloc" => new[q].obj # o
                 PROVE  PinnedBy(stk, o)
      BY DEF PinnedBy
    <3>1. p \in DOMAIN stk
      BY <1>1, <1>4
    <3> QED
      BY <2>1, <3>1 DEF PinnedBy
  <2>3. PinnedBy(stk, o) => PinnedBy(new, o)
    <3> SUFFICES ASSUME NEW p \in DOMAIN stk, stk[p].fn = "removeAll", stk[p].obj = o,
                        \A q \in 1 .. p - 1 : stk[q].fn = "dealloc" => stk[q].obj # o
                 PROVE  PinnedBy(new, o)
      BY DEF PinnedBy
    <3> QED
      BY <2>1 DEF PinnedBy
  <2> QED
    BY <2>2, <2>3
<1>5. EntriesOf(new, pls, o) = EntriesOf(stk, pls, o)
  BY <1>2 DEF EntriesOf
<1>6. ItemsOf(new, allocated, its, o) = ItemsOf(stk, allocated, its, o)
  BY <1>3 DEF ItemsOf
<1> QED
  BY <1>4, <1>5, <1>6 DEF Pins, new

\* What a release does to the counts, and that a dealloc it starts has not
\* passed an element yet.
LEMMA ReleasePending ==
    ASSUME NEW counts \in [Obj -> Nat], NEW x \in Obj, counts[x] # 0,
           NEW rest \in Seq(Frame), ReleaseRef(counts, x, rest)
    PROVE  /\ rc' = [counts EXCEPT ![x] = counts[x] - 1]
           /\ \A pls, o : EntriesOf(stack', pls, o) = EntriesOf(rest, pls, o)
           /\ \A allocated, its, o :
                 ItemsOf(stack', allocated, its, o) = ItemsOf(rest, allocated, its, o)
           /\ \A o : Pins(stack', o) = Pins(rest, o)
<1>1. CASE counts[x] > 1 /\ rc' = [counts EXCEPT ![x] = @ - 1] /\ stack' = rest
  BY <1>1
<1>2. CASE /\ counts[x] <= 1 /\ rc' = [counts EXCEPT ![x] = 0]
           /\ stack' = Append(rest, [fn |-> "dealloc", obj |-> x, pool |-> 0, i |-> 0])
  <2>1. counts[x] - 1 = 0
    BY <1>2
  <2>2. PICK f \in Frame : f = [fn |-> "dealloc", obj |-> x, pool |-> 0, i |-> 0]
    BY DEF Frame, Id
  <2>3. f.i \in {0, 1} /\ f.fn # "removeAll" /\ stack' = Append(rest, f)
    BY <1>2, <2>2
  <2>4. rc' = [counts EXCEPT ![x] = counts[x] - 1]
    BY <1>2, <2>1
  <2>5. ASSUME NEW pls, NEW allocated, NEW its, NEW o
        PROVE  /\ EntriesOf(Append(rest, f), pls, o) = EntriesOf(rest, pls, o)
               /\ ItemsOf(Append(rest, f), allocated, its, o) = ItemsOf(rest, allocated, its, o)
               /\ Pins(Append(rest, f), o) = Pins(rest, o)
    BY <2>3, AppendPending
  <2> QED
    BY <2>3, <2>4, <2>5
<1> QED
  BY <1>1, <1>2 DEF ReleaseRef

LEMMA SumNat ==
    ASSUME NEW h \in [Obj -> Nat], NEW l \in [Obj -> Nat], NEW stk, NEW pls \in Seq(Pool),
           NEW allocated, IsFiniteSet(allocated), NEW its, NEW o \in Obj
    PROVE  Sum(h, l, stk, allocated, its, pls, o) \in Nat
<1>1. h[o] \in Nat /\ l[o] \in Nat
  OBVIOUS
<1> QED
  BY <1>1, FinitePending DEF Sum

LEMMA RcIsBalanced ==
    TypeOK /\ IsFiniteSet(heap)
      => (RcIsOwners <=> Balanced(held, lost, rc, stack, heap, items, pools, Null))
<1> SUFFICES ASSUME TypeOK, IsFiniteSet(heap)
             PROVE  RcIsOwners <=> Balanced(held, lost, rc, stack, heap, items, pools, Null)
  OBVIOUS
<1>1. ASSUME NEW o \in Obj
      PROVE  /\ Owners(o) = Sum(held, lost, stack, heap, items, pools, o)
             /\ Sum(held, lost, stack, heap, items, pools, o) \in Nat
  <2>1. {e \in (DOMAIN pools) \X (1 .. MaxPoolLen) :
            PendingEntry(e[1], e[2]) /\ pools[e[1]].objs[e[2]] = o} = EntriesOf(stack, pools, o)
    <3>1. \A e \in (DOMAIN pools) \X (1 .. MaxPoolLen) :
             e \in EntriesOf(stack, pools, o)
               <=> PendingEntry(e[1], e[2]) /\ pools[e[1]].objs[e[2]] = o
      BY DEF EntriesOf, PendingEntry, Elements
    <3> QED
      BY <3>1 DEF EntriesOf
  <2>2. {e \in heap \X (1 .. MaxItems) :
            PendingItem(e[1], e[2]) /\ items[e[1]][e[2]] = o} = ItemsOf(stack, heap, items, o)
    <3>1. \A e \in heap \X (1 .. MaxItems) :
             e \in ItemsOf(stack, heap, items, o)
               <=> PendingItem(e[1], e[2]) /\ items[e[1]][e[2]] = o
      BY DEF ItemsOf, PendingItem, Elements
    <3> QED
      BY <3>1 DEF ItemsOf
  <2>3. Sum(held, lost, stack, heap, items, pools, o) \in Nat
    BY SumNat DEF TypeOK
  <2> QED
    BY <2>1, <2>2, <2>3 DEF Owners, Sum, Pins, Pinned, PinnedBy
<1>2. Null \notin Obj
  BY DisjointAddresses
<1> QED
  BY <1>1, <1>2 DEF RcIsOwners, Balanced

\* A release keeps the balance.
LEMMA ReleaseBalanced ==
    ASSUME NEW h \in [Obj -> Nat], NEW l \in [Obj -> Nat], NEW pls \in Seq(Pool),
           NEW allocated, IsFiniteSet(allocated), NEW its,
           NEW counts \in [Obj -> Nat], NEW x \in Obj, x \in allocated, counts[x] # 0,
           NEW rest \in Seq(Frame), ReleaseRef(counts, x, rest),
           Balanced(h, l, counts, rest, allocated, its, pls, x)
    PROVE  Balanced(h, l, rc', stack', allocated, its, pls, Null)
<1> SUFFICES ASSUME NEW o \in Obj
             PROVE  Sum(h, l, stack', allocated, its, pls, o)
                       = IF o \in allocated THEN rc'[o] ELSE 0
  <2>1. Null \notin Obj
    BY DisjointAddresses
  <2>2. \A o \in Obj : Sum(h, l, stack', allocated, its, pls, o) \in Nat
    BY SumNat
  <2> QED
    BY <2>1, <2>2 DEF Balanced
<1>0. /\ rc' = [counts EXCEPT ![x] = counts[x] - 1]
      /\ \A ps, y : EntriesOf(stack', ps, y) = EntriesOf(rest, ps, y)
      /\ \A al, is, y : ItemsOf(stack', al, is, y) = ItemsOf(rest, al, is, y)
      /\ \A y : Pins(stack', y) = Pins(rest, y)
  BY ReleasePending
<1>a. EntriesOf(stack', pls, o) = EntriesOf(rest, pls, o)
  BY ONLY <1>0
<1>b. ItemsOf(stack', allocated, its, o) = ItemsOf(rest, allocated, its, o)
  BY ONLY <1>0
<1>c. Pins(stack', o) = Pins(rest, o)
  BY ONLY <1>0
<1>2. Sum(h, l, stack', allocated, its, pls, o) = Sum(h, l, rest, allocated, its, pls, o)
  BY <1>a, <1>b, <1>c DEF Sum
<1>3. Sum(h, l, rest, allocated, its, pls, o) + (IF o = x THEN 1 ELSE 0)
         = IF o \in allocated THEN counts[o] ELSE 0
  BY DEF Balanced
<1>4. Sum(h, l, rest, allocated, its, pls, o) \in Nat
  BY SumNat
<1>5. rc'[o] = IF o = x THEN counts[x] - 1 ELSE counts[o]
  BY <1>0
<1>6. counts[x] \in Nat /\ counts[o] \in Nat
  OBVIOUS
<1> QED
  BY <1>2, <1>3, <1>4, <1>5, <1>6

-----------------------------------------------------------------------------
(* The invariant                                                             *)

\* A pop has gone no further than the end of its pool.
PopsInPools(stk, pls) ==
    \A p \in DOMAIN stk : stk[p].fn = "pop" => stk[p].i <= Len(pls[stk[p].pool].objs) + 1

CountInv ==
    /\ TypeInv /\ WeakIndInv
    /\ Bounded(heap, items, pools) /\ PopsInPools(stack, pools)
    /\ RcIsOwners

LEMMA CountsAreRefs ==
    CountInv => /\ StrongRefsLive
                /\ Balanced(held, lost, rc, stack, heap, items, pools, Null)
<1> SUFFICES ASSUME CountInv
             PROVE  /\ StrongRefsLive
                    /\ Balanced(held, lost, rc, stack, heap, items, pools, Null)
  OBVIOUS
<1>1. TypeOK /\ IsFiniteSet(heap) /\ Bounded(heap, items, pools)
  BY DEF CountInv, Bounded, TypeInv
<1>2. Balanced(held, lost, rc, stack, heap, items, pools, Null)
  BY <1>1, RcIsBalanced DEF CountInv
<1>3. ASSUME NEW o \in Obj, StrongRef(o) PROVE Live(o)
  <2>1. /\ IsFiniteSet(EntriesOf(stack, pools, o)) /\ IsFiniteSet(ItemsOf(stack, heap, items, o))
        /\ Cardinality(EntriesOf(stack, pools, o)) \in Nat
        /\ Cardinality(ItemsOf(stack, heap, items, o)) \in Nat
        /\ Pins(stack, o) \in Nat /\ held[o] \in Nat /\ lost[o] \in Nat
    BY <1>1, FinitePending DEF TypeOK
  <2>2. CASE held[o] > 0
    <3>1. Sum(held, lost, stack, heap, items, pools, o) > 0
      BY <2>1, <2>2 DEF Sum
    <3> QED
      BY <1>2, <3>1, <2>1, DisjointAddresses DEF Balanced, Live, Sum
  <2>3. CASE Pinned(o)
    <3>1. Pins(stack, o) = 1
      BY <2>3 DEF Pins, Pinned, PinnedBy
    <3>2. Sum(held, lost, stack, heap, items, pools, o) > 0
      BY <2>1, <3>1 DEF Sum
    <3> QED
      BY <1>2, <3>2, <2>1, DisjointAddresses DEF Balanced, Live, Sum
  <2>4. ASSUME NEW k \in DOMAIN pools, NEW j \in DOMAIN pools[k].objs,
               PendingEntry(k, j), pools[k].objs[j] = o
        PROVE  Live(o)
    <3>1. j \in 1 .. MaxPoolLen
      <4>1. pools[k].objs \in Seq(Obj) /\ Len(pools[k].objs) <= MaxPoolLen
        BY <1>1, PoolObjs DEF CountInv, Bounded
      <4> QED
        BY <4>1, BoundsAreNat
    <3>2. <<k, j>> \in EntriesOf(stack, pools, o)
      BY <2>4, <3>1 DEF EntriesOf, PendingEntry, Elements
    <3>3. Cardinality(EntriesOf(stack, pools, o)) # 0
      BY <2>1, <3>2, FS_EmptySet
    <3>4. Sum(held, lost, stack, heap, items, pools, o) > 0
      BY <2>1, <3>3 DEF Sum
    <3> QED
      BY <1>2, <3>4, <2>1, DisjointAddresses DEF Balanced, Live, Sum
  <2>5. ASSUME NEW c \in heap, NEW j \in DOMAIN items[c], PendingItem(c, j), items[c][j] = o
        PROVE  Live(o)
    <3>1. j \in 1 .. MaxItems
      <4>1. items[c] \in Seq(Obj) /\ Len(items[c]) <= MaxItems
        BY <1>1 DEF TypeOK, Bounded
      <4> QED
        BY <4>1, BoundsAreNat
    <3>2. <<c, j>> \in ItemsOf(stack, heap, items, o)
      BY <2>5, <3>1 DEF ItemsOf, PendingItem, Elements
    <3>3. Cardinality(ItemsOf(stack, heap, items, o)) # 0
      BY <2>1, <3>2, FS_EmptySet
    <3>4. Sum(held, lost, stack, heap, items, pools, o) > 0
      BY <2>1, <3>3 DEF Sum
    <3> QED
      BY <1>2, <3>4, <2>1, DisjointAddresses DEF Balanced, Live, Sum
  <2> QED
    BY <1>3, <2>2, <2>3, <2>4, <2>5 DEF StrongRef
<1>4. StrongRefsLive
  BY <1>3 DEF StrongRefsLive
<1> QED
  BY <1>2, <1>4
-----------------------------------------------------------------------------
(* What the moves of a loop and its end do to the references that are        *)
(* pending                                                                   *)

Moved(stk, i) == [stk EXCEPT ![Len(stk)].i = i]
EntriesLeft(stk, pls, o) ==
    IF stk[Len(stk)].fn = "pop"
    THEN EntriesOf(stk, pls, o) \ {<<stk[Len(stk)].pool, stk[Len(stk)].i>>}
    ELSE EntriesOf(stk, pls, o)
ItemsLeft(stk, allocated, its, o) ==
    IF stk[Len(stk)].fn = "pop" THEN ItemsOf(stk, allocated, its, o)
    ELSE ItemsOf(stk, allocated, its, o) \ {<<stk[Len(stk)].obj, stk[Len(stk)].i>>}

\* A round of a loop passes the element it works on, and no other.
LEMMA ResumePending ==
    ASSUME NEW stk \in Seq(Frame), stk # <<>>, NEW m, m = stk[Len(stk)].i + 1,
           NEW pls, NEW allocated, NEW its, NEW o
    PROVE  /\ EntriesOf(Moved(stk, m), pls, o) = EntriesLeft(stk, pls, o)
           /\ ItemsOf(Moved(stk, m), allocated, its, o) = ItemsLeft(stk, allocated, its, o)
           /\ Pins(Moved(stk, m), o) = Pins(stk, o)
<1> DEFINE n == Len(stk)
           i == stk[n].i
           f == stk[n]
           new == [stk EXCEPT ![n].i = i + 1]
<1>i. i \in Nat
  <2>1. stk[n] \in Frame
    OBVIOUS
  <2> QED
    BY <2>1 DEF Frame
<1>j. i = stk[n].i
  OBVIOUS
<1> HIDE DEF i
<1>1. /\ DOMAIN new = DOMAIN stk /\ n \in DOMAIN stk /\ DOMAIN stk = 1 .. n /\ n \in Nat
      /\ new \in Seq(Frame)
      /\ \A p \in DOMAIN stk : /\ p # n => new[p] = stk[p]
                               /\ new[p].fn = stk[p].fn
                               /\ new[p].obj = stk[p].obj /\ new[p].pool = stk[p].pool
      /\ new[n].i = i + 1 /\ stk[n].i = i
  <2>1. n \in DOMAIN stk /\ DOMAIN stk = 1 .. n /\ n \in Nat
    OBVIOUS
  <2>2. i + 1 \in Nat
    BY <1>i
  <2> QED
    BY <1>j, <2>1, <2>2, ResumeShape
<1>2. \A p \in DOMAIN stk : /\ stk[p].fn \in {"dealloc", "removeAll", "pop"}
                            /\ p # n => new[p].i = stk[p].i
  <2> SUFFICES ASSUME NEW p \in DOMAIN stk
               PROVE  /\ stk[p].fn \in {"dealloc", "removeAll", "pop"}
                      /\ p # n => new[p].i = stk[p].i
    OBVIOUS
  <2>1. stk[p] \in Frame /\ (p # n => new[p] = stk[p])
    BY <1>1
  <2> QED
    BY ONLY <2>1 DEF Frame
<1>b. MaxPoolLen \in Nat /\ MaxItems \in Nat
  BY BoundsAreNat
<1>f. f = stk[n]
  OBVIOUS
<1> HIDE DEF new, f
<1>3. ASSUME NEW e \in (DOMAIN pls) \X (1 .. MaxPoolLen)
      PROVE  (\A p \in DOMAIN new : new[p].fn = "pop" /\ new[p].pool = e[1] => e[2] >= new[p].i)
             <=> /\ \A p \in DOMAIN stk : stk[p].fn = "pop" /\ stk[p].pool = e[1]
                                            => e[2] >= stk[p].i
                 /\ f.fn = "pop" => e # <<f.pool, i>>
  <2>1. e[2] \in Nat /\ e = <<e[1], e[2]>> /\ i \in Nat
    BY <1>b, <1>i
  <2>2. (\A p \in DOMAIN new : new[p].fn = "pop" /\ new[p].pool = e[1] => e[2] >= new[p].i)
        <=> /\ \A p \in DOMAIN stk \ {n} : stk[p].fn = "pop" /\ stk[p].pool = e[1]
                                            => e[2] >= stk[p].i
            /\ f.fn = "pop" /\ f.pool = e[1] => e[2] >= i + 1
    BY <1>1, <1>2, <1>f
  <2>3. (\A p \in DOMAIN stk : stk[p].fn = "pop" /\ stk[p].pool = e[1] => e[2] >= stk[p].i)
        <=> /\ \A p \in DOMAIN stk \ {n} : stk[p].fn = "pop" /\ stk[p].pool = e[1]
                                            => e[2] >= stk[p].i
            /\ f.fn = "pop" /\ f.pool = e[1] => e[2] >= i
    BY <1>1, <1>f
  <2>4. e[2] >= i + 1 <=> e[2] >= i /\ e[2] # i
    BY <2>1
  <2>5. e = <<f.pool, i>> <=> e[1] = f.pool /\ e[2] = i
    BY <2>1
  <2> QED
    BY <2>2, <2>3, <2>4, <2>5
<1>4. ASSUME NEW e \in allocated \X (1 .. MaxItems)
      PROVE  (\A p \in DOMAIN new : new[p].fn \in {"dealloc", "removeAll"} /\ new[p].obj = e[1]
                                       => e[2] >= new[p].i)
             <=> /\ \A p \in DOMAIN stk :
                       stk[p].fn \in {"dealloc", "removeAll"} /\ stk[p].obj = e[1]
                          => e[2] >= stk[p].i
                 /\ f.fn # "pop" => e # <<f.obj, i>>
  <2>1. e[2] \in Nat /\ e = <<e[1], e[2]>> /\ i \in Nat
    BY <1>b, <1>i
  <2>2. (\A p \in DOMAIN new : new[p].fn \in {"dealloc", "removeAll"} /\ new[p].obj = e[1]
                                  => e[2] >= new[p].i)
        <=> /\ \A p \in DOMAIN stk \ {n} :
                  stk[p].fn \in {"dealloc", "removeAll"} /\ stk[p].obj = e[1]
                     => e[2] >= stk[p].i
            /\ f.fn # "pop" /\ f.obj = e[1] => e[2] >= i + 1
    BY <1>1, <1>2, <1>f
  <2>3. (\A p \in DOMAIN stk : stk[p].fn \in {"dealloc", "removeAll"} /\ stk[p].obj = e[1]
                                  => e[2] >= stk[p].i)
        <=> /\ \A p \in DOMAIN stk \ {n} :
                  stk[p].fn \in {"dealloc", "removeAll"} /\ stk[p].obj = e[1]
                     => e[2] >= stk[p].i
            /\ f.fn # "pop" /\ f.obj = e[1] => e[2] >= i
    BY <1>1, <1>2, <1>f
  <2>4. e[2] >= i + 1 <=> e[2] >= i /\ e[2] # i
    BY <2>1
  <2>5. e = <<f.obj, i>> <=> e[1] = f.obj /\ e[2] = i
    BY <2>1
  <2> QED
    BY <2>2, <2>3, <2>4, <2>5
<1>5. EntriesOf(new, pls, o) = IF f.fn = "pop" THEN EntriesOf(stk, pls, o) \ {<<f.pool, i>>}
                               ELSE EntriesOf(stk, pls, o)
  <2>1. \A e \in (DOMAIN pls) \X (1 .. MaxPoolLen) :
           e \in EntriesOf(new, pls, o)
             <=> e \in EntriesOf(stk, pls, o) /\ (f.fn = "pop" => e # <<f.pool, i>>)
    BY <1>3 DEF EntriesOf
  <2>2. /\ EntriesOf(new, pls, o) \subseteq (DOMAIN pls) \X (1 .. MaxPoolLen)
        /\ EntriesOf(stk, pls, o) \subseteq (DOMAIN pls) \X (1 .. MaxPoolLen)
    BY DEF EntriesOf
  <2> QED
    BY <2>1, <2>2
<1>6. ItemsOf(new, allocated, its, o) =
         IF f.fn = "pop" THEN ItemsOf(stk, allocated, its, o)
         ELSE ItemsOf(stk, allocated, its, o) \ {<<f.obj, i>>}
  <2>1. \A e \in allocated \X (1 .. MaxItems) :
           e \in ItemsOf(new, allocated, its, o)
             <=> e \in ItemsOf(stk, allocated, its, o) /\ (f.fn # "pop" => e # <<f.obj, i>>)
    BY <1>4 DEF ItemsOf
  <2>2. /\ ItemsOf(new, allocated, its, o) \subseteq allocated \X (1 .. MaxItems)
        /\ ItemsOf(stk, allocated, its, o) \subseteq allocated \X (1 .. MaxItems)
    BY DEF ItemsOf
  <2> QED
    BY <2>1, <2>2
<1>7. PinnedBy(new, o) <=> PinnedBy(stk, o)
  <2>1. ASSUME NEW p \in DOMAIN stk
        PROVE  /\ new[p].fn = stk[p].fn /\ new[p].obj = stk[p].obj
               /\ \A q \in 1 .. p - 1 : new[q].fn = stk[q].fn /\ new[q].obj = stk[q].obj
    BY <1>1
  <2>2. DOMAIN new = DOMAIN stk
    BY <1>1
  <2>3. ASSUME NEW p \in DOMAIN stk
        PROVE  (\A q \in 1 .. p - 1 : new[q].fn = "dealloc" => new[q].obj # o)
               <=> (\A q \in 1 .. p - 1 : stk[q].fn = "dealloc" => stk[q].obj # o)
    BY ONLY <2>1, <2>3
  <2> QED
    BY ONLY <2>1, <2>2, <2>3 DEF PinnedBy
<1>8. Pins(new, o) = Pins(stk, o)
  BY <1>7 DEF Pins
<1> QED
  BY <1>5, <1>6, <1>8 DEF new, f, i, Moved, EntriesLeft, ItemsLeft

\* f has passed every element of its array, which is then emptied or freed.
Emptied(f, allocated, after, its, left) ==
    /\ f.fn # "pop" /\ f.i > Len(its[f.obj]) /\ its[f.obj] \in Seq(Obj)
    /\ left[f.obj] = <<>> /\ allocated \ {f.obj} = after \ {f.obj}
    /\ \A c \in after \cup allocated : c # f.obj => left[c] = its[c]

\* The return from a call.
LEMMA ReturnPending ==
    ASSUME NEW stk \in Seq(Frame), stk # <<>>, NEW pls, NEW allocated, NEW after,
           NEW its, NEW left, NEW o
    PROVE  LET new == SubSeq(stk, 1, Len(stk) - 1)
               f == stk[Len(stk)]
           IN  /\ f.fn # "pop" => EntriesOf(new, pls, o) = EntriesOf(stk, pls, o)
               /\ f.fn = "pop" => ItemsOf(new, allocated, its, o) = ItemsOf(stk, allocated, its, o)
               /\ Emptied(f, allocated, after, its, left)
                     => ItemsOf(new, after, left, o) = ItemsOf(stk, allocated, its, o)
               /\ f.fn # "removeAll" \/ o # f.obj => Pins(new, o) = Pins(stk, o)
<1> DEFINE n == Len(stk)
           f == stk[n]
           new == SubSeq(stk, 1, n - 1)
<1>1. /\ n \in Nat /\ n \in DOMAIN stk /\ DOMAIN stk = 1 .. n /\ DOMAIN new = 1 .. n - 1
      /\ \A p \in 1 .. n - 1 : new[p] = stk[p]
      /\ f \in Frame
  <2>1. n \in Nat /\ n \in DOMAIN stk /\ DOMAIN stk = 1 .. n /\ n - 1 \in 0 .. n
    OBVIOUS
  <2>2. DOMAIN new = 1 .. n - 1 /\ \A p \in 1 .. n - 1 : new[p] = stk[p]
    BY <2>1, Prefix
  <2> QED
    BY <2>1, <2>2
<1>f. f = stk[n] /\ f.fn \in {"dealloc", "removeAll", "pop"} /\ f.i \in Nat
  BY <1>1 DEF Frame
<1>s. \A p : p \in DOMAIN stk <=> p \in DOMAIN new \/ p = n
  BY <1>1
<1>b. MaxItems \in Nat
  BY BoundsAreNat
<1> HIDE DEF new, f
<1>2. ASSUME f.fn # "pop" PROVE EntriesOf(new, pls, o) = EntriesOf(stk, pls, o)
  <2>1. \A e \in (DOMAIN pls) \X (1 .. MaxPoolLen) :
           e \in EntriesOf(new, pls, o) <=> e \in EntriesOf(stk, pls, o)
    BY <1>1, <1>s, <1>f, <1>2 DEF EntriesOf
  <2> QED
    BY <2>1 DEF EntriesOf
<1>3. ASSUME f.fn = "pop"
      PROVE  ItemsOf(new, allocated, its, o) = ItemsOf(stk, allocated, its, o)
  <2>1. \A e \in allocated \X (1 .. MaxItems) :
           e \in ItemsOf(new, allocated, its, o) <=> e \in ItemsOf(stk, allocated, its, o)
    BY <1>1, <1>s, <1>f, <1>3 DEF ItemsOf
  <2> QED
    BY <2>1 DEF ItemsOf
<1>4. Emptied(f, allocated, after, its, left)
         => ItemsOf(new, after, left, o) = ItemsOf(stk, allocated, its, o)
  <2>0. SUFFICES ASSUME f.fn # "pop", f.i > Len(its[f.obj]), its[f.obj] \in Seq(Obj),
                        left[f.obj] = <<>>,
                        \A c \in after \cup allocated : c # f.obj => left[c] = its[c],
                        allocated \ {f.obj} = after \ {f.obj}
                 PROVE  ItemsOf(new, after, left, o) = ItemsOf(stk, allocated, its, o)
    BY DEF Emptied
  <2>1. ASSUME NEW e \in ItemsOf(new, after, left, o)
        PROVE  e \in ItemsOf(stk, allocated, its, o)
    <3>1. /\ e \in after \X (1 .. MaxItems) /\ e[2] \in DOMAIN left[e[1]] /\ left[e[1]][e[2]] = o
          /\ \A p \in DOMAIN new : new[p].fn \in {"dealloc", "removeAll"} /\ new[p].obj = e[1]
                                      => e[2] >= new[p].i
      BY DEF ItemsOf
    <3>2. e[1] # f.obj
      BY <2>0, <3>1
    <3>3. e[1] \in allocated /\ left[e[1]] = its[e[1]] /\ e \in allocated \X (1 .. MaxItems)
      BY <2>0, <3>1, <3>2
    <3>4. \A p \in DOMAIN stk : stk[p].fn \in {"dealloc", "removeAll"} /\ stk[p].obj = e[1]
                                   => e[2] >= stk[p].i
      BY <1>1, <1>s, <1>f, <3>1, <3>2
    <3> QED
      BY <3>1, <3>3, <3>4 DEF ItemsOf
  <2>2. ASSUME NEW e \in ItemsOf(stk, allocated, its, o)
        PROVE  e \in ItemsOf(new, after, left, o)
    <3>1. /\ e \in allocated \X (1 .. MaxItems) /\ e[2] \in DOMAIN its[e[1]] /\ its[e[1]][e[2]] = o
          /\ \A p \in DOMAIN stk : stk[p].fn \in {"dealloc", "removeAll"} /\ stk[p].obj = e[1]
                                      => e[2] >= stk[p].i
      BY DEF ItemsOf
    <3>2. e[1] # f.obj
      <4>1. SUFFICES ASSUME e[1] = f.obj PROVE FALSE
        OBVIOUS
      <4>2. e[2] >= f.i
        BY <1>1, <1>f, <2>0, <3>1, <4>1
      <4>3. e[2] \in 1 .. Len(its[f.obj]) /\ Len(its[f.obj]) \in Nat
        BY <2>0, <3>1, <4>1
      <4> QED
        BY <1>f, <2>0, <4>2, <4>3
    <3>3. e[1] \in after /\ left[e[1]] = its[e[1]] /\ e \in after \X (1 .. MaxItems)
      BY <2>0, <3>1, <3>2
    <3>4. \A p \in DOMAIN new : new[p].fn \in {"dealloc", "removeAll"} /\ new[p].obj = e[1]
                                   => e[2] >= new[p].i
      BY <1>1, <1>s, <3>1
    <3> QED
      BY <3>1, <3>3, <3>4 DEF ItemsOf
  <2> QED
    BY <2>1, <2>2
<1>5. ASSUME f.fn # "removeAll" \/ o # f.obj PROVE PinnedBy(new, o) <=> PinnedBy(stk, o)
  <2>1. ASSUME NEW p \in DOMAIN new
        PROVE  /\ new[p] = stk[p]
               /\ (\A q \in 1 .. p - 1 : new[q].fn = "dealloc" => new[q].obj # o)
                  <=> (\A q \in 1 .. p - 1 : stk[q].fn = "dealloc" => stk[q].obj # o)
    <3>1. new[p] = stk[p] /\ \A q \in 1 .. p - 1 : new[q] = stk[q]
      BY <1>1
    <3> QED
      BY ONLY <3>1
  <2>2. PinnedBy(stk, o) <=> \E p \in DOMAIN new :
           /\ stk[p].fn = "removeAll" /\ stk[p].obj = o
           /\ \A q \in 1 .. p - 1 : stk[q].fn = "dealloc" => stk[q].obj # o
    BY <1>s, <1>f, <1>5 DEF PinnedBy
  <2> QED
    BY ONLY <2>1, <2>2 DEF PinnedBy
<1>6. f.fn # "removeAll" \/ o # f.obj => Pins(new, o) = Pins(stk, o)
  BY <1>5 DEF Pins
<1> QED
  BY <1>2, <1>3, <1>4, <1>6 DEF new, f

-----------------------------------------------------------------------------
(* What the operations of an array do to the references that are pending     *)

\* No loop over the array has passed an element of it.
Quiet(stk, c) ==
    \A p \in DOMAIN stk : stk[p].fn \in {"dealloc", "removeAll"} /\ stk[p].obj = c => stk[p].i = 0

LEMMA ReceiverQuiet ==
    ASSUME TypeInv, WeakIndInv, StrongRefsLive, NEW c \in Obj, Receiver(c)
    PROVE  Quiet(stack, c)
<1>0. stack \in Seq(Frame) /\ rc \in [Obj -> Nat] /\ Distinct(stack, heap, rc)
      /\ EntriesWellFormed /\ Registered /\ c # Null
  BY DisjointAddresses DEF TypeInv, TypeOK, WeakIndInv, DeallocsDistinct
<1> SUFFICES ASSUME NEW p \in DOMAIN stack, stack[p].fn \in {"dealloc", "removeAll"},
                    stack[p].obj = c
             PROVE  stack[p].i = 0
  BY DEF Quiet
<1>1. stack[p].fn = "dealloc"
  BY DEF Receiver, Draining, Elements
<1>2. rc[c] = 0
  BY <1>0, <1>1 DEF Distinct
<1>3. c \notin Referenced
  BY <1>0, <1>2, ReferencedAlive DEF Live
<1>4. c = Self /\ UserRuns
  BY <1>3 DEF Receiver
<1>5. stack # <<>> /\ Top.obj = c /\ Top.fn = "dealloc" /\ Top.i = 0
  BY <1>0, <1>4 DEF Self, UserRuns
<1>6. Len(stack) \in DOMAIN stack
  BY <1>5, TopFrame
<1>7. p = Len(stack)
  BY <1>0, <1>1, <1>5, <1>6 DEF Distinct, Top
<1> QED
  BY <1>5, <1>7 DEF Top

\* The entries of a quiet array, and of the arrays that an operation on
\* another one leaves alone.
LEMMA ArrayPending ==
    ASSUME NEW stk, NEW allocated, NEW its, NEW o, NEW e \in allocated \X (1 .. MaxItems)
    PROVE  /\ Quiet(stk, e[1]) =>
                (e \in ItemsOf(stk, allocated, its, o)
                   <=> e[2] \in DOMAIN its[e[1]] /\ its[e[1]][e[2]] = o)
           /\ \A other : other[e[1]] = its[e[1]] =>
                (e \in ItemsOf(stk, allocated, its, o) <=> e \in ItemsOf(stk, allocated, other, o))
<1>1. e[2] \in Nat
  BY BoundsAreNat
<1>2. Quiet(stk, e[1]) =>
         \A p \in DOMAIN stk : stk[p].fn \in {"dealloc", "removeAll"} /\ stk[p].obj = e[1]
                                  => e[2] >= stk[p].i
  BY <1>1 DEF Quiet
<1> QED
  BY <1>2 DEF ItemsOf

\* r is q with x inserted at j.
Inserted(q, r, j, x) ==
    /\ Len(r) = Len(q) + 1 /\ j \in 1 .. Len(r) /\ r[j] = x
    /\ \A m \in 1 .. Len(q) : /\ m < j => r[m] = q[m]
                              /\ m >= j => r[m + 1] = q[m]

LEMMA InsertDelete ==
    ASSUME NEW q \in Seq(Obj), NEW j \in Nat
    PROVE  /\ \A o \in Obj : j \in 1 .. Len(q) + 1 => Inserted(q, InsertAt(q, j, o), j, o)
           /\ j \in 1 .. Len(q) => Inserted(DeleteAt(q, j), q, j, q[j])
<1>1. ASSUME NEW o \in Obj, j \in 1 .. Len(q) + 1
      PROVE  Inserted(q, InsertAt(q, j, o), j, o)
  <2> DEFINE a == SubSeq(q, 1, j - 1)
             b == SubSeq(q, j, Len(q))
  <2>1. a \in Seq(Obj) /\ Len(a) = j - 1 /\ \A m \in 1 .. j - 1 : a[m] = q[m]
    BY <1>1
  <2>2. /\ b \in Seq(Obj) /\ Len(b) = Len(q) - j + 1
        /\ \A m \in 1 .. Len(q) - j + 1 : b[m] = q[j + m - 1]
    BY <1>1
  <2> HIDE DEF a, b
  <2> DEFINE u == <<o>>
             d == a \o u
             r == d \o b
  <2>u. u \in Seq(Obj) /\ Len(u) = 1 /\ u[1] = o
    OBVIOUS
  <2> HIDE DEF u
  <2>3. /\ d \in Seq(Obj) /\ Len(d) = Len(a) + Len(u)
        /\ \A m \in 1 .. Len(a) : d[m] = a[m]
        /\ \A m \in 1 .. Len(u) : d[Len(a) + m] = u[m]
    <3>1. a \in Seq(Obj) /\ u \in Seq(Obj)
      BY <2>1, <2>u
    <3> QED
      BY ONLY <3>1, ConcatProperties
  <2> HIDE DEF d
  <2>4. Len(d) = j /\ d[j] = o /\ \A m \in 1 .. j - 1 : d[m] = q[m]
    BY <1>1, <2>1, <2>u, <2>3
  <2>5. /\ r \in Seq(Obj) /\ Len(r) = Len(d) + Len(b)
        /\ \A m \in 1 .. Len(d) : r[m] = d[m]
        /\ \A m \in 1 .. Len(b) : r[Len(d) + m] = b[m]
    <3>1. d \in Seq(Obj) /\ b \in Seq(Obj)
      BY <2>2, <2>3
    <3> QED
      BY ONLY <3>1, ConcatProperties
  <2> HIDE DEF r
  <2>6. /\ Len(r) = Len(d) + Len(b)
        /\ \A m \in 1 .. Len(d) : r[m] = d[m]
        /\ \A m \in 1 .. Len(b) : r[m + Len(d)] = b[m]
    <3>1. Len(d) \in Nat
      BY <2>3
    <3> QED
      BY ONLY <2>5, <3>1
  <2>7. ASSUME NEW m \in 1 .. Len(q)
        PROVE  /\ m < j => r[m] = q[m]
               /\ m >= j => r[m + 1] = q[m]
    <3>1. CASE m < j
      BY <1>1, <2>4, <2>6, <3>1
    <3>2. CASE m >= j
      <4>1. m - j + 1 \in 1 .. Len(b) /\ (m - j + 1) + Len(d) = m + 1
        BY <1>1, <2>2, <2>4, <3>2
      <4>2. r[(m - j + 1) + Len(d)] = b[m - j + 1]
        BY <2>6, <4>1
      <4>3. b[m - j + 1] = q[j + (m - j + 1) - 1] /\ j + (m - j + 1) - 1 = m
        BY <1>1, <2>2, <2>4, <4>1
      <4> QED
        BY <3>2, <4>1, <4>2, <4>3
    <3> QED
      BY <3>1, <3>2
  <2>8. Len(r) = Len(q) + 1 /\ j \in 1 .. Len(r) /\ r[j] = o
    BY <1>1, <2>2, <2>4, <2>6
  <2>9. InsertAt(q, j, o) = r
    BY DEF InsertAt, a, b, u, d, r
  <2> QED
    BY ONLY <2>7, <2>8, <2>9 DEF Inserted
<1>2. ASSUME j \in 1 .. Len(q)
      PROVE  Inserted(DeleteAt(q, j), q, j, q[j])
  <2> DEFINE a == SubSeq(q, 1, j - 1)
             b == SubSeq(q, j + 1, Len(q))
  <2>1. a \in Seq(Obj) /\ Len(a) = j - 1 /\ \A m \in 1 .. j - 1 : a[m] = q[m]
    BY <1>2
  <2>2. /\ b \in Seq(Obj) /\ Len(b) = Len(q) - j
        /\ \A m \in 1 .. Len(q) - j : b[m] = q[j + m]
    BY <1>2
  <2> HIDE DEF a, b
  <2> DEFINE r == a \o b
  <2>3. /\ r \in Seq(Obj) /\ Len(r) = Len(a) + Len(b)
        /\ \A m \in 1 .. Len(a) : r[m] = a[m]
        /\ \A m \in 1 .. Len(b) : r[Len(a) + m] = b[m]
    <3>1. a \in Seq(Obj) /\ b \in Seq(Obj)
      BY <2>1, <2>2
    <3> QED
      BY ONLY <3>1, ConcatProperties
  <2> HIDE DEF r
  <2>4. /\ Len(r) = Len(a) + Len(b)
        /\ \A m \in 1 .. Len(a) : r[m] = a[m]
        /\ \A m \in 1 .. Len(b) : r[m + Len(a)] = b[m]
    BY <2>1, <2>2, <2>3
  <2>5. ASSUME NEW m \in 1 .. Len(r)
        PROVE  /\ m < j => q[m] = r[m]
               /\ m >= j => q[m + 1] = r[m]
    <3>1. CASE m < j
      BY <1>2, <2>1, <2>4, <3>1
    <3>2. CASE m >= j
      <4>1. m - j + 1 \in 1 .. Len(b) /\ (m - j + 1) + Len(a) = m
        BY <1>2, <2>1, <2>2, <2>4, <3>2
      <4>2. r[m] = b[m - j + 1]
        BY <2>4, <4>1
      <4>3. b[m - j + 1] = q[j + (m - j + 1)] /\ j + (m - j + 1) = m + 1
        BY <1>2, <2>1, <2>2, <2>4, <4>1
      <4> QED
        BY <3>2, <4>2, <4>3
    <3> QED
      BY <3>1, <3>2
  <2>6. Len(q) = Len(r) + 1 /\ j \in 1 .. Len(q)
    BY <1>2, <2>1, <2>2, <2>4
  <2>7. DeleteAt(q, j) = r
    BY DEF DeleteAt, a, b, r
  <2> QED
    BY ONLY <2>5, <2>6, <2>7 DEF Inserted
<1> QED
  BY <1>1, <1>2

\* x is inserted into array c.
Grown(allocated, its, more, c, j, x) ==
    /\ its[c] \in Seq(Obj) /\ more[c] \in Seq(Obj) /\ Len(more[c]) <= MaxItems
    /\ Inserted(its[c], more[c], j, x)
    /\ \A d \in allocated : d # c => more[d] = its[d]

\* An insertion adds one reference.
LEMMA InsertPending ==
    ASSUME NEW stk, NEW allocated, IsFiniteSet(allocated), NEW its, NEW more,
           NEW c \in allocated, Quiet(stk, c), NEW j, NEW x,
           Grown(allocated, its, more, c, j, x), NEW o
    PROVE  Cardinality(ItemsOf(stk, allocated, more, o))
              = Cardinality(ItemsOf(stk, allocated, its, o)) + (IF o = x THEN 1 ELSE 0)
<1>g. /\ its[c] \in Seq(Obj) /\ more[c] \in Seq(Obj) /\ Len(more[c]) <= MaxItems
      /\ Inserted(its[c], more[c], j, x) /\ \A d \in allocated : d # c => more[d] = its[d]
  BY DEF Grown
<1> USE <1>g
<1> DEFINE S == ItemsOf(stk, allocated, its, o)
           T == ItemsOf(stk, allocated, more, o)
           U == T \ {<<c, j>>}
           shift == [e \in S |-> IF e[1] = c /\ e[2] >= j THEN <<c, e[2] + 1>> ELSE e]
<1>n. /\ Len(its[c]) \in Nat /\ Len(more[c]) = Len(its[c]) + 1 /\ j \in 1 .. Len(its[c]) + 1
      /\ DOMAIN its[c] = 1 .. Len(its[c]) /\ DOMAIN more[c] = 1 .. Len(its[c]) + 1
      /\ MaxItems \in Nat /\ Len(its[c]) + 1 <= MaxItems
      /\ more[c][j] = x
      /\ \A m \in 1 .. Len(its[c]) : /\ m < j => more[c][m] = its[c][m]
                                     /\ m >= j => more[c][m + 1] = its[c][m]
  BY BoundsAreNat DEF Inserted
<1>p. \A e \in allocated \X (1 .. MaxItems) :
         /\ e = <<e[1], e[2]>> /\ e[2] \in Nat
         /\ e[1] = c => /\ e \in S <=> e[2] \in 1 .. Len(its[c]) /\ its[c][e[2]] = o
                        /\ e \in T <=> e[2] \in 1 .. Len(its[c]) + 1 /\ more[c][e[2]] = o
         /\ e[1] # c => (e \in S <=> e \in T)
  <2> SUFFICES ASSUME NEW e \in allocated \X (1 .. MaxItems)
               PROVE  /\ e = <<e[1], e[2]>> /\ e[2] \in Nat
                      /\ e[1] = c =>
                            /\ e \in S <=> e[2] \in DOMAIN its[c] /\ its[c][e[2]] = o
                            /\ e \in T <=> e[2] \in DOMAIN more[c] /\ more[c][e[2]] = o
                      /\ e[1] # c => (e \in S <=> e \in T)
    BY <1>n
  <2>1. e = <<e[1], e[2]>> /\ e[2] \in Nat /\ e[1] \in allocated
    BY <1>n
  <2>2. /\ Quiet(stk, e[1]) => (e \in S <=> e[2] \in DOMAIN its[e[1]] /\ its[e[1]][e[2]] = o)
        /\ Quiet(stk, e[1]) => (e \in T <=> e[2] \in DOMAIN more[e[1]] /\ more[e[1]][e[2]] = o)
        /\ more[e[1]] = its[e[1]] => (e \in S <=> e \in T)
    BY ArrayPending
  <2> HIDE DEF S, T
  <2> QED
    BY <2>1, <2>2
<1>q. /\ S \subseteq allocated \X (1 .. MaxItems) /\ T \subseteq allocated \X (1 .. MaxItems)
      /\ \A m \in 1 .. MaxItems : <<c, m>> \in allocated \X (1 .. MaxItems)
  BY DEF ItemsOf
<1>s. IsFiniteSet(S)
  <2>0. IsFiniteSet(1 .. MaxItems)
    BY <1>n, FS_Interval
  <2>1. IsFiniteSet(allocated \X (1 .. MaxItems))
    BY <2>0, FS_Product
  <2> QED
    BY <1>q, <2>1, FS_Subset
<1> HIDE DEF S, T
<1>1. shift \in [S -> U]
  <2> SUFFICES ASSUME NEW e \in S
               PROVE  (IF e[1] = c /\ e[2] >= j THEN <<c, e[2] + 1>> ELSE e) \in U
    OBVIOUS
  <2>1. e \in allocated \X (1 .. MaxItems)
    BY <1>q
  <2>2. CASE e[1] # c
    BY <1>p, <2>1, <2>2
  <2>3. CASE e[1] = c
    <3>1. e[2] \in 1 .. Len(its[c]) /\ its[c][e[2]] = o /\ e = <<c, e[2]>>
      BY <1>p, <2>1, <2>3
    <3>2. CASE e[2] >= j
      <4> DEFINE g == <<c, e[2] + 1>>
      <4>1. e[2] + 1 \in 1 .. MaxItems
        BY <1>n, <3>1
      <4>2. g \in allocated \X (1 .. MaxItems) /\ g[1] = c /\ g[2] = e[2] + 1
        BY <1>q, <4>1
      <4>3. more[c][e[2] + 1] = o /\ e[2] + 1 \in 1 .. Len(its[c]) + 1 /\ e[2] + 1 # j
        BY <1>n, <3>1, <3>2
      <4>4. g \in T
        BY <1>p, <4>2, <4>3
      <4>5. g # <<c, j>>
        BY <4>3
      <4> QED
        BY <2>3, <3>2, <4>4, <4>5
    <3>3. CASE ~(e[2] >= j)
      <4>1. more[c][e[2]] = o /\ e[2] \in 1 .. Len(its[c]) + 1 /\ e[2] # j
        BY <1>n, <3>1, <3>3
      <4>2. e \in T
        BY <1>p, <2>1, <2>3, <4>1
      <4>3. e # <<c, j>>
        BY <3>1, <4>1
      <4> QED
        BY <3>3, <4>2, <4>3
    <3> QED
      BY <3>2, <3>3
  <2> QED
    BY <2>2, <2>3
<1>2. ASSUME NEW d \in S, NEW e \in S, shift[d] = shift[e] PROVE d = e
  <2>1. /\ d \in allocated \X (1 .. MaxItems) /\ e \in allocated \X (1 .. MaxItems)
        /\ d = <<d[1], d[2]>> /\ d[2] \in Nat /\ e = <<e[1], e[2]>> /\ e[2] \in Nat
    BY <1>p, <1>q
  <2>2. /\ (IF d[1] = c /\ d[2] >= j THEN <<c, d[2] + 1>> ELSE d)
              = (IF e[1] = c /\ e[2] >= j THEN <<c, e[2] + 1>> ELSE e)
        /\ j \in Nat
    BY <1>2, <1>n
  <2> QED
    BY <2>1, <2>2
<1>3. ASSUME NEW e \in U PROVE \E d \in S : shift[d] = e
  <2>1. e \in T /\ e \in allocated \X (1 .. MaxItems) /\ e # <<c, j>>
        /\ e = <<e[1], e[2]>> /\ e[2] \in Nat
    BY <1>p, <1>q
  <2>2. CASE e[1] # c
    <3>1. e \in S
      BY <1>p, <2>1, <2>2
    <3> QED
      BY <2>2, <3>1
  <2>3. CASE e[1] = c
    <3>1. e[2] \in 1 .. Len(its[c]) + 1 /\ more[c][e[2]] = o /\ e[2] # j
      BY <1>p, <2>1, <2>3
    <3>2. CASE e[2] < j
      <4>1. e[2] \in 1 .. Len(its[c]) /\ its[c][e[2]] = o
        BY <1>n, <3>1, <3>2
      <4>2. e \in S
        BY <1>p, <2>1, <2>3, <4>1
      <4>3. ~(e[2] >= j)
        BY <1>n, <2>1, <3>2
      <4> QED
        BY <4>2, <4>3
    <3>3. CASE ~(e[2] < j)
      <4> DEFINE m == e[2] - 1
                 d == <<c, m>>
      <4>1. m \in 1 .. Len(its[c]) /\ m >= j /\ m + 1 = e[2] /\ m \in 1 .. MaxItems
        BY <1>n, <3>1, <3>3
      <4>2. its[c][m] = o
        BY <1>n, <3>1, <4>1
      <4>3. d \in allocated \X (1 .. MaxItems) /\ d[1] = c /\ d[2] = m
        BY <1>q, <4>1
      <4>4. d \in S
        BY <1>p, <4>1, <4>2, <4>3
      <4>5. e = <<c, m + 1>>
        BY <2>1, <2>3, <4>1
      <4> HIDE DEF m, d
      <4>6. shift[d] = e
        BY <4>1, <4>3, <4>4, <4>5
      <4> QED
        BY <4>4, <4>6
    <3> QED
      BY <3>2, <3>3
  <2> QED
    BY <2>2, <2>3
<1> HIDE DEF shift
<1>4. IsFiniteSet(U) /\ Cardinality(U) = Cardinality(S)
  BY <1>s, <1>1, <1>2, <1>3, Renamed
<1>5. <<c, j>> \in T <=> o = x
  <2> DEFINE g == <<c, j>>
  <2>1. g \in allocated \X (1 .. MaxItems) /\ g[1] = c /\ g[2] = j
    BY <1>n, <1>q
  <2>2. g \in T <=> j \in 1 .. Len(its[c]) + 1 /\ more[c][j] = o
    BY <1>p, <2>1
  <2> QED
    BY <1>n, <2>2
<1>6. Cardinality(T) = Cardinality(U) + (IF <<c, j>> \in T THEN 1 ELSE 0)
  BY <1>4, OneMore
<1> QED
  BY <1>4, <1>5, <1>6 DEF S, T

\* The element old at j of array c is replaced by x.
Exchanged(allocated, its, more, c, j, old, x) ==
    /\ its[c] \in Seq(Obj) /\ Len(its[c]) <= MaxItems /\ j \in DOMAIN its[c]
    /\ old = its[c][j] /\ more[c] = [its[c] EXCEPT ![j] = x]
    /\ \A d \in allocated : d # c => more[d] = its[d]

\* A replacement adds the new element and takes the old one away.
LEMMA ReplacePending ==
    ASSUME NEW stk, NEW allocated, IsFiniteSet(allocated), NEW its, NEW more,
           NEW c \in allocated, Quiet(stk, c), NEW j, NEW x, NEW old,
           Exchanged(allocated, its, more, c, j, old, x), NEW o
    PROVE  Cardinality(ItemsOf(stk, allocated, more, o)) + (IF o = old THEN 1 ELSE 0)
              = Cardinality(ItemsOf(stk, allocated, its, o)) + (IF o = x THEN 1 ELSE 0)
<1>e. /\ its[c] \in Seq(Obj) /\ Len(its[c]) <= MaxItems /\ j \in DOMAIN its[c]
      /\ old = its[c][j] /\ more[c] = [its[c] EXCEPT ![j] = x]
      /\ \A d \in allocated : d # c => more[d] = its[d]
  BY DEF Exchanged
<1> USE <1>e
<1> DEFINE S == ItemsOf(stk, allocated, its, o)
           T == ItemsOf(stk, allocated, more, o)
           g == <<c, j>>
<1>n. /\ Len(its[c]) \in Nat /\ DOMAIN its[c] = 1 .. Len(its[c])
      /\ MaxItems \in Nat /\ j \in 1 .. MaxItems
      /\ DOMAIN more[c] = DOMAIN its[c] /\ more[c][j] = x
      /\ \A m \in DOMAIN its[c] : m # j => more[c][m] = its[c][m]
  BY BoundsAreNat
<1>p. \A e \in allocated \X (1 .. MaxItems) :
         /\ e = <<e[1], e[2]>>
         /\ e[1] = c => /\ e \in S <=> e[2] \in DOMAIN its[c] /\ its[c][e[2]] = o
                        /\ e \in T <=> e[2] \in DOMAIN its[c] /\ more[c][e[2]] = o
         /\ e[1] # c => (e \in S <=> e \in T)
  <2> SUFFICES ASSUME NEW e \in allocated \X (1 .. MaxItems)
               PROVE  /\ e = <<e[1], e[2]>> /\ e[2] \in Nat
                      /\ e[1] = c =>
                            /\ e \in S <=> e[2] \in DOMAIN its[c] /\ its[c][e[2]] = o
                            /\ e \in T <=> e[2] \in DOMAIN more[c] /\ more[c][e[2]] = o
                      /\ e[1] # c => (e \in S <=> e \in T)
    BY <1>n
  <2>1. e = <<e[1], e[2]>> /\ e[2] \in Nat /\ e[1] \in allocated
    BY <1>n
  <2>2. /\ Quiet(stk, e[1]) => (e \in S <=> e[2] \in DOMAIN its[e[1]] /\ its[e[1]][e[2]] = o)
        /\ Quiet(stk, e[1]) => (e \in T <=> e[2] \in DOMAIN more[e[1]] /\ more[e[1]][e[2]] = o)
        /\ more[e[1]] = its[e[1]] => (e \in S <=> e \in T)
    BY ArrayPending
  <2> HIDE DEF S, T
  <2> QED
    BY <2>1, <2>2
<1>q. S \subseteq allocated \X (1 .. MaxItems) /\ T \subseteq allocated \X (1 .. MaxItems)
  BY DEF ItemsOf
<1>s. IsFiniteSet(S)
  <2>0. IsFiniteSet(1 .. MaxItems)
    BY <1>n, FS_Interval
  <2>1. IsFiniteSet(allocated \X (1 .. MaxItems))
    BY <2>0, FS_Product
  <2> QED
    BY <1>q, <2>1, FS_Subset
<1>g. g \in allocated \X (1 .. MaxItems) /\ g[1] = c /\ g[2] = j
  BY <1>n
<1>1. (g \in S <=> o = its[c][j]) /\ (g \in T <=> o = x)
  BY <1>n, <1>p, <1>g
<1> HIDE DEF S, T
<1>2. S \ {g} = T \ {g}
  <2>1. ASSUME NEW e \in allocated \X (1 .. MaxItems), e # g PROVE e \in S <=> e \in T
    <3>1. CASE e[1] = c
      <4>1. e[2] # j
        BY <1>p, <2>1, <3>1
      <4> QED
        BY <1>n, <1>p, <3>1, <4>1
    <3>2. CASE e[1] # c
      BY <1>p, <3>2
    <3> QED
      BY <3>1, <3>2
  <2> QED
    BY <1>q, <2>1
<1> HIDE DEF g
<1> DEFINE R == S \ {g}
<1>3. IsFiniteSet(R) /\ g \notin R /\ S \ {g} = R /\ T \ {g} = R
  BY <1>s, <1>2, FS_Subset
<1> HIDE DEF R
<1>4. /\ Cardinality(R) \in Nat
      /\ Cardinality(S) = Cardinality(R) + (IF g \in S THEN 1 ELSE 0)
      /\ Cardinality(T) = Cardinality(R) + (IF g \in T THEN 1 ELSE 0)
  BY <1>3, OneMore
<1> QED
  BY <1>1, <1>4 DEF S, T

-----------------------------------------------------------------------------
(* What the operations of a pool do to the references that are pending       *)

\* Pools with the same entries.
LEMMA SamePools ==
    ASSUME NEW stk, NEW pls \in Seq(Pool), NEW more \in Seq(Pool), NEW o,
           DOMAIN pls \subseteq DOMAIN more,
           \A k \in DOMAIN pls : more[k].objs = pls[k].objs,
           \A k \in DOMAIN more \ DOMAIN pls : more[k].objs = <<>>
    PROVE  EntriesOf(stk, more, o) = EntriesOf(stk, pls, o)
<1>1. ASSUME NEW e \in EntriesOf(stk, more, o) PROVE e \in EntriesOf(stk, pls, o)
  <2>1. e[1] \in DOMAIN more /\ e[2] \in DOMAIN more[e[1]].objs /\ e[2] \in 1 .. MaxPoolLen
        /\ e = <<e[1], e[2]>>
    BY DEF EntriesOf
  <2>2. e[1] \in DOMAIN pls
    <3>1. SUFFICES ASSUME e[1] \notin DOMAIN pls PROVE FALSE
      OBVIOUS
    <3>2. more[e[1]].objs = <<>>
      BY <2>1, <3>1
    <3> QED
      BY <2>1, <3>2
  <2>3. more[e[1]].objs = pls[e[1]].objs
    BY <2>2
  <2> QED
    BY <2>1, <2>2, <2>3 DEF EntriesOf
<1>2. ASSUME NEW e \in EntriesOf(stk, pls, o) PROVE e \in EntriesOf(stk, more, o)
  <2>1. e[1] \in DOMAIN pls /\ e[2] \in 1 .. MaxPoolLen /\ e = <<e[1], e[2]>>
    BY DEF EntriesOf
  <2>2. more[e[1]].objs = pls[e[1]].objs /\ e[1] \in DOMAIN more
    BY <2>1
  <2> QED
    BY <2>1, <2>2 DEF EntriesOf
<1> QED
  BY <1>1, <1>2

\* x is one more entry of pool k, at its end.
Autoreleased(pls, more, k, x) ==
    /\ k \in DOMAIN pls /\ Len(pls[k].objs) < MaxPoolLen
    /\ DOMAIN more = DOMAIN pls /\ more[k].objs = Append(pls[k].objs, x)
    /\ \A m \in DOMAIN pls : m # k => more[m].objs = pls[m].objs

\* An autoreleased reference is one more entry that no pop has passed.
LEMMA AutoreleasePending ==
    ASSUME NEW stk \in Seq(Frame), NEW pls \in Seq(Pool), PopsInPools(stk, pls),
           NEW k, NEW x \in Obj, NEW more \in Seq(Pool), Autoreleased(pls, more, k, x), NEW o
    PROVE  Cardinality(EntriesOf(stk, more, o))
              = Cardinality(EntriesOf(stk, pls, o)) + (IF o = x THEN 1 ELSE 0)
<1>a. /\ k \in DOMAIN pls /\ Len(pls[k].objs) < MaxPoolLen
      /\ DOMAIN more = DOMAIN pls /\ more[k].objs = Append(pls[k].objs, x)
      /\ \A m \in DOMAIN pls : m # k => more[m].objs = pls[m].objs
  BY DEF Autoreleased
<1> USE <1>a
<1> DEFINE S == EntriesOf(stk, pls, o)
           T == EntriesOf(stk, more, o)
           n == Len(pls[k].objs)
           g == <<k, n + 1>>
<1>1. /\ pls[k].objs \in Seq(Obj) /\ n \in Nat /\ MaxPoolLen \in Nat /\ n + 1 \in 1 .. MaxPoolLen
      /\ DOMAIN pls[k].objs = 1 .. n /\ DOMAIN more[k].objs = 1 .. n + 1
      /\ more[k].objs[n + 1] = x
      /\ \A i \in 1 .. n : more[k].objs[i] = pls[k].objs[i]
  <2>1. pls[k] \in Pool
    OBVIOUS
  <2>2. pls[k].objs \in Seq(Obj)
    BY <2>1 DEF Pool
  <2>3. n \in Nat /\ DOMAIN pls[k].objs = 1 .. n
    BY <2>2
  <2>4. /\ DOMAIN more[k].objs = 1 .. n + 1 /\ more[k].objs[n + 1] = x
        /\ \A i \in 1 .. n : more[k].objs[i] = pls[k].objs[i]
    BY <2>2, <2>3, AppendElements
  <2>5. MaxPoolLen \in Nat /\ n + 1 \in 1 .. MaxPoolLen
    BY <2>3, BoundsAreNat
  <2> QED
    BY <2>2, <2>3, <2>4, <2>5
<1>2. S \subseteq (DOMAIN pls) \X (1 .. MaxPoolLen) /\ T \subseteq (DOMAIN pls) \X (1 .. MaxPoolLen)
  BY DEF EntriesOf
<1>3. \A p \in DOMAIN stk : stk[p].fn = "pop" /\ stk[p].pool = k => n + 1 >= stk[p].i
  <2> SUFFICES ASSUME NEW p \in DOMAIN stk, stk[p].fn = "pop", stk[p].pool = k
               PROVE  n + 1 >= stk[p].i
    OBVIOUS
  <2>1. stk[p].i <= n + 1
    BY DEF PopsInPools
  <2>2. stk[p] \in Frame
    OBVIOUS
  <2>3. stk[p].i \in Nat
    BY <2>2 DEF Frame
  <2> QED
    BY <1>1, <2>1, <2>3
<1>4. g \in (DOMAIN pls) \X (1 .. MaxPoolLen) /\ g[1] = k /\ g[2] = n + 1
  BY <1>1
<1>5. g \in T <=> o = x
  BY <1>1, <1>3, <1>4 DEF EntriesOf
<1>6. g \notin S
  <2>1. ~(n + 1 \in 1 .. n)
    BY <1>1
  <2> QED
    BY <1>1, <1>4, <2>1 DEF EntriesOf
<1>7. ASSUME NEW e \in (DOMAIN pls) \X (1 .. MaxPoolLen), e # g
      PROVE  e \in T <=> e \in S
  <2>1. e = <<e[1], e[2]>> /\ e[1] \in DOMAIN pls
    OBVIOUS
  <2>2. (e[2] \in DOMAIN more[e[1]].objs /\ more[e[1]].objs[e[2]] = o)
        <=> (e[2] \in DOMAIN pls[e[1]].objs /\ pls[e[1]].objs[e[2]] = o)
    <3>1. CASE e[1] = k
      <4>1. e[2] # n + 1
        BY <1>7, <2>1, <3>1
      <4>2. e[2] \in 1 .. n + 1 <=> e[2] \in 1 .. n
        BY <1>1, <4>1
      <4> QED
        BY <1>1, <3>1, <4>2
    <3>2. CASE e[1] # k
      BY <2>1, <3>2
    <3> QED
      BY <3>1, <3>2
  <2> QED
    BY <2>2 DEF EntriesOf
<1>s. IsFiniteSet(S)
  BY FinitePending, FS_EmptySet
<1> HIDE DEF S, T, g
<1>8. T \ {g} = S
  BY <1>2, <1>6, <1>7
<1>9. Cardinality(T) = Cardinality(S) + (IF g \in T THEN 1 ELSE 0)
  BY <1>s, <1>6, <1>8, OneMore
<1> QED
  BY <1>5, <1>9 DEF S, T

\* When a pop ends, its pool has no entry left; those of the pools above are
\* dropped, and those of the pools below stay.
LEMMA PopEndPending ==
    ASSUME TypeInv, stack # <<>>, Top.fn = "pop", Top.i > Len(pools[Top.pool].objs), NEW o
    PROVE  LET less == SubSeq(pools, 1, Top.pool - 1)
           IN  Cardinality(EntriesOf(stack, pools, o))
                  = Cardinality(EntriesOf(Caller, less, o)) + DroppedWith(Top.pool, o)
<1> DEFINE k == Top.pool
           n == Len(stack)
           less == SubSeq(pools, 1, k - 1)
           S == EntriesOf(Caller, less, o)
           T == EntriesOf(stack, pools, o)
           D == {e \in (k + 1 .. Len(pools)) \X (1 .. MaxPoolLen) :
                    e[2] \in DOMAIN pools[e[1]].objs /\ pools[e[1]].objs[e[2]] = o}
<1>0. pools \in Seq(Pool) /\ stack \in Seq(Frame) /\ WellNested(stack, pools)
  BY DEF TypeInv, TypeOK, CallsWellNested
<1>1. /\ n \in Nat /\ n \in DOMAIN stack /\ DOMAIN stack = 1 .. n /\ stack[n] = Top
      /\ DOMAIN Caller = 1 .. n - 1 /\ \A p \in 1 .. n - 1 : Caller[p] = stack[p]
      /\ Caller \in Seq(Frame)
  <2>1. n \in Nat /\ n \in DOMAIN stack /\ DOMAIN stack = 1 .. n /\ n - 1 \in 0 .. n
    BY <1>0
  <2> QED
    BY <1>0, <2>1, Prefix DEF Caller, Top
<1>2. /\ k \in Nat /\ k \in 1 .. Len(pools) /\ DOMAIN pools = 1 .. Len(pools) /\ Len(pools) \in Nat
      /\ DOMAIN less = 1 .. k - 1 /\ \A m \in 1 .. k - 1 : less[m] = pools[m]
      /\ less \in Seq(Pool)
  <2>1. k \in DOMAIN pools /\ DOMAIN pools = 1 .. Len(pools) /\ Len(pools) \in Nat
    BY <1>0, TopFrame
  <2>2. k \in Nat /\ k - 1 \in 0 .. Len(pools)
    BY <2>1
  <2> QED
    BY <1>0, <2>1, <2>2, Prefix
<1>3. \A p \in 1 .. n - 1 : stack[p].fn = "pop" => stack[p].pool \in 1 .. k - 1
  <2> SUFFICES ASSUME NEW p \in 1 .. n - 1, stack[p].fn = "pop"
               PROVE  stack[p].pool \in 1 .. k - 1
    OBVIOUS
  <2> DEFINE m == stack[p].pool
  <2>1. /\ m \in 1 .. Len(pools) /\ pools[m].depth = p - 1 /\ ~pools[m].left
        /\ pools[k].depth = n - 1 /\ ~pools[k].left
    <3>1. \A q \in DOMAIN stack : stack[q].fn = "pop" =>
             /\ stack[q].pool \in DOMAIN pools
             /\ pools[stack[q].pool].depth = q - 1 /\ ~pools[stack[q].pool].left
      BY <1>0 DEF WellNested
    <3>2. p \in DOMAIN stack /\ n \in DOMAIN stack /\ stack[n].fn = "pop" /\ stack[n].pool = k
      BY <1>1
    <3> QED
      BY <1>2, <3>1, <3>2
  <2> HIDE DEF m
  <2>2. p - 1 < n - 1 /\ p - 1 \in Int /\ n - 1 \in Int
    BY <1>1
  <2>3. m # k
    BY <2>1, <2>2
  <2>4. ~(k < m)
    <3>1. k < m => pools[k].depth <= pools[m].depth
      BY <1>0, <1>2, <2>1 DEF WellNested
    <3> QED
      BY <2>1, <2>2, <3>1
  <2>5. m \in 1 .. k - 1
    BY <1>2, <2>1, <2>3, <2>4
  <2> QED
    BY <2>5 DEF m
<1>b. MaxPoolLen \in Nat
  BY BoundsAreNat
<1>i. Top.i \in Nat /\ pools[k].objs \in Seq(Obj) /\ Top.i > Len(pools[k].objs)
  BY <1>2, TopFrame, PoolObjs
<1> HIDE DEF k, n, less
<1>t. T \subseteq (1 .. Len(pools)) \X (1 .. MaxPoolLen)
  BY <1>2 DEF EntriesOf
<1>4. ASSUME NEW e \in (1 .. Len(pools)) \X (1 .. MaxPoolLen), e[1] \in 1 .. k - 1
      PROVE  e \in T <=> e \in S
  <2>0. e \in (DOMAIN pools) \X (1 .. MaxPoolLen) /\ e \in (DOMAIN less) \X (1 .. MaxPoolLen)
        /\ less[e[1]] = pools[e[1]] /\ e[1] # k
    BY <1>2, <1>4
  <2>1. (\A p \in DOMAIN stack : stack[p].fn = "pop" /\ stack[p].pool = e[1] => e[2] >= stack[p].i)
        <=> (\A p \in DOMAIN Caller : Caller[p].fn = "pop" /\ Caller[p].pool = e[1]
                                         => e[2] >= Caller[p].i)
    <3>1. \A p : p \in DOMAIN stack <=> p \in DOMAIN Caller \/ p = n
      BY <1>1
    <3>2. stack[n].pool = k /\ \A p \in DOMAIN Caller : Caller[p] = stack[p]
      BY <1>1 DEF k
    <3> QED
      BY <2>0, <3>1, <3>2
  <2> QED
    BY <2>0, <2>1 DEF EntriesOf
<1>5. ASSUME NEW e \in (1 .. Len(pools)) \X (1 .. MaxPoolLen), e[1] = k
      PROVE  e \notin T
  <2>1. SUFFICES ASSUME e \in T PROVE FALSE
    OBVIOUS
  <2>2. e[2] \in DOMAIN pools[k].objs
    BY <1>5, <2>1 DEF EntriesOf
  <2>3. e[2] >= Top.i
    <3>1. stack[n].fn = "pop" /\ stack[n].pool = e[1] /\ stack[n].i = Top.i
      BY <1>1, <1>5 DEF k
    <3> QED
      BY <1>1, <2>1, <3>1 DEF EntriesOf
  <2>4. e[2] \in 1 .. Len(pools[k].objs) /\ Len(pools[k].objs) \in Nat
    BY <1>i, <2>2
  <2> QED
    BY <1>i, <2>3, <2>4
<1>6. ASSUME NEW e \in (1 .. Len(pools)) \X (1 .. MaxPoolLen), e[1] \in k + 1 .. Len(pools)
      PROVE  e \in T <=> e \in D
  <2>1. \A p \in DOMAIN stack : stack[p].fn = "pop" => stack[p].pool # e[1]
    <3> SUFFICES ASSUME NEW p \in DOMAIN stack, stack[p].fn = "pop" PROVE stack[p].pool # e[1]
      OBVIOUS
    <3>1. CASE p = n
      <4>1. stack[p].pool = k
        BY <1>1, <3>1 DEF k
      <4> QED
        BY <1>2, <1>6, <4>1
    <3>2. CASE p # n
      <4>1. stack[p].pool \in 1 .. k - 1
        BY <1>1, <1>3, <3>2
      <4> QED
        BY <1>2, <1>6, <4>1
    <3> QED
      BY <3>1, <3>2
  <2>2. e \in (DOMAIN pools) \X (1 .. MaxPoolLen)
        /\ e \in (k + 1 .. Len(pools)) \X (1 .. MaxPoolLen)
    BY <1>2, <1>6
  <2> QED
    BY <2>1, <2>2 DEF EntriesOf
<1>7. S \subseteq (1 .. k - 1) \X (1 .. MaxPoolLen)
      /\ D \subseteq (k + 1 .. Len(pools)) \X (1 .. MaxPoolLen)
  BY <1>2 DEF EntriesOf
<1>f. IsFiniteSet(S) /\ IsFiniteSet(T)
  BY <1>0, <1>2, FinitePending, FS_EmptySet
<1>d. DroppedWith(k, o) = Cardinality(D)
  BY DEF DroppedWith
<1> HIDE DEF S, T, D
<1>r. \A m \in Nat : m \in 1 .. Len(pools) <=> m \in 1 .. k - 1 \/ m = k \/ m \in k + 1 .. Len(pools)
  BY <1>2
<1>8. T = S \cup D
  <2>1. S \subseteq (1 .. Len(pools)) \X (1 .. MaxPoolLen)
        /\ D \subseteq (1 .. Len(pools)) \X (1 .. MaxPoolLen)
    BY <1>2, <1>7
  <2>2. ASSUME NEW e \in (1 .. Len(pools)) \X (1 .. MaxPoolLen)
        PROVE  e \in T <=> e \in S \/ e \in D
    <3>1. e[1] \in Nat
      OBVIOUS
    <3>2. CASE e[1] \in 1 .. k - 1
      <4>1. e \notin D
        BY <1>2, <1>7, <3>2
      <4> QED
        BY <1>4, <3>2, <4>1
    <3>3. CASE e[1] = k
      <4>1. e \notin S /\ e \notin D
        BY <1>2, <1>7, <3>3
      <4> QED
        BY <1>5, <3>3, <4>1
    <3>4. CASE e[1] \in k + 1 .. Len(pools)
      <4>1. e \notin S
        BY <1>2, <1>7, <3>4
      <4> QED
        BY <1>6, <3>4, <4>1
    <3> QED
      BY <1>r, <3>1, <3>2, <3>3, <3>4
  <2> QED
    BY <1>t, <2>1, <2>2
<1>9. S \cap D = {}
  BY <1>2, <1>7
<1>10. IsFiniteSet(D)
  BY <1>f, <1>8, FS_Subset
<1>11. Cardinality(T) = Cardinality(S) + Cardinality(D) - Cardinality(S \cap D)
  BY <1>f, <1>8, <1>10, FS_Union
<1>12. Cardinality(S \cap D) = 0 /\ Cardinality(S) \in Nat /\ Cardinality(D) \in Nat
  BY <1>f, <1>9, <1>10, FS_EmptySet, FS_CardinalityType
<1> QED
  BY <1>d, <1>11, <1>12 DEF S, T, k, less

-----------------------------------------------------------------------------
(* The steps *)

Counted(h, l, counts, stk, allocated, its, pls) ==
    /\ Bounded(allocated, its, pls) /\ PopsInPools(stk, pls)
    /\ Balanced(h, l, counts, stk, allocated, its, pls, Null)

\* The balance of one object.
LEMMA BalanceOf ==
    ASSUME NEW h, NEW l, NEW counts, NEW stk, NEW allocated, NEW its, NEW pls,
           Counted(h, l, counts, stk, allocated, its, pls), NEW o \in Obj,
           Sum(h, l, stk, allocated, its, pls, o) \in Nat
    PROVE  Sum(h, l, stk, allocated, its, pls, o) = IF o \in allocated THEN counts[o] ELSE 0
<1>1. o # Null
  BY DisjointAddresses
<1>2. Sum(h, l, stk, allocated, its, pls, o) + (IF o = Null THEN 1 ELSE 0)
         = IF o \in allocated THEN counts[o] ELSE 0
  BY DEF Counted, Balanced
<1> QED
  BY <1>1, <1>2

LEMMA BalancedBy ==
    ASSUME NEW h, NEW l, NEW counts, NEW stk, NEW allocated, NEW its, NEW pls,
           \A o \in Obj : /\ Sum(h, l, stk, allocated, its, pls, o) \in Nat
                          /\ Sum(h, l, stk, allocated, its, pls, o)
                                = IF o \in allocated THEN counts[o] ELSE 0
    PROVE  Balanced(h, l, counts, stk, allocated, its, pls, Null)
<1>1. Null \notin Obj
  BY DisjointAddresses
<1>2. ASSUME NEW o \in Obj
      PROVE  Sum(h, l, stk, allocated, its, pls, o) + (IF o = Null THEN 1 ELSE 0)
                = IF o \in allocated THEN counts[o] ELSE 0
  <2>1. o # Null
    BY <1>1
  <2>2. Sum(h, l, stk, allocated, its, pls, o) \in Nat
    OBVIOUS
  <2> QED
    BY <2>1, <2>2
<1> QED
  BY <1>2 DEF Balanced

\* A release restores the balance.
LEMMA ReleaseCounted ==
    ASSUME NEW h \in [Obj -> Nat], NEW l \in [Obj -> Nat], NEW pls \in Seq(Pool),
           NEW allocated, NEW its, NEW counts \in [Obj -> Nat],
           NEW x \in Obj, x \in allocated, counts[x] # 0,
           NEW rest \in Seq(Frame), ReleaseRef(counts, x, rest),
           Bounded(allocated, its, pls), PopsInPools(rest, pls),
           Balanced(h, l, counts, rest, allocated, its, pls, x)
    PROVE  Counted(h, l, rc', stack', allocated, its, pls)
<1>1. IsFiniteSet(allocated)
  BY DEF Bounded
<1>2. Balanced(h, l, rc', stack', allocated, its, pls, Null)
  BY <1>1, ReleaseBalanced
<1>3. PopsInPools(stack', pls)
  <2>1. CASE stack' = rest
    BY <2>1
  <2>2. CASE stack' = Append(rest, [fn |-> "dealloc", obj |-> x, pool |-> 0, i |-> 0])
    <3>f. PICK f \in Frame : f = [fn |-> "dealloc", obj |-> x, pool |-> 0, i |-> 0]
      BY DEF Frame, Id
    <3>1. /\ DOMAIN stack' = 1 .. Len(rest) + 1 /\ stack'[Len(rest) + 1] = f
          /\ \A p \in DOMAIN rest : stack'[p] = rest[p]
          /\ DOMAIN rest = 1 .. Len(rest) /\ Len(rest) \in Nat
      BY <2>2, <3>f, AppendElements
    <3>2. \A p \in DOMAIN stack' : p \in DOMAIN rest \/ p = Len(rest) + 1
      BY <3>1
    <3>3. f.fn # "pop"
      BY <3>f
    <3> QED
      BY <3>1, <3>2, <3>3 DEF PopsInPools
  <2> QED
    BY <2>1, <2>2 DEF ReleaseRef
<1> QED
  BY <1>2, <1>3 DEF Counted

\* The states of the invariant.
LEMMA CountedState ==
    ASSUME CountInv
    PROVE  /\ TypeInv /\ WeakIndInv /\ StrongRefsLive
           /\ Counted(held, lost, rc, stack, heap, items, pools)
           /\ heap \subseteq Obj /\ rc \in [Obj -> Nat] /\ items \in [Obj -> Seq(Obj)]
           /\ pools \in Seq(Pool) /\ stack \in Seq(Frame)
           /\ held \in [Obj -> Nat] /\ lost \in [Obj -> Nat]
           /\ Bounded(heap, items, pools) /\ PopsInPools(stack, pools) /\ IsFiniteSet(heap)
           /\ \A o : /\ IsFiniteSet(EntriesOf(stack, pools, o))
                     /\ IsFiniteSet(ItemsOf(stack, heap, items, o))
                     /\ Cardinality(EntriesOf(stack, pools, o)) \in Nat
                     /\ Cardinality(ItemsOf(stack, heap, items, o)) \in Nat
                     /\ Pins(stack, o) \in Nat
           /\ \A o \in Obj :
                 /\ held[o] \in Nat /\ lost[o] \in Nat
                 /\ held[o] + lost[o] + Pins(stack, o) + Cardinality(EntriesOf(stack, pools, o))
                       + Cardinality(ItemsOf(stack, heap, items, o))
                    = IF o \in heap THEN rc[o] ELSE 0
<1>1. /\ TypeInv /\ WeakIndInv /\ StrongRefsLive
      /\ Counted(held, lost, rc, stack, heap, items, pools)
      /\ heap \subseteq Obj /\ rc \in [Obj -> Nat] /\ items \in [Obj -> Seq(Obj)]
      /\ pools \in Seq(Pool) /\ stack \in Seq(Frame)
      /\ held \in [Obj -> Nat] /\ lost \in [Obj -> Nat]
      /\ Bounded(heap, items, pools) /\ PopsInPools(stack, pools) /\ IsFiniteSet(heap)
  BY CountsAreRefs DEF CountInv, TypeInv, TypeOK, Counted, Bounded
<1>2. ASSUME NEW o
      PROVE  /\ IsFiniteSet(EntriesOf(stack, pools, o))
             /\ IsFiniteSet(ItemsOf(stack, heap, items, o))
             /\ Cardinality(EntriesOf(stack, pools, o)) \in Nat
             /\ Cardinality(ItemsOf(stack, heap, items, o)) \in Nat
             /\ Pins(stack, o) \in Nat
  BY <1>1, FinitePending
<1>3. ASSUME NEW o \in Obj
      PROVE  /\ held[o] \in Nat /\ lost[o] \in Nat
             /\ held[o] + lost[o] + Pins(stack, o) + Cardinality(EntriesOf(stack, pools, o))
                   + Cardinality(ItemsOf(stack, heap, items, o))
                = IF o \in heap THEN rc[o] ELSE 0
  <2>1. Sum(held, lost, stack, heap, items, pools, o) \in Nat
    BY <1>1, SumNat
  <2>2. Sum(held, lost, stack, heap, items, pools, o) = IF o \in heap THEN rc[o] ELSE 0
    BY <1>1, <2>1, BalanceOf
  <2> QED
    BY <1>1, <2>2 DEF Sum
<1> QED
  BY <1>1, <1>2, <1>3

\* A round of a loop passes one reference and releases it.
LEMMA LoopCounted ==
    ASSUME CountInv, stack # <<>>, NEW x \in Obj, Live(x),
           ReleaseRef(rc, x, Resume(Top.i + 1)), UNCHANGED <<heap, items, pools, held, lost>>,
           \/ /\ Top.fn = "pop" /\ PendingEntry(Top.pool, Top.i)
              /\ pools[Top.pool].objs[Top.i] = x
           \/ /\ Top.fn # "pop" /\ PendingItem(Top.obj, Top.i) /\ items[Top.obj][Top.i] = x
    PROVE  Counted(held', lost', rc', stack', heap', items', pools')
<1> DEFINE i == Top.i
           n == Len(stack)
           rest == Resume(i + 1)
           g == IF Top.fn = "pop" THEN <<Top.pool, i>> ELSE <<Top.obj, i>>
<1>0. /\ TypeInv /\ rc \in [Obj -> Nat] /\ pools \in Seq(Pool) /\ stack \in Seq(Frame)
      /\ held \in [Obj -> Nat] /\ lost \in [Obj -> Nat] /\ items \in [Obj -> Seq(Obj)]
      /\ Bounded(heap, items, pools) /\ PopsInPools(stack, pools) /\ IsFiniteSet(heap)
      /\ heap \subseteq Obj
  BY CountedState
<1>1. /\ i \in Nat /\ n \in DOMAIN stack /\ Top = stack[n] /\ Top.fn \in {"dealloc", "removeAll", "pop"}
      /\ Top.fn = "pop" => Top.pool \in DOMAIN pools
  BY <1>0, TopFrame DEF Frame, Top
<1>2. /\ rest \in Seq(Frame) /\ DOMAIN rest = DOMAIN stack
      /\ \A p \in DOMAIN stack : /\ p # n => rest[p] = stack[p]
                                 /\ rest[p].fn = stack[p].fn /\ rest[p].pool = stack[p].pool
      /\ rest[n].i = i + 1 /\ rest = [stack EXCEPT ![n].i = i + 1]
  <2>1. i + 1 \in Nat
    BY <1>1
  <2> QED
    BY <1>0, <2>1, ResumeShape DEF Resume
<1>3. ASSUME NEW o
      PROVE  /\ EntriesOf(rest, pools, o) = IF Top.fn = "pop" THEN EntriesOf(stack, pools, o) \ {g}
                                            ELSE EntriesOf(stack, pools, o)
             /\ ItemsOf(rest, heap, items, o) = IF Top.fn = "pop" THEN ItemsOf(stack, heap, items, o)
                                                ELSE ItemsOf(stack, heap, items, o) \ {g}
             /\ Pins(rest, o) = Pins(stack, o)
  <2>1. i \in Nat /\ i = stack[Len(stack)].i
    BY <1>1
  <2>m. PICK m : m = i + 1
    OBVIOUS
  <2>2. /\ EntriesOf(Moved(stack, m), pools, o) = EntriesLeft(stack, pools, o)
        /\ ItemsOf(Moved(stack, m), heap, items, o) = ItemsLeft(stack, heap, items, o)
        /\ Pins(Moved(stack, m), o) = Pins(stack, o)
    <3>1. stack \in Seq(Frame) /\ stack # <<>>
      BY <1>0
    <3>2. m = stack[Len(stack)].i + 1
      BY <2>1, <2>m
    <3> QED
      BY ONLY <3>1, <3>2, ResumePending
  <2>3. rest = Moved(stack, m) /\ Top = stack[Len(stack)]
    BY <2>m DEF Resume, Moved, Top
  <2> HIDE DEF rest
  <2> QED
    BY <2>1, <2>2, <2>3 DEF EntriesLeft, ItemsLeft
<1>4. ASSUME NEW o
      PROVE  /\ Top.fn = "pop" => (g \in EntriesOf(stack, pools, o) <=> o = x)
             /\ Top.fn # "pop" => (g \in ItemsOf(stack, heap, items, o) <=> o = x)
  <2>1. CASE Top.fn = "pop"
    <3>1. PendingEntry(Top.pool, i) /\ pools[Top.pool].objs[i] = x
      BY <2>1
    <3>2. /\ i \in DOMAIN pools[Top.pool].objs
          /\ \A p \in DOMAIN stack : stack[p].fn = "pop" /\ stack[p].pool = Top.pool
                                        => i >= stack[p].i
      BY <3>1 DEF PendingEntry, Elements
    <3>3. i \in 1 .. MaxPoolLen
      <4>1. pools[Top.pool].objs \in Seq(Obj) /\ Len(pools[Top.pool].objs) <= MaxPoolLen
        BY <1>0, <1>1, <2>1, PoolObjs DEF Bounded
      <4>2. i \in 1 .. Len(pools[Top.pool].objs) /\ Len(pools[Top.pool].objs) \in Nat
        BY <3>2, <4>1
      <4> HIDE DEF i
      <4> QED
        BY ONLY <4>1, <4>2, BoundsAreNat
    <3>4. g = <<Top.pool, i>> /\ g \in (DOMAIN pools) \X (1 .. MaxPoolLen)
      BY <1>1, <2>1, <3>3
    <3> HIDE DEF g, i
    <3>5. g[1] = Top.pool /\ g[2] = i
      BY <3>4
    <3> QED
      BY <2>1, <3>1, <3>2, <3>4, <3>5 DEF EntriesOf
  <2>2. CASE Top.fn # "pop"
    <3>1. PendingItem(Top.obj, i) /\ items[Top.obj][i] = x
      BY <2>2
    <3>2. /\ Top.obj \in heap /\ i \in DOMAIN items[Top.obj]
          /\ \A p \in DOMAIN stack : stack[p].fn \in {"dealloc", "removeAll"} /\ stack[p].obj = Top.obj
                                        => i >= stack[p].i
      BY <3>1 DEF PendingItem, Elements
    <3>3. i \in 1 .. MaxItems
      <4>1. Top.obj \in Obj
        BY <1>0, <3>2
      <4>2. items[Top.obj] \in Seq(Obj) /\ Len(items[Top.obj]) <= MaxItems
        BY <1>0, <4>1 DEF Bounded
      <4> QED
        BY <3>2, <4>2, BoundsAreNat
    <3>4. g = <<Top.obj, i>> /\ g \in heap \X (1 .. MaxItems)
      BY <2>2, <3>2, <3>3
    <3> HIDE DEF g, i
    <3>5. g[1] = Top.obj /\ g[2] = i
      BY <3>4
    <3> QED
      BY <2>2, <3>1, <3>2, <3>4, <3>5 DEF ItemsOf
  <2> QED
    BY <2>1, <2>2
<1> HIDE DEF g
<1>5. ASSUME NEW o \in Obj
      PROVE  Sum(held, lost, rest, heap, items, pools, o) + (IF o = x THEN 1 ELSE 0)
                = IF o \in heap THEN rc[o] ELSE 0
  <2>1. /\ IsFiniteSet(EntriesOf(rest, pools, o)) /\ IsFiniteSet(ItemsOf(rest, heap, items, o))
        /\ Cardinality(EntriesOf(rest, pools, o)) \in Nat
        /\ Cardinality(ItemsOf(rest, heap, items, o)) \in Nat
    BY <1>0, FinitePending
  <2>2. /\ held[o] \in Nat /\ lost[o] \in Nat /\ Pins(stack, o) \in Nat
        /\ held[o] + lost[o] + Pins(stack, o) + Cardinality(EntriesOf(stack, pools, o))
              + Cardinality(ItemsOf(stack, heap, items, o))
           = IF o \in heap THEN rc[o] ELSE 0
    BY CountedState
  <2>3. Cardinality(EntriesOf(stack, pools, o)) + Cardinality(ItemsOf(stack, heap, items, o))
           = Cardinality(EntriesOf(rest, pools, o)) + Cardinality(ItemsOf(rest, heap, items, o))
             + (IF o = x THEN 1 ELSE 0)
    <3>1. CASE Top.fn = "pop"
      <4>1. Cardinality(EntriesOf(stack, pools, o))
               = Cardinality(EntriesOf(rest, pools, o))
                 + (IF g \in EntriesOf(stack, pools, o) THEN 1 ELSE 0)
        <5>1. EntriesOf(rest, pools, o) = EntriesOf(stack, pools, o) \ {g}
          BY <1>3, <3>1
        <5>2. g \notin EntriesOf(rest, pools, o)
          BY <5>1
        <5> QED
          BY <2>1, <5>1, <5>2, OneMore
      <4>2. g \in EntriesOf(stack, pools, o) <=> o = x
        BY <1>4, <3>1
      <4>3. ItemsOf(rest, heap, items, o) = ItemsOf(stack, heap, items, o)
        BY <1>3, <3>1
      <4> QED
        BY <2>1, <4>1, <4>2, <4>3
    <3>2. CASE Top.fn # "pop"
      <4>1. Cardinality(ItemsOf(stack, heap, items, o))
               = Cardinality(ItemsOf(rest, heap, items, o))
                 + (IF g \in ItemsOf(stack, heap, items, o) THEN 1 ELSE 0)
        <5>1. ItemsOf(rest, heap, items, o) = ItemsOf(stack, heap, items, o) \ {g}
          BY <1>3, <3>2
        <5>2. g \notin ItemsOf(rest, heap, items, o)
          BY <5>1
        <5> QED
          BY <2>1, <5>1, <5>2, OneMore
      <4>2. g \in ItemsOf(stack, heap, items, o) <=> o = x
        BY <1>4, <3>2
      <4>3. EntriesOf(rest, pools, o) = EntriesOf(stack, pools, o)
        BY <1>3, <3>2
      <4> QED
        BY <2>1, <4>1, <4>2, <4>3
    <3> QED
      BY <3>1, <3>2
  <2>4. Pins(rest, o) = Pins(stack, o)
    BY <1>3
  <2>5. /\ Cardinality(EntriesOf(stack, pools, o)) \in Nat
        /\ Cardinality(ItemsOf(stack, heap, items, o)) \in Nat
    BY CountedState
  <2> HIDE DEF rest
  <2>6. Sum(held, lost, rest, heap, items, pools, o)
           = held[o] + lost[o] + Pins(stack, o) + Cardinality(EntriesOf(rest, pools, o))
             + Cardinality(ItemsOf(rest, heap, items, o))
    BY <2>4 DEF Sum
  <2> QED
    BY ONLY <2>1, <2>2, <2>3, <2>5, <2>6
<1>6. Balanced(held, lost, rc, rest, heap, items, pools, x)
  BY <1>5 DEF Balanced
<1>7. PopsInPools(rest, pools)
  <2> SUFFICES ASSUME NEW p \in DOMAIN stack, stack[p].fn = "pop"
               PROVE  rest[p].i <= Len(pools[stack[p].pool].objs) + 1
    BY <1>2 DEF PopsInPools
  <2>1. CASE p = n
    <3>1. Top.fn = "pop" /\ stack[p].pool = Top.pool /\ rest[p].i = i + 1
      BY <1>1, <1>2, <2>1
    <3>2. i \in DOMAIN pools[Top.pool].objs /\ pools[Top.pool].objs \in Seq(Obj)
      BY <1>0, <1>1, <3>1, PoolObjs DEF PendingEntry
    <3> QED
      BY <3>1, <3>2
  <2>2. CASE p # n
    BY <1>0, <1>2, <2>2 DEF PopsInPools
  <2> QED
    BY <2>1, <2>2
<1>8. x \in heap /\ rc[x] # 0
  BY <1>0 DEF Live
<1>9. Counted(held, lost, rc', stack', heap, items, pools)
  BY <1>0, <1>2, <1>6, <1>7, <1>8, ReleaseCounted
<1> QED
  BY <1>9

LEMMA RuntimeCounted ==
    ASSUME CountInv, Runtime
    PROVE  Counted(held', lost', rc', stack', heap', items', pools')
<1>0. /\ TypeInv /\ WeakIndInv /\ StrongRefsLive /\ rc \in [Obj -> Nat]
      /\ pools \in Seq(Pool) /\ stack \in Seq(Frame)
      /\ held \in [Obj -> Nat] /\ lost \in [Obj -> Nat] /\ items \in [Obj -> Seq(Obj)]
      /\ Bounded(heap, items, pools) /\ PopsInPools(stack, pools) /\ IsFiniteSet(heap)
      /\ heap \subseteq Obj
  BY CountedState
<1>t. TypeInv'
  BY <1>0, TypeRuntime
<1>u. /\ rc' \in [Obj -> Nat] /\ pools' \in Seq(Pool) /\ stack' \in Seq(Frame)
      /\ held' \in [Obj -> Nat] /\ lost' \in [Obj -> Nat] /\ items' \in [Obj -> Seq(Obj)]
      /\ WellNested(stack', pools')
  BY <1>t DEF TypeInv, TypeOK, CallsWellNested
<1>c. stack # <<>> => /\ DOMAIN Caller = 1 .. Len(stack) - 1 /\ Len(stack) \in Nat
                      /\ Len(stack) \in DOMAIN stack /\ DOMAIN stack = 1 .. Len(stack)
                      /\ \A p \in DOMAIN Caller : Caller[p] = stack[p] /\ p \in DOMAIN stack
                      /\ Caller \in Seq(Frame) /\ stack[Len(stack)] = Top
  <2>1. stack # <<>> => /\ Len(stack) \in Nat /\ Len(stack) - 1 \in 0 .. Len(stack)
                        /\ Len(stack) \in DOMAIN stack /\ DOMAIN stack = 1 .. Len(stack)
    BY <1>0
  <2> QED
    BY <1>0, <2>1, Prefix DEF Caller, Top
<1>1. CASE PopStep
  <2>1. /\ stack # <<>> /\ Top.fn = "pop" /\ Top.i <= Len(pools[Top.pool].objs)
        /\ ReleaseRef(rc, pools[Top.pool].objs[Top.i], Resume(Top.i + 1))
        /\ UNCHANGED <<heap, items, pools, held, lost>>
    BY <1>1 DEF PopStep
  <2>2. PICK x \in Obj : x = pools[Top.pool].objs[Top.i] /\ Live(x) /\ PendingEntry(Top.pool, Top.i)
    BY <1>0, <2>1, PopElementAlive
  <2> QED
    BY <2>1, <2>2, LoopCounted
<1>2. CASE DeallocStep \/ RemoveAllStep
  <2>1. /\ stack # <<>> /\ Top.fn # "pop" /\ Top.i > 0 /\ Top.i <= Len(items[Top.obj])
        /\ ReleaseRef(rc, items[Top.obj][Top.i], Resume(Top.i + 1))
        /\ UNCHANGED <<heap, items, pools, held, lost>>
    <3>1. RemoveAllStep => Top.i > 0
      <4>1. RemoveAllStep => stack # <<>> /\ Top.fn = "removeAll"
        BY DEF RemoveAllStep
      <4> QED
        BY <1>0, <4>1, TopFrame
    <3> QED
      BY <1>2, <3>1 DEF DeallocStep, RemoveAllStep
  <2>2. PICK x \in Obj : x = items[Top.obj][Top.i] /\ Live(x) /\ PendingItem(Top.obj, Top.i)
    BY <1>0, <2>1, LoopElementAlive
  <2> QED
    BY <2>1, <2>2, LoopCounted
<1>3. CASE PopEnd
  <2>1. /\ stack # <<>> /\ Top.fn = "pop" /\ Top.i > Len(pools[Top.pool].objs)
        /\ lost' = [o \in Obj |-> lost[o] + DroppedWith(Top.pool, o)]
        /\ pools' = SubSeq(pools, 1, Top.pool - 1) /\ stack' = Caller
        /\ UNCHANGED <<heap, rc, items, held>>
    BY <1>3 DEF PopEnd
  <2>2. Top.pool \in Nat /\ Top.pool \in 1 .. Len(pools) /\ Top.pool - 1 \in 0 .. Len(pools)
    <3>1. Top.pool \in DOMAIN pools
      BY <1>0, <2>1, TopFrame
    <3> QED
      BY <1>0, <3>1
  <2>3. /\ DOMAIN pools' = 1 .. Top.pool - 1
        /\ \A k \in DOMAIN pools' : pools'[k] = pools[k] /\ k \in DOMAIN pools
    BY <1>0, <2>1, <2>2, Prefix
  <2>4. ASSUME NEW o \in Obj
        PROVE  /\ Sum(held', lost', stack', heap', items', pools', o) \in Nat
               /\ Sum(held', lost', stack', heap', items', pools', o)
                     = IF o \in heap' THEN rc'[o] ELSE 0
    <3>1. Cardinality(EntriesOf(stack, pools, o))
             = Cardinality(EntriesOf(stack', pools', o)) + DroppedWith(Top.pool, o)
      BY <1>0, <2>1, PopEndPending
    <3>2. ItemsOf(stack', heap', items', o) = ItemsOf(stack, heap, items, o)
          /\ Pins(stack', o) = Pins(stack, o)
      BY <1>0, <2>1, ReturnPending DEF Caller, Top
    <3>3. lost'[o] = lost[o] + DroppedWith(Top.pool, o) /\ DroppedWith(Top.pool, o) \in Nat
      BY <1>0, <2>1, <2>2, DroppedNat
    <3>4. /\ held[o] \in Nat /\ lost[o] \in Nat /\ Pins(stack, o) \in Nat
          /\ Cardinality(EntriesOf(stack, pools, o)) \in Nat
          /\ Cardinality(ItemsOf(stack, heap, items, o)) \in Nat
          /\ held[o] + lost[o] + Pins(stack, o) + Cardinality(EntriesOf(stack, pools, o))
                + Cardinality(ItemsOf(stack, heap, items, o))
             = IF o \in heap THEN rc[o] ELSE 0
      BY CountedState
    <3>5. Cardinality(EntriesOf(stack', pools', o)) \in Nat
      BY <1>u, <1>0, FinitePending
    <3>6. Sum(held', lost', stack', heap', items', pools', o)
             = held[o] + (lost[o] + DroppedWith(Top.pool, o)) + Pins(stack, o)
               + Cardinality(EntriesOf(stack', pools', o))
               + Cardinality(ItemsOf(stack, heap, items, o))
      BY <2>1, <3>2, <3>3 DEF Sum
    <3>7. (IF o \in heap' THEN rc'[o] ELSE 0) = IF o \in heap THEN rc[o] ELSE 0
      BY <2>1
    <3>8. rc[o] \in Nat
      BY <1>0
    <3> QED
      BY ONLY <3>1, <3>3, <3>4, <3>5, <3>6, <3>7, <3>8
  <2>5. Balanced(held', lost', rc', stack', heap', items', pools', Null)
    BY <2>4, BalancedBy
  <2>6. Bounded(heap', items', pools')
    BY <1>0, <2>1, <2>3 DEF Bounded
  <2>7. PopsInPools(stack', pools')
    <3> SUFFICES ASSUME NEW p \in DOMAIN Caller, Caller[p].fn = "pop"
                 PROVE  Caller[p].i <= Len(pools'[Caller[p].pool].objs) + 1
      BY <2>1 DEF PopsInPools
    <3>1. Caller[p] = stack[p] /\ p \in DOMAIN stack
      BY <1>c, <2>1
    <3>2. Caller[p].pool \in DOMAIN pools'
      BY <1>u, <2>1 DEF WellNested
    <3>3. pools'[Caller[p].pool] = pools[Caller[p].pool]
      BY <2>3, <3>2
    <3> QED
      BY <1>0, <3>1, <3>3 DEF PopsInPools
  <2> QED
    BY <2>5, <2>6, <2>7 DEF Counted
<1>4. CASE SuperDealloc
  <2>1. /\ stack # <<>> /\ Top.fn = "dealloc" /\ Top.i = 0 /\ stack' = Resume(1)
        /\ UNCHANGED <<heap, rc, items, pools, held, lost>>
    BY <1>4 DEF SuperDealloc
  <2>2. PICK m : m = 0 + 1
    OBVIOUS
  <2>3. m = stack[Len(stack)].i + 1 /\ stack' = Moved(stack, m) /\ stack[Len(stack)].fn = "dealloc"
        /\ stack[Len(stack)].i = 0
    BY <2>1, <2>2 DEF Top, Resume, Moved
  <2>4. ASSUME NEW o
        PROVE  /\ EntriesOf(stack', pools', o) = EntriesOf(stack, pools, o)
               /\ ItemsOf(stack', heap', items', o) = ItemsOf(stack, heap, items, o)
               /\ Pins(stack', o) = Pins(stack, o)
    <3>1. /\ EntriesOf(Moved(stack, m), pools, o) = EntriesLeft(stack, pools, o)
          /\ ItemsOf(Moved(stack, m), heap, items, o) = ItemsLeft(stack, heap, items, o)
          /\ Pins(Moved(stack, m), o) = Pins(stack, o)
      <4>1. stack \in Seq(Frame) /\ stack # <<>>
        BY <1>0, <2>1
      <4> QED
        BY ONLY <2>3, <4>1, ResumePending
    <3>2. EntriesLeft(stack, pools, o) = EntriesOf(stack, pools, o)
      BY <2>3 DEF EntriesLeft
    <3>3. ItemsLeft(stack, heap, items, o) = ItemsOf(stack, heap, items, o)
      <4>1. <<stack[Len(stack)].obj, 0>> \notin heap \X (1 .. MaxItems)
        BY BoundsAreNat
      <4>2. ItemsOf(stack, heap, items, o) \subseteq heap \X (1 .. MaxItems)
        BY DEF ItemsOf
      <4> QED
        BY <2>3, <4>1, <4>2 DEF ItemsLeft
    <3> QED
      BY <2>1, <2>3, <3>1, <3>2, <3>3
  <2>5. ASSUME NEW o \in Obj
        PROVE  /\ Sum(held', lost', stack', heap', items', pools', o) \in Nat
               /\ Sum(held', lost', stack', heap', items', pools', o)
                     = IF o \in heap' THEN rc'[o] ELSE 0
    <3>1. Sum(held', lost', stack', heap', items', pools', o)
             = Sum(held, lost, stack, heap, items, pools, o)
      BY <2>1, <2>4 DEF Sum
    <3>2. Sum(held, lost, stack, heap, items, pools, o) \in Nat
      BY <1>0, SumNat
    <3>3. Sum(held, lost, stack, heap, items, pools, o) = IF o \in heap THEN rc[o] ELSE 0
      BY <3>2, BalanceOf, CountedState
    <3> QED
      BY <2>1, <3>1, <3>2, <3>3
  <2>6. Balanced(held', lost', rc', stack', heap', items', pools', Null)
    BY <2>5, BalancedBy
  <2>7. PopsInPools(stack', pools')
    <3>1. /\ DOMAIN stack' = DOMAIN stack
          /\ \A p \in DOMAIN stack : /\ p # Len(stack) => stack'[p] = stack[p]
                                     /\ stack'[p].fn = stack[p].fn
      BY <1>0, <2>1, ResumeShape DEF Resume
    <3> QED
      BY <1>0, <2>1, <2>3, <3>1 DEF PopsInPools
  <2> QED
    BY <1>0, <2>1, <2>6, <2>7 DEF Counted
<1>5. CASE DeallocEnd \/ RemoveAllEnd
  <2>1. /\ stack # <<>> /\ Top.fn # "pop" /\ Top.i > Len(items[Top.obj]) /\ Top.fn \in {"dealloc", "removeAll"}
        /\ items' = [items EXCEPT ![Top.obj] = <<>>] /\ stack' = Caller
        /\ UNCHANGED <<rc, pools, lost>>
        /\ Top.fn = "dealloc" => heap' = heap \ {Top.obj} /\ held' = held
        /\ Top.fn = "removeAll" =>
              /\ heap' = heap
              /\ held' = [held EXCEPT ![Top.obj] = IF Pinned(Top.obj) THEN @ + 1 ELSE @]
    BY <1>5 DEF DeallocEnd, RemoveAllEnd
  <2> DEFINE c == Top.obj
  <2>2. /\ c \in Obj /\ items[c] \in Seq(Obj) /\ items'[c] = <<>>
        /\ \A d \in Obj : d # c => items'[d] = items[d]
        /\ heap' \subseteq heap /\ heap' \ {c} = heap \ {c} /\ IsFiniteSet(heap')
    <3>1. c \in Obj
      BY <1>0, <2>1, TopFrame
    <3>2. heap' \subseteq heap /\ heap' \ {c} = heap \ {c}
      BY <2>1
    <3> QED
      BY <1>0, <2>1, <3>1, <3>2, FS_Subset
  <2>3. \A d \in heap' \cup heap : d # c => items'[d] = items[d]
    BY <1>0, <2>2
  <2>4. ASSUME NEW o
        PROVE  /\ EntriesOf(stack', pools', o) = EntriesOf(stack, pools, o)
               /\ ItemsOf(stack', heap', items', o) = ItemsOf(stack, heap, items, o)
               /\ Top.fn = "dealloc" \/ o # c => Pins(stack', o) = Pins(stack, o)
    <3>1. stack \in Seq(Frame) /\ stack # <<>>
      BY <1>0, <2>1
    <3>2. Emptied(stack[Len(stack)], heap, heap', items, items')
      BY <1>0, <2>1, <2>2, <2>3 DEF Emptied, Top
    <3>3. /\ stack[Len(stack)].fn # "pop" /\ c = stack[Len(stack)].obj
          /\ Top.fn = "dealloc" => stack[Len(stack)].fn # "removeAll"
      BY <2>1 DEF Top
    <3>4. ItemsOf(SubSeq(stack, 1, Len(stack) - 1), heap', items', o)
             = ItemsOf(stack, heap, items, o)
      BY ONLY <3>1, <3>2, ReturnPending
    <3>5. EntriesOf(SubSeq(stack, 1, Len(stack) - 1), pools, o) = EntriesOf(stack, pools, o)
      BY ONLY <3>1, <3>3, ReturnPending
    <3>6. Top.fn = "dealloc" \/ o # c
             => Pins(SubSeq(stack, 1, Len(stack) - 1), o) = Pins(stack, o)
      BY ONLY <3>1, <3>3, ReturnPending
    <3> QED
      BY <2>1, <3>4, <3>5, <3>6 DEF Caller
  <2>5. Top.fn = "dealloc" => c \in heap /\ rc[c] = 0
    BY <1>0, <1>c, <2>1 DEF WeakIndInv, DeallocsDistinct, Distinct
  <2>6. Top.fn = "removeAll" => Pins(stack', c) = 0
    <3> SUFFICES ASSUME Top.fn = "removeAll", PinnedBy(stack', c) PROVE FALSE
      BY DEF Pins
    <3>1. PICK p \in DOMAIN Caller : Caller[p].fn = "removeAll" /\ Caller[p].obj = c
      BY <2>1 DEF PinnedBy
    <3>2. p \in DOMAIN stack /\ stack[p] = Caller[p] /\ p # Len(stack)
          /\ Len(stack) \in DOMAIN stack /\ stack[Len(stack)] = Top
      BY <1>c, <2>1
    <3> QED
      BY <1>0, <3>1, <3>2 DEF WeakIndInv, DeallocsDistinct, Distinct
  <2> HIDE DEF c
  <2>7. ASSUME NEW o \in Obj
        PROVE  /\ Sum(held', lost', stack', heap', items', pools', o) \in Nat
               /\ Sum(held', lost', stack', heap', items', pools', o)
                     = IF o \in heap' THEN rc'[o] ELSE 0
    <3>1. Sum(held', lost', stack', heap', items', pools', o)
             = held'[o] + lost[o] + Pins(stack', o) + Cardinality(EntriesOf(stack, pools, o))
               + Cardinality(ItemsOf(stack, heap, items, o))
      BY <2>1, <2>4 DEF Sum
    <3>2. /\ held[o] \in Nat /\ lost[o] \in Nat /\ Pins(stack, o) \in Nat
          /\ Cardinality(EntriesOf(stack, pools, o)) \in Nat
          /\ Cardinality(ItemsOf(stack, heap, items, o)) \in Nat
          /\ held[o] + lost[o] + Pins(stack, o) + Cardinality(EntriesOf(stack, pools, o))
                + Cardinality(ItemsOf(stack, heap, items, o))
             = IF o \in heap THEN rc[o] ELSE 0
      BY CountedState
    <3>3. held'[o] + Pins(stack', o) = held[o] + Pins(stack, o)
      <4>1. CASE Top.fn = "dealloc"
        BY <2>1, <2>4, <4>1
      <4>2. CASE Top.fn = "removeAll" /\ o # c
        <5>1. held'[o] = held[o]
          BY <1>0, <2>1, <4>2 DEF c
        <5> QED
          BY <2>4, <4>2, <5>1
      <4>3. CASE Top.fn = "removeAll" /\ o = c
        <5>1. held'[c] = IF Pinned(c) THEN held[c] + 1 ELSE held[c]
          BY <1>0, <2>1, <2>2, <4>3 DEF c
        <5>2. Pins(stack, c) = IF Pinned(c) THEN 1 ELSE 0
          BY DEF Pins, PinnedBy, Pinned
        <5>3. held[c] \in Nat
          BY <1>0, <2>2
        <5> QED
          BY <2>6, <4>3, <5>1, <5>2, <5>3
      <4> QED
        BY <2>1, <4>1, <4>2, <4>3
    <3>4. (IF o \in heap' THEN rc'[o] ELSE 0) = IF o \in heap THEN rc[o] ELSE 0
      <4>1. CASE o # c
        <5>1. o \in heap' <=> o \in heap
          BY <2>2, <4>1
        <5> QED
          BY <2>1, <5>1
      <4>2. CASE o = c /\ Top.fn = "dealloc"
        <5>1. o \notin heap'
          BY <2>1, <4>2 DEF c
        <5> QED
          BY <2>5, <4>2, <5>1
      <4>3. CASE Top.fn = "removeAll"
        BY <2>1, <4>3
      <4> QED
        BY <2>1, <4>1, <4>2, <4>3
    <3>5. /\ rc[o] \in Nat /\ held'[o] \in Nat /\ Pins(stack', o) \in {0, 1}
      BY <1>0, <1>u DEF Pins
    <3> QED
      BY ONLY <3>1, <3>2, <3>3, <3>4, <3>5
  <2>8. Balanced(held', lost', rc', stack', heap', items', pools', Null)
    BY <2>7, BalancedBy
  <2>9. Bounded(heap', items', pools')
    <3>1. \A d \in Obj : Len(items'[d]) <= MaxItems
      <4> SUFFICES ASSUME NEW d \in Obj PROVE Len(items'[d]) <= MaxItems
        OBVIOUS
      <4>1. CASE d = c
        BY <2>2, <4>1, BoundsAreNat
      <4>2. CASE d # c
        BY <1>0, <2>2, <4>2 DEF Bounded
      <4> QED
        BY <4>1, <4>2
    <3> QED
      BY <1>0, <2>1, <2>2, <3>1 DEF Bounded
  <2>10. PopsInPools(stack', pools')
    BY <1>0, <1>c, <2>1 DEF PopsInPools
  <2> QED
    BY <2>8, <2>9, <2>10 DEF Counted
<1> QED
  BY <1>1, <1>2, <1>3, <1>4, <1>5 DEF Runtime

\* What is to be shown of a step that releases nothing.
LEMMA CountedBy ==
    ASSUME TypeInv', Bounded(heap', items', pools'), PopsInPools(stack', pools'),
           \A o \in Obj :
              held'[o] + lost'[o] + Pins(stack', o) + Cardinality(EntriesOf(stack', pools', o))
                 + Cardinality(ItemsOf(stack', heap', items', o))
                 = IF o \in heap' THEN rc'[o] ELSE 0
    PROVE  Counted(held', lost', rc', stack', heap', items', pools')
<1>1. /\ held' \in [Obj -> Nat] /\ lost' \in [Obj -> Nat] /\ pools' \in Seq(Pool)
      /\ IsFiniteSet(heap')
  BY DEF TypeInv, TypeOK, Bounded
<1>2. ASSUME NEW o \in Obj
      PROVE  /\ Sum(held', lost', stack', heap', items', pools', o) \in Nat
             /\ Sum(held', lost', stack', heap', items', pools', o)
                   = IF o \in heap' THEN rc'[o] ELSE 0
  <2>1. Sum(held', lost', stack', heap', items', pools', o) \in Nat
    BY <1>1, SumNat
  <2> QED
    BY <2>1 DEF Sum
<1>3. Balanced(held', lost', rc', stack', heap', items', pools', Null)
  BY <1>2, BalancedBy
<1> QED
  BY <1>3 DEF Counted

\* Steps that change none of the references.
LEMMA KeepCounted ==
    ASSUME CountInv, UNCHANGED <<heap, rc, items, pools, stack, held, lost>>
    PROVE  Counted(held', lost', rc', stack', heap', items', pools')
BY CountedState

\* The steps of user code that keep or make references.
LEMMA UserKeepsCounted ==
    ASSUME CountInv, TypeInv', NEW o \in Obj,
           nupa_alloc(o) \/ nupa_retain(o) \/ nupa_autorelease(o)
    PROVE  Counted(held', lost', rc', stack', heap', items', pools')
<1>0. /\ TypeInv /\ WeakIndInv /\ StrongRefsLive /\ rc \in [Obj -> Nat]
      /\ pools \in Seq(Pool) /\ stack \in Seq(Frame)
      /\ held \in [Obj -> Nat] /\ lost \in [Obj -> Nat] /\ items \in [Obj -> Seq(Obj)]
      /\ Bounded(heap, items, pools) /\ PopsInPools(stack, pools) /\ IsFiniteSet(heap)
      /\ heap \subseteq Obj
  BY CountedState
<1>u. pools' \in Seq(Pool)
  BY DEF TypeInv, TypeOK
<1>s. ASSUME NEW y \in Obj
      PROVE  /\ held[y] \in Nat /\ lost[y] \in Nat /\ Pins(stack, y) \in Nat /\ rc[y] \in Nat
             /\ Cardinality(EntriesOf(stack, pools, y)) \in Nat
             /\ Cardinality(ItemsOf(stack, heap, items, y)) \in Nat
             /\ held[y] + lost[y] + Pins(stack, y) + Cardinality(EntriesOf(stack, pools, y))
                   + Cardinality(ItemsOf(stack, heap, items, y))
                = IF y \in heap THEN rc[y] ELSE 0
  BY <1>0, CountedState
<1>1. CASE nupa_alloc(o)
  <2>1. /\ o \notin heap /\ heap' = heap \cup {o} /\ rc' = [rc EXCEPT ![o] = 1]
        /\ held' = [held EXCEPT ![o] = 1] /\ items' = [items EXCEPT ![o] = <<>>]
        /\ UNCHANGED <<pools, stack, lost>>
    BY <1>1 DEF nupa_alloc
  <2>2. ASSUME NEW y PROVE ItemsOf(stack, heap', items', y) = ItemsOf(stack, heap, items, y)
    <3>1. ASSUME NEW e \in ItemsOf(stack, heap', items', y) PROVE e \in ItemsOf(stack, heap, items, y)
      <4>1. /\ e \in heap' \X (1 .. MaxItems)
            /\ e[2] \in DOMAIN items'[e[1]] /\ items'[e[1]][e[2]] = y
        BY DEF ItemsOf
      <4>2. items'[o] = <<>>
        BY <1>0, <2>1
      <4>3. e[1] # o
        BY <4>1, <4>2
      <4>4. e[1] \in heap /\ items'[e[1]] = items[e[1]] /\ e \in heap \X (1 .. MaxItems)
        BY <1>0, <2>1, <4>1, <4>3
      <4> QED
        BY <4>1, <4>4 DEF ItemsOf
    <3>2. ASSUME NEW e \in ItemsOf(stack, heap, items, y) PROVE e \in ItemsOf(stack, heap', items', y)
      <4>1. e \in heap \X (1 .. MaxItems) /\ e \in heap' \X (1 .. MaxItems) /\ e[1] # o /\ e[1] \in Obj
        BY <1>0, <2>1 DEF ItemsOf
      <4>2. items'[e[1]] = items[e[1]]
        BY <1>0, <2>1, <4>1
      <4> QED
        BY <4>1, <4>2 DEF ItemsOf
    <3> QED
      BY <3>1, <3>2
  <2>3. Bounded(heap', items', pools')
    <3>1. IsFiniteSet(heap')
      BY <1>0, <2>1, FS_AddElement
    <3>2. \A c \in Obj : Len(items'[c]) <= MaxItems
      <4> SUFFICES ASSUME NEW c \in Obj PROVE Len(items'[c]) <= MaxItems
        OBVIOUS
      <4>1. CASE c = o
        BY <1>0, <2>1, <4>1, BoundsAreNat
      <4>2. CASE c # o
        <5>1. items'[c] = items[c]
          BY <1>0, <2>1, <4>2
        <5> QED
          BY <1>0, <5>1 DEF Bounded
      <4> QED
        BY <4>1, <4>2
    <3> QED
      BY <1>0, <2>1, <3>1, <3>2 DEF Bounded
  <2>4. ASSUME NEW y \in Obj
        PROVE  held'[y] + lost'[y] + Pins(stack', y) + Cardinality(EntriesOf(stack', pools', y))
                  + Cardinality(ItemsOf(stack', heap', items', y))
                  = IF y \in heap' THEN rc'[y] ELSE 0
    <3>1. /\ held'[y] = (IF y = o THEN 1 ELSE held[y]) /\ rc'[y] = (IF y = o THEN 1 ELSE rc[y])
          /\ y \in heap' <=> y = o \/ y \in heap
          /\ y = o => y \notin heap
          /\ lost' = lost /\ pools' = pools /\ stack' = stack
      BY <1>0, <2>1
    <3> QED
      BY ONLY <1>s, <2>2, <3>1
  <2> QED
    BY <1>0, <2>1, <2>3, <2>4, CountedBy
<1>2. CASE nupa_retain(o)
  <2>1. /\ o \in Referenced /\ rc' = [rc EXCEPT ![o] = @ + 1] /\ held' = [held EXCEPT ![o] = @ + 1]
        /\ UNCHANGED <<heap, items, pools, stack, lost>>
    BY <1>2 DEF nupa_retain
  <2>2. o \in heap
    BY <1>0, <2>1, ReferencedAlive DEF WeakIndInv, Live
  <2>3. ASSUME NEW y \in Obj
        PROVE  held'[y] + lost'[y] + Pins(stack', y) + Cardinality(EntriesOf(stack', pools', y))
                  + Cardinality(ItemsOf(stack', heap', items', y))
                  = IF y \in heap' THEN rc'[y] ELSE 0
    <3>1. /\ held'[y] = (IF y = o THEN held[o] + 1 ELSE held[y])
          /\ rc'[y] = (IF y = o THEN rc[o] + 1 ELSE rc[y])
          /\ y = o => y \in heap
          /\ UNCHANGED <<heap, items, pools, stack, lost>>
      BY <1>0, <2>1, <2>2
    <3> QED
      BY ONLY <1>s, <3>1
  <2> QED
    BY <1>0, <2>1, <2>3, CountedBy
<1>3. CASE nupa_autorelease(o) /\ pools = <<>>
  <2>1. /\ held[o] > 0 /\ held' = [held EXCEPT ![o] = @ - 1]
        /\ lost' = [lost EXCEPT ![o] = @ + 1]
        /\ UNCHANGED <<heap, rc, items, pools, stack>>
    BY <1>3 DEF nupa_autorelease
  <2>2. ASSUME NEW y \in Obj
        PROVE  held'[y] + lost'[y] + Pins(stack', y) + Cardinality(EntriesOf(stack', pools', y))
                  + Cardinality(ItemsOf(stack', heap', items', y))
                  = IF y \in heap' THEN rc'[y] ELSE 0
    <3>1. /\ held'[y] = (IF y = o THEN held[o] - 1 ELSE held[y])
          /\ lost'[y] = (IF y = o THEN lost[o] + 1 ELSE lost[y])
          /\ UNCHANGED <<heap, rc, items, pools, stack>>
      BY <1>0, <2>1
    <3> QED
      BY ONLY <1>s, <3>1
  <2> QED
    BY <1>0, <2>1, <2>2, CountedBy
<1>4. CASE nupa_autorelease(o) /\ pools # <<>>
  <2> DEFINE k == Len(pools)
  <2>1. /\ held[o] > 0 /\ held' = [held EXCEPT ![o] = @ - 1]
        /\ Len(pools[k].objs) < MaxPoolLen
        /\ pools' = [pools EXCEPT ![k].objs = Append(@, o)]
        /\ UNCHANGED <<heap, rc, items, stack, lost>>
    BY <1>4 DEF nupa_autorelease
  <2>2. /\ k \in DOMAIN pools /\ DOMAIN pools' = DOMAIN pools
        /\ pools'[k].objs = Append(pools[k].objs, o)
        /\ \A m \in DOMAIN pools : m # k => pools'[m].objs = pools[m].objs
    <3>1. k \in DOMAIN pools
      BY <1>0, <1>4
    <3>2. pools[k] \in Pool
      BY <1>0, <3>1
    <3>3. pools'[k] = [pools[k] EXCEPT !.objs = Append(@, o)] /\ DOMAIN pools' = DOMAIN pools
          /\ \A m \in DOMAIN pools : m # k => pools'[m] = pools[m]
      BY <2>1, <3>1
    <3>4. pools'[k].objs = Append(pools[k].objs, o)
      BY <3>2, <3>3 DEF Pool
    <3> QED
      BY <3>1, <3>3, <3>4
  <2> HIDE DEF k
  <2>3. ASSUME NEW y
        PROVE  Cardinality(EntriesOf(stack, pools', y))
                  = Cardinality(EntriesOf(stack, pools, y)) + (IF y = o THEN 1 ELSE 0)
    <3>1. stack \in Seq(Frame) /\ pools \in Seq(Pool) /\ PopsInPools(stack, pools)
          /\ Len(pools[k].objs) < MaxPoolLen /\ pools' \in Seq(Pool)
      BY <1>0, <1>u, <2>1
    <3>2. Autoreleased(pools, pools', k, o)
      BY <2>2, <3>1 DEF Autoreleased
    <3> QED
      BY ONLY <3>1, <3>2, o \in Obj, AutoreleasePending
  <2>4. \A m \in DOMAIN pools : Len(pools[m].objs) <= Len(pools'[m].objs)
                                /\ Len(pools'[m].objs) <= MaxPoolLen
    <3> SUFFICES ASSUME NEW m \in DOMAIN pools
                 PROVE  Len(pools[m].objs) <= Len(pools'[m].objs) /\ Len(pools'[m].objs) <= MaxPoolLen
      OBVIOUS
    <3>1. pools[m].objs \in Seq(Obj)
      BY <1>0, PoolObjs
    <3>2. CASE m = k
      <4>1. pools'[m].objs = Append(pools[m].objs, o) /\ Len(pools[m].objs) < MaxPoolLen
        BY <2>1, <2>2, <3>2
      <4>2. Len(pools'[m].objs) = Len(pools[m].objs) + 1 /\ Len(pools[m].objs) \in Nat
        BY <3>1, <4>1
      <4> QED
        BY <4>1, <4>2, BoundsAreNat
    <3>3. CASE m # k
      <4>1. pools'[m].objs = pools[m].objs /\ Len(pools[m].objs) \in Nat
        BY <2>2, <3>1, <3>3
      <4> QED
        BY <1>0, <4>1 DEF Bounded
    <3> QED
      BY <3>2, <3>3
  <2>5. Bounded(heap', items', pools')
    BY <1>0, <2>1, <2>2, <2>4 DEF Bounded
  <2>6. PopsInPools(stack', pools')
    <3> SUFFICES ASSUME NEW p \in DOMAIN stack, stack[p].fn = "pop"
                 PROVE  stack[p].i <= Len(pools'[stack[p].pool].objs) + 1
      BY <2>1 DEF PopsInPools
    <3> DEFINE m == stack[p].pool
    <3>1. stack[p].i <= Len(pools[m].objs) + 1
      BY <1>0 DEF PopsInPools
    <3>2. m \in DOMAIN pools
      BY <1>0 DEF TypeInv, CallsWellNested, WellNested
    <3>3. pools[m].objs \in Seq(Obj) /\ pools'[m].objs \in Seq(Obj)
      <4>1. pools'[m] \in Pool
        BY <1>u, <2>2, <3>2
      <4> QED
        BY <1>0, <3>2, <4>1, PoolObjs DEF Pool
    <3>4. stack[p] \in Frame
      BY <1>0
    <3>5. stack[p].i \in Nat /\ Len(pools[m].objs) \in Nat /\ Len(pools'[m].objs) \in Nat
      BY <3>3, <3>4 DEF Frame
    <3> QED
      BY <2>4, <3>1, <3>2, <3>5
  <2>7. ASSUME NEW y \in Obj
        PROVE  held'[y] + lost'[y] + Pins(stack', y) + Cardinality(EntriesOf(stack', pools', y))
                  + Cardinality(ItemsOf(stack', heap', items', y))
                  = IF y \in heap' THEN rc'[y] ELSE 0
    <3>1. /\ held'[y] = (IF y = o THEN held[o] - 1 ELSE held[y])
          /\ UNCHANGED <<heap, rc, items, stack, lost>>
      BY <1>0, <2>1
    <3> QED
      BY ONLY <1>s, <2>3, <3>1
  <2> QED
    BY <2>5, <2>6, <2>7, CountedBy
<1> QED
  BY <1>1, <1>2, <1>3, <1>4

\* nupa_release called by user code.
LEMMA UserReleaseCounted ==
    ASSUME CountInv, NEW o \in Obj, nupa_release(o)
    PROVE  Counted(held', lost', rc', stack', heap', items', pools')
<1>0. /\ StrongRefsLive /\ rc \in [Obj -> Nat]
      /\ pools \in Seq(Pool) /\ stack \in Seq(Frame)
      /\ held \in [Obj -> Nat] /\ lost \in [Obj -> Nat]
      /\ Bounded(heap, items, pools) /\ PopsInPools(stack, pools)
  BY CountedState
<1>s. ASSUME NEW y \in Obj
      PROVE  /\ held[y] \in Nat /\ lost[y] \in Nat /\ Pins(stack, y) \in Nat /\ rc[y] \in Nat
             /\ Cardinality(EntriesOf(stack, pools, y)) \in Nat
             /\ Cardinality(ItemsOf(stack, heap, items, y)) \in Nat
             /\ held[y] + lost[y] + Pins(stack, y) + Cardinality(EntriesOf(stack, pools, y))
                   + Cardinality(ItemsOf(stack, heap, items, y))
                = IF y \in heap THEN rc[y] ELSE 0
  BY <1>0, CountedState
<1>1. /\ held[o] > 0 /\ held' = [held EXCEPT ![o] = @ - 1] /\ ReleaseRef(rc, o, stack)
      /\ UNCHANGED <<heap, items, pools, lost>>
  BY DEF nupa_release
<1>2. o \in heap /\ rc[o] # 0
  BY <1>0, <1>1 DEF StrongRefsLive, StrongRef, Live
<1>3. held' \in [Obj -> Nat]
  BY <1>0, <1>1
<1>4. ASSUME NEW y \in Obj
      PROVE  Sum(held', lost, stack, heap, items, pools, y) + (IF y = o THEN 1 ELSE 0)
                = IF y \in heap THEN rc[y] ELSE 0
  <2>1. held'[y] = (IF y = o THEN held[y] - 1 ELSE held[y])
    BY <1>0, <1>1
  <2> QED
    BY ONLY <1>s, <2>1, y \in Obj DEF Sum
<1>5. Balanced(held', lost, rc, stack, heap, items, pools, o)
  BY <1>4 DEF Balanced
<1>6. Counted(held', lost, rc', stack', heap, items, pools)
  BY <1>0, <1>1, <1>2, <1>3, <1>5, ReleaseCounted
<1> QED
  BY <1>1, <1>6

\* Pushing a pool, and leaving the block of one.
LEMMA PoolStepCounted ==
    ASSUME CountInv, TypeInv', nupa_autoreleasepoolPush \/ \E k \in 1 .. MaxPools : LeavePool(k)
    PROVE  Counted(held', lost', rc', stack', heap', items', pools')
<1>0. /\ TypeInv /\ pools \in Seq(Pool) /\ stack \in Seq(Frame)
      /\ Bounded(heap, items, pools) /\ PopsInPools(stack, pools)
  BY CountedState
<1>u. pools' \in Seq(Pool)
  BY DEF TypeInv, TypeOK
<1>1. UNCHANGED <<heap, rc, items, stack, held, lost>>
  BY DEF nupa_autoreleasepoolPush, LeavePool
<1>2. /\ DOMAIN pools \subseteq DOMAIN pools'
      /\ \A k \in DOMAIN pools : pools'[k].objs = pools[k].objs
      /\ \A k \in DOMAIN pools' \ DOMAIN pools : pools'[k].objs = <<>>
  <2>1. CASE nupa_autoreleasepoolPush
    <3>1. pools' = Append(pools, [objs |-> <<>>, depth |-> Len(stack), left |-> FALSE])
      BY <2>1 DEF nupa_autoreleasepoolPush
    <3>2. /\ DOMAIN pools' = 1 .. Len(pools) + 1 /\ DOMAIN pools = 1 .. Len(pools)
          /\ Len(pools) \in Nat /\ pools'[Len(pools) + 1].objs = <<>>
          /\ \A k \in DOMAIN pools : pools'[k] = pools[k]
      BY <1>0, <3>1, AppendElements
    <3> QED
      BY <3>2
  <2>2. ASSUME NEW k \in 1 .. MaxPools, LeavePool(k)
        PROVE  /\ DOMAIN pools \subseteq DOMAIN pools'
               /\ \A m \in DOMAIN pools : pools'[m].objs = pools[m].objs
               /\ \A m \in DOMAIN pools' \ DOMAIN pools : pools'[m].objs = <<>>
    <3>1. pools' = [pools EXCEPT ![k].left = TRUE]
      BY <2>2 DEF LeavePool
    <3>2. DOMAIN pools' = DOMAIN pools
      BY <3>1
    <3>3. ASSUME NEW m \in DOMAIN pools PROVE pools'[m].objs = pools[m].objs
      <4>1. pools[m] \in Pool
        BY <1>0
      <4>2. pools'[m] = IF m = k THEN [pools[m] EXCEPT !.left = TRUE] ELSE pools[m]
        BY <3>1
      <4> QED
        BY <4>1, <4>2 DEF Pool
    <3> QED
      BY <3>2, <3>3
  <2> QED
    BY <2>1, <2>2
<1>3. ASSUME NEW y PROVE EntriesOf(stack, pools', y) = EntriesOf(stack, pools, y)
  BY <1>0, <1>u, <1>2, SamePools
<1>4. Bounded(heap', items', pools')
  <2>1. \A k \in DOMAIN pools' : Len(pools'[k].objs) <= MaxPoolLen
    BY <1>0, <1>2, BoundsAreNat DEF Bounded
  <2> QED
    BY <1>0, <1>1, <2>1 DEF Bounded
<1>5. PopsInPools(stack', pools')
  BY <1>0, <1>1, <1>2 DEF PopsInPools, TypeInv, CallsWellNested, WellNested
<1>6. ASSUME NEW y \in Obj
      PROVE  held'[y] + lost'[y] + Pins(stack', y) + Cardinality(EntriesOf(stack', pools', y))
                + Cardinality(ItemsOf(stack', heap', items', y))
                = IF y \in heap' THEN rc'[y] ELSE 0
  BY <1>1, <1>3, CountedState
<1> QED
  BY <1>4, <1>5, <1>6, CountedBy

\* The call of nupa_autoreleasepoolPop.
LEMMA PopCallCounted ==
    ASSUME CountInv, TypeInv', NEW k \in 1 .. MaxPools, nupa_autoreleasepoolPop(k)
    PROVE  Counted(held', lost', rc', stack', heap', items', pools')
<1>0. /\ TypeInv /\ pools \in Seq(Pool) /\ stack \in Seq(Frame)
      /\ Bounded(heap, items, pools) /\ PopsInPools(stack, pools)
  BY CountedState
<1>f. PICK f : f = [fn |-> "pop", obj |-> Null, pool |-> k, i |-> 1]
  OBVIOUS
<1>1. /\ stack' = Append(stack, f) /\ k \in DOMAIN pools
      /\ UNCHANGED <<heap, rc, items, pools, held, lost>>
  BY <1>f DEF nupa_autoreleasepoolPop, OpenPool
<1>2. f \in Frame /\ f.i \in {0, 1} /\ f.fn # "removeAll" /\ f.pool = k /\ f.i = 1
  BY <1>f DEF Frame, Id
<1>3. ASSUME NEW y
      PROVE  /\ EntriesOf(stack', pools, y) = EntriesOf(stack, pools, y)
             /\ ItemsOf(stack', heap, items, y) = ItemsOf(stack, heap, items, y)
             /\ Pins(stack', y) = Pins(stack, y)
  BY <1>0, <1>1, <1>2, AppendPending
<1>4. PopsInPools(stack', pools)
  <2>1. /\ DOMAIN stack' = 1 .. Len(stack) + 1 /\ stack'[Len(stack) + 1] = f
        /\ \A p \in DOMAIN stack : stack'[p] = stack[p]
        /\ DOMAIN stack = 1 .. Len(stack) /\ Len(stack) \in Nat
    BY <1>0, <1>1, <1>2, AppendElements
  <2>2. \A p \in DOMAIN stack' : p \in DOMAIN stack \/ p = Len(stack) + 1
    BY <2>1
  <2>3. f.i <= Len(pools[f.pool].objs) + 1
    <3>1. pools[k].objs \in Seq(Obj)
      BY <1>0, <1>1, PoolObjs
    <3> QED
      BY <1>2, <3>1
  <2> QED
    BY <1>0, <2>1, <2>2, <2>3 DEF PopsInPools
<1>5. ASSUME NEW y \in Obj
      PROVE  held'[y] + lost'[y] + Pins(stack', y) + Cardinality(EntriesOf(stack', pools', y))
                + Cardinality(ItemsOf(stack', heap', items', y))
                = IF y \in heap' THEN rc'[y] ELSE 0
  BY <1>1, <1>3, CountedState
<1> QED
  BY <1>0, <1>1, <1>4, <1>5, CountedBy

\* The call of removeAllObjects sets the reference of the caller aside.
LEMMA RemoveAllCounted ==
    ASSUME CountInv, TypeInv', NEW c \in Obj, removeAllObjects(c)
    PROVE  Counted(held', lost', rc', stack', heap', items', pools')
<1>0. /\ TypeInv /\ WeakIndInv /\ StrongRefsLive /\ Distinct(stack, heap, rc)
      /\ pools \in Seq(Pool) /\ stack \in Seq(Frame)
      /\ held \in [Obj -> Nat] /\ Bounded(heap, items, pools) /\ PopsInPools(stack, pools)
  BY CountedState DEF WeakIndInv, DeallocsDistinct
<1>f. PICK f : f = [fn |-> "removeAll", obj |-> c, pool |-> 0, i |-> 1]
  OBVIOUS
<1>1. /\ stack' = Append(stack, f) /\ Receiver(c) /\ (held[c] > 0 \/ c = Self)
      /\ held' = [held EXCEPT ![c] = IF c = Self THEN @ ELSE @ - 1]
      /\ UNCHANGED <<heap, rc, items, pools, lost>>
  BY <1>f DEF removeAllObjects
<1>2. f \in Frame /\ f.i \in {0, 1} /\ f.fn = "removeAll" /\ f.obj = c
  BY <1>f DEF Frame, Id
<1>3. ASSUME NEW y
      PROVE  /\ EntriesOf(stack', pools, y) = EntriesOf(stack, pools, y)
             /\ ItemsOf(stack', heap, items, y) = ItemsOf(stack, heap, items, y)
  BY <1>0, <1>1, <1>2, AppendPending
<1>n. /\ DOMAIN stack' = 1 .. Len(stack) + 1 /\ stack'[Len(stack) + 1] = f
      /\ \A p \in DOMAIN stack : stack'[p] = stack[p]
      /\ DOMAIN stack = 1 .. Len(stack) /\ Len(stack) \in Nat
  BY <1>0, <1>1, <1>2, AppendElements
<1>d. \A p \in DOMAIN stack' : p \in DOMAIN stack \/ p = Len(stack) + 1
  BY <1>n
<1>4. PopsInPools(stack', pools)
  BY <1>0, <1>n, <1>d, <1>2 DEF PopsInPools
<1>5. \A p \in DOMAIN stack : ~(stack[p].fn = "removeAll" /\ stack[p].obj = c)
  BY <1>1 DEF Receiver, Draining, Elements
<1>6. ASSUME NEW y, y # c PROVE PinnedBy(stack', y) <=> PinnedBy(stack, y)
  <2>1. ASSUME NEW p \in DOMAIN stack
        PROVE  (\A q \in 1 .. p - 1 : stack'[q].fn = "dealloc" => stack'[q].obj # y)
               <=> (\A q \in 1 .. p - 1 : stack[q].fn = "dealloc" => stack[q].obj # y)
    <3>1. \A q \in 1 .. p - 1 : q \in DOMAIN stack
      BY <1>n
    <3> QED
      BY <1>n, <3>1
  <2>2. \A p \in DOMAIN stack : p \in DOMAIN stack'
    BY <1>n
  <2>3. stack'[Len(stack) + 1].obj # y
    BY <1>n, <1>2, <1>6
  <2> QED
    BY <1>n, <1>d, <2>1, <2>2, <2>3 DEF PinnedBy
<1>7. ~PinnedBy(stack, c)
  BY <1>5 DEF PinnedBy
<1>8. CASE c = Self
  <2>1. /\ stack # <<>> /\ Top.fn = "dealloc" /\ Top.obj = c
    BY <1>1, <1>8, DisjointAddresses DEF Receiver, UserRuns, Self
  <2>2. Len(stack) \in DOMAIN stack /\ Len(stack) \in 1 .. Len(stack) + 1 - 1
        /\ stack'[Len(stack)].fn = "dealloc" /\ stack'[Len(stack)].obj = c
    BY <1>0, <1>n, <2>1, TopFrame DEF Top
  <2>3. \A p \in DOMAIN stack' :
           stack'[p].fn = "removeAll" /\ stack'[p].obj = c => p = Len(stack) + 1
    BY <1>n, <1>d, <1>5
  <2>4. ~PinnedBy(stack', c)
    BY <2>2, <2>3 DEF PinnedBy
  <2>5. held' = held
    BY <1>0, <1>1, <1>8
  <2>6. ASSUME NEW y PROVE Pins(stack', y) = Pins(stack, y)
    BY <1>6, <1>7, <2>4 DEF Pins
  <2>7. ASSUME NEW y \in Obj
        PROVE  held'[y] + lost'[y] + Pins(stack', y) + Cardinality(EntriesOf(stack', pools', y))
                  + Cardinality(ItemsOf(stack', heap', items', y))
                  = IF y \in heap' THEN rc'[y] ELSE 0
    BY <1>1, <1>3, <2>5, <2>6, CountedState
  <2> QED
    BY <1>0, <1>1, <1>4, <2>7, CountedBy
<1>9. CASE c # Self
  <2>1. held[c] > 0 /\ held' = [held EXCEPT ![c] = @ - 1]
    BY <1>1, <1>9
  <2>2. rc[c] > 0
    BY <1>0, <2>1 DEF StrongRefsLive, StrongRef, Live
  <2>3. \A q \in DOMAIN stack : stack[q].fn = "dealloc" => stack[q].obj # c
    BY <1>0, <2>2, AliveNotInDealloc
  <2>4. PinnedBy(stack', c)
    <3>1. \A q \in 1 .. Len(stack) + 1 - 1 : stack'[q].fn = "dealloc" => stack'[q].obj # c
      BY <1>n, <2>3
    <3>2. Len(stack) + 1 \in DOMAIN stack'
      BY <1>n
    <3> QED
      BY <1>n, <1>2, <3>1, <3>2 DEF PinnedBy
  <2>5. ASSUME NEW y
        PROVE  Pins(stack', y) = Pins(stack, y) + (IF y = c THEN 1 ELSE 0)
    BY <1>6, <1>7, <2>4 DEF Pins
  <2>6. ASSUME NEW y \in Obj
        PROVE  held'[y] + lost'[y] + Pins(stack', y) + Cardinality(EntriesOf(stack', pools', y))
                  + Cardinality(ItemsOf(stack', heap', items', y))
                  = IF y \in heap' THEN rc'[y] ELSE 0
    <3>1. held'[y] = (IF y = c THEN held[y] - 1 ELSE held[y])
          /\ UNCHANGED <<heap, rc, items, pools, lost>>
      BY <1>0, <1>1, <2>1
    <3>2. /\ held[y] \in Nat /\ lost[y] \in Nat /\ Pins(stack, y) \in Nat
          /\ Cardinality(EntriesOf(stack, pools, y)) \in Nat
          /\ Cardinality(ItemsOf(stack, heap, items, y)) \in Nat
          /\ held[y] + lost[y] + Pins(stack, y) + Cardinality(EntriesOf(stack, pools, y))
                + Cardinality(ItemsOf(stack, heap, items, y))
             = IF y \in heap THEN rc[y] ELSE 0
      BY CountedState
    <3> QED
      BY ONLY <1>3, <2>5, <3>1, <3>2
  <2> QED
    BY <1>0, <1>1, <1>4, <2>6, CountedBy
<1> QED
  BY <1>8, <1>9

\* The array that an operation is called on.
LEMMA ReceiverState ==
    ASSUME CountInv, NEW c \in Obj, Receiver(c)
    PROVE  /\ c \in heap /\ Quiet(stack, c) /\ items[c] \in Seq(Obj) /\ Len(items[c]) <= MaxItems
           /\ \A j \in DOMAIN items[c] : items[c][j] \in Obj /\ items[c][j] \in heap
                                         /\ rc[items[c][j]] # 0
<1>1. /\ TypeInv /\ WeakIndInv /\ StrongRefsLive /\ items \in [Obj -> Seq(Obj)]
      /\ rc \in [Obj -> Nat] /\ Bounded(heap, items, pools)
  BY CountedState
<1>2. c \in heap /\ \A j \in DOMAIN items[c] : items[c][j] \in Obj /\ Live(items[c][j])
  BY <1>1, ReceiverElements
<1>3. Quiet(stack, c)
  BY <1>1, ReceiverQuiet
<1> QED
  BY <1>1, <1>2, <1>3 DEF Bounded, Live

LEMMA InsertCounted ==
    ASSUME CountInv, TypeInv', NEW c \in Obj, NEW o \in Obj, NEW j \in 1 .. MaxItems,
           insertObject(c, j, o)
    PROVE  Counted(held', lost', rc', stack', heap', items', pools')
<1>0. /\ WeakIndInv /\ StrongRefsLive /\ rc \in [Obj -> Nat]
      /\ items \in [Obj -> Seq(Obj)] /\ heap \subseteq Obj /\ IsFiniteSet(heap)
      /\ Bounded(heap, items, pools) /\ PopsInPools(stack, pools)
  BY CountedState
<1>1. /\ Receiver(c) /\ o \in Referenced /\ Len(items[c]) < MaxItems
      /\ j \in 1 .. Len(items[c]) + 1 /\ j \in Nat
      /\ rc' = [rc EXCEPT ![o] = @ + 1] /\ items' = [items EXCEPT ![c] = InsertAt(@, j, o)]
      /\ UNCHANGED <<heap, pools, stack, held, lost>>
  BY DEF insertObject
<1>2. o \in heap
  BY <1>0, <1>1, ReferencedAlive DEF WeakIndInv, Live
<1>3. c \in heap /\ Quiet(stack, c) /\ items[c] \in Seq(Obj)
  BY <1>1, ReceiverState
<1>4. Inserted(items[c], items'[c], j, o)
  <2>1. \A x \in Obj : j \in 1 .. Len(items[c]) + 1 => Inserted(items[c], InsertAt(items[c], j, x), j, x)
    BY ONLY <1>3, <1>1, j \in Nat, InsertDelete
  <2>2. items'[c] = InsertAt(items[c], j, o)
    BY <1>0, <1>1
  <2> QED
    BY <1>1, <2>1, <2>2
<1>5. items'[c] \in Seq(Obj) /\ Len(items'[c]) <= MaxItems /\ \A d \in Obj : d # c => items'[d] = items[d]
  <2>1. items'[c] \in Seq(Obj)
    BY DEF TypeInv, TypeOK
  <2>2. Len(items'[c]) = Len(items[c]) + 1 /\ Len(items[c]) \in Nat /\ MaxItems \in Nat
    BY <1>3, <1>4, BoundsAreNat DEF Inserted
  <2>3. \A d \in Obj : d # c => items'[d] = items[d]
    BY <1>0, <1>1
  <2> QED
    BY <1>1, <2>1, <2>2, <2>3
<1>6. Grown(heap, items, items', c, j, o)
  BY <1>0, <1>3, <1>4, <1>5 DEF Grown
<1>7. ASSUME NEW y
      PROVE  Cardinality(ItemsOf(stack, heap, items', y))
                = Cardinality(ItemsOf(stack, heap, items, y)) + (IF y = o THEN 1 ELSE 0)
  BY ONLY <1>0, <1>3, <1>6, InsertPending
<1>8. Bounded(heap', items', pools')
  <2>1. \A d \in Obj : Len(items'[d]) <= MaxItems
    BY <1>0, <1>5 DEF Bounded
  <2> QED
    BY <1>0, <1>1, <2>1 DEF Bounded
<1>9. ASSUME NEW y \in Obj
      PROVE  held'[y] + lost'[y] + Pins(stack', y) + Cardinality(EntriesOf(stack', pools', y))
                + Cardinality(ItemsOf(stack', heap', items', y))
                = IF y \in heap' THEN rc'[y] ELSE 0
  <2>1. /\ rc'[y] = (IF y = o THEN rc[y] + 1 ELSE rc[y]) /\ (y = o => y \in heap) /\ rc[y] \in Nat
        /\ UNCHANGED <<heap, pools, stack, held, lost>>
    BY <1>0, <1>1, <1>2
  <2>2. /\ held[y] \in Nat /\ lost[y] \in Nat /\ Pins(stack, y) \in Nat
        /\ Cardinality(EntriesOf(stack, pools, y)) \in Nat
        /\ Cardinality(ItemsOf(stack, heap, items, y)) \in Nat
        /\ held[y] + lost[y] + Pins(stack, y) + Cardinality(EntriesOf(stack, pools, y))
              + Cardinality(ItemsOf(stack, heap, items, y))
           = IF y \in heap THEN rc[y] ELSE 0
    BY CountedState
  <2> QED
    BY ONLY <1>7, <2>1, <2>2
<1> QED
  BY <1>0, <1>1, <1>8, <1>9, CountedBy

LEMMA ReplaceCounted ==
    ASSUME CountInv, TypeInv', NEW c \in Obj, NEW o \in Obj, NEW j \in 1 .. MaxItems,
           replaceObjectAtIndex(c, j, o)
    PROVE  Counted(held', lost', rc', stack', heap', items', pools')
<1> DEFINE counts == [rc EXCEPT ![o] = @ + 1]
           old == items[c][j]
<1>0. /\ WeakIndInv /\ StrongRefsLive /\ rc \in [Obj -> Nat] /\ stack \in Seq(Frame)
      /\ pools \in Seq(Pool) /\ held \in [Obj -> Nat] /\ lost \in [Obj -> Nat]
      /\ items \in [Obj -> Seq(Obj)] /\ heap \subseteq Obj /\ IsFiniteSet(heap)
      /\ Bounded(heap, items, pools) /\ PopsInPools(stack, pools)
  BY CountedState
<1>1. /\ Receiver(c) /\ o \in Referenced /\ j \in DOMAIN items[c]
      /\ items' = [items EXCEPT ![c][j] = o] /\ ReleaseRef(counts, old, stack)
      /\ UNCHANGED <<heap, pools, held, lost>>
  BY DEF replaceObjectAtIndex
<1>2. o \in heap
  BY <1>0, <1>1, ReferencedAlive DEF WeakIndInv, Live
<1>3. /\ c \in heap /\ Quiet(stack, c) /\ items[c] \in Seq(Obj) /\ Len(items[c]) <= MaxItems
      /\ old \in Obj /\ old \in heap /\ rc[old] # 0
  BY <1>1, ReceiverState
<1>4. /\ counts \in [Obj -> Nat] /\ counts[old] # 0
      /\ \A y \in Obj : counts[y] = rc[y] + (IF y = o THEN 1 ELSE 0) /\ rc[y] \in Nat
  <2>1. counts \in [Obj -> Nat]
    BY <1>0, IncrementType
  <2>2. ASSUME NEW y \in Obj PROVE counts[y] = rc[y] + (IF y = o THEN 1 ELSE 0) /\ rc[y] \in Nat
    BY <1>0
  <2> QED
    BY <1>3, <2>1, <2>2
<1>5. Exchanged(heap, items, items', c, j, old, o)
  <2>1. items'[c] = [items[c] EXCEPT ![j] = o] /\ \A d \in heap : d # c => items'[d] = items[d]
    BY <1>0, <1>1
  <2> QED
    BY <1>1, <1>3, <2>1 DEF Exchanged
<1>b. Bounded(heap, items', pools)
  <2>1. \A d \in Obj : Len(items'[d]) = Len(items[d])
    <3> SUFFICES ASSUME NEW d \in Obj PROVE Len(items'[d]) = Len(items[d])
      OBVIOUS
    <3>1. items'[d] = IF d = c THEN [items[c] EXCEPT ![j] = o] ELSE items[d]
      BY <1>0, <1>1
    <3>2. Len([items[c] EXCEPT ![j] = o]) = Len(items[c])
      BY <1>3
    <3> QED
      BY <3>1, <3>2
  <2> QED
    BY <1>0, <2>1 DEF Bounded
<1> HIDE DEF counts, old
<1>6. ASSUME NEW y
      PROVE  Cardinality(ItemsOf(stack, heap, items', y)) + (IF y = old THEN 1 ELSE 0)
                = Cardinality(ItemsOf(stack, heap, items, y)) + (IF y = o THEN 1 ELSE 0)
  BY ONLY <1>0, <1>3, <1>5, ReplacePending
<1>7. ASSUME NEW y \in Obj
      PROVE  Sum(held, lost, stack, heap, items', pools, y) + (IF y = old THEN 1 ELSE 0)
                = IF y \in heap THEN counts[y] ELSE 0
  <2>1. /\ held[y] \in Nat /\ lost[y] \in Nat /\ Pins(stack, y) \in Nat
        /\ Cardinality(EntriesOf(stack, pools, y)) \in Nat
        /\ Cardinality(ItemsOf(stack, heap, items, y)) \in Nat
        /\ held[y] + lost[y] + Pins(stack, y) + Cardinality(EntriesOf(stack, pools, y))
              + Cardinality(ItemsOf(stack, heap, items, y))
           = IF y \in heap THEN rc[y] ELSE 0
    BY CountedState
  <2>2. y = o => y \in heap
    BY <1>2
  <2>3. Cardinality(ItemsOf(stack, heap, items', y)) \in Nat
    BY <1>0, FinitePending
  <2> QED
    BY ONLY <1>6, <1>4, <2>1, <2>2, <2>3, y \in Obj DEF Sum
<1>8. Balanced(held, lost, counts, stack, heap, items', pools, old)
  BY <1>7 DEF Balanced
<1>9. Counted(held, lost, rc', stack', heap, items', pools)
  BY ONLY <1>0, <1>1, <1>3, <1>4, <1>b, <1>8, ReleaseCounted
<1> QED
  BY <1>1, <1>9

LEMMA RemoveCounted ==
    ASSUME CountInv, TypeInv', NEW c \in Obj, NEW j \in 1 .. MaxItems,
           removeObjectAtIndex(c, j)
    PROVE  Counted(held', lost', rc', stack', heap', items', pools')
<1> DEFINE old == items[c][j]
<1>0. /\ rc \in [Obj -> Nat] /\ stack \in Seq(Frame)
      /\ pools \in Seq(Pool) /\ held \in [Obj -> Nat] /\ lost \in [Obj -> Nat]
      /\ items \in [Obj -> Seq(Obj)] /\ heap \subseteq Obj /\ IsFiniteSet(heap)
      /\ Bounded(heap, items, pools) /\ PopsInPools(stack, pools)
  BY CountedState
<1>1. /\ Receiver(c) /\ j \in DOMAIN items[c] /\ j \in Nat
      /\ items' = [items EXCEPT ![c] = DeleteAt(@, j)] /\ ReleaseRef(rc, old, stack)
      /\ UNCHANGED <<heap, pools, held, lost>>
  BY BoundsAreNat DEF removeObjectAtIndex
<1>3. /\ c \in heap /\ Quiet(stack, c) /\ items[c] \in Seq(Obj) /\ Len(items[c]) <= MaxItems
      /\ old \in Obj /\ old \in heap /\ rc[old] # 0
  BY <1>1, ReceiverState
<1>4. Inserted(items'[c], items[c], j, old)
  <2>1. j \in 1 .. Len(items[c]) => Inserted(DeleteAt(items[c], j), items[c], j, old)
    BY ONLY <1>3, <1>1, InsertDelete DEF old
  <2>2. items'[c] = DeleteAt(items[c], j) /\ j \in 1 .. Len(items[c])
    BY <1>0, <1>1, <1>3
  <2> QED
    BY <2>1, <2>2
<1> HIDE DEF old
<1>t. items' \in [Obj -> Seq(Obj)]
  BY DEF TypeInv, TypeOK
<1>d. \A d \in Obj : d # c => items'[d] = items[d]
  BY <1>0, <1>1
<1>5. Grown(heap, items', items, c, j, old)
  BY <1>0, <1>3, <1>4, <1>t, <1>d DEF Grown
<1>b. Bounded(heap, items', pools)
  <2>1. Len(items'[c]) <= MaxItems
    <3>1. Len(items'[c]) \in Nat /\ Len(items[c]) = Len(items'[c]) + 1 /\ MaxItems \in Nat
      BY <1>4, <1>t, BoundsAreNat DEF Inserted
    <3> QED
      BY <1>3, <3>1
  <2>2. \A d \in Obj : Len(items'[d]) <= MaxItems
    BY <1>0, <1>d, <2>1 DEF Bounded
  <2> QED
    BY <1>0, <2>2 DEF Bounded
<1>6. ASSUME NEW y
      PROVE  Cardinality(ItemsOf(stack, heap, items, y))
                = Cardinality(ItemsOf(stack, heap, items', y)) + (IF y = old THEN 1 ELSE 0)
  BY ONLY <1>0, <1>3, <1>5, InsertPending
<1>7. ASSUME NEW y \in Obj
      PROVE  Sum(held, lost, stack, heap, items', pools, y) + (IF y = old THEN 1 ELSE 0)
                = IF y \in heap THEN rc[y] ELSE 0
  <2>1. /\ held[y] \in Nat /\ lost[y] \in Nat /\ Pins(stack, y) \in Nat /\ rc[y] \in Nat
        /\ Cardinality(EntriesOf(stack, pools, y)) \in Nat
        /\ Cardinality(ItemsOf(stack, heap, items, y)) \in Nat
        /\ held[y] + lost[y] + Pins(stack, y) + Cardinality(EntriesOf(stack, pools, y))
              + Cardinality(ItemsOf(stack, heap, items, y))
           = IF y \in heap THEN rc[y] ELSE 0
    BY <1>0, CountedState
  <2>3. Cardinality(ItemsOf(stack, heap, items', y)) \in Nat
    BY <1>0, FinitePending
  <2> QED
    BY ONLY <1>6, <2>1, <2>3, y \in Obj DEF Sum
<1>8. Balanced(held, lost, rc, stack, heap, items', pools, old)
  BY <1>7 DEF Balanced
<1>9. Counted(held, lost, rc', stack', heap, items', pools)
  BY ONLY <1>0, <1>1, <1>3, <1>b, <1>8, ReleaseCounted
<1> QED
  BY <1>1, <1>9

LEMMA UpdateSeq ==
    ASSUME NEW q \in Seq(Obj), NEW a, NEW x \in Obj
    PROVE  /\ [q EXCEPT ![a] = x] \in Seq(Obj) /\ Len([q EXCEPT ![a] = x]) = Len(q)
           /\ DOMAIN [q EXCEPT ![a] = x] = DOMAIN q
<1>1. Len(q) \in Nat /\ q \in [1 .. Len(q) -> Obj]
  OBVIOUS
<1>2. [q EXCEPT ![a] = x] \in [1 .. Len(q) -> Obj]
  BY <1>1
<1> QED
  BY <1>1, <1>2

LEMMA ExchangeCounted ==
    ASSUME CountInv, TypeInv', NEW c \in Obj, NEW a \in 1 .. MaxItems, NEW b \in 1 .. MaxItems,
           exchangeObjectAtIndex(c, a, b)
    PROVE  Counted(held', lost', rc', stack', heap', items', pools')
<1> DEFINE mid == [items EXCEPT ![c][a] = items[c][b]]
           x == items[c][a]
           y == items[c][b]
<1>0. /\ items \in [Obj -> Seq(Obj)] /\ heap \subseteq Obj /\ IsFiniteSet(heap)
      /\ pools \in Seq(Pool) /\ Bounded(heap, items, pools) /\ PopsInPools(stack, pools)
  BY CountedState
<1>1. /\ Receiver(c) /\ a \in DOMAIN items[c] /\ b \in DOMAIN items[c]
      /\ items' = [items EXCEPT ![c][a] = items[c][b], ![c][b] = items[c][a]]
      /\ UNCHANGED <<heap, rc, pools, stack, held, lost>>
  BY DEF exchangeObjectAtIndex
<1>3. c \in heap /\ Quiet(stack, c) /\ items[c] \in Seq(Obj) /\ Len(items[c]) <= MaxItems
  BY <1>1, ReceiverState
<1>4. /\ mid[c] = [items[c] EXCEPT ![a] = y] /\ mid[c][b] = y
      /\ \A d \in heap : d # c => mid[d] = items[d]
  BY <1>0, <1>1, <1>3
<1>5. items'[c] = [mid[c] EXCEPT ![b] = x] /\ \A d \in Obj : d # c => items'[d] = items[d]
  BY <1>0, <1>1, <1>3, <1>4
<1>6. mid[c] \in Seq(Obj) /\ Len(mid[c]) = Len(items[c]) /\ DOMAIN mid[c] = DOMAIN items[c]
  <2>1. y \in Obj
    BY <1>1, <1>3
  <2> HIDE DEF y, mid
  <2>2. /\ [items[c] EXCEPT ![a] = y] \in Seq(Obj)
        /\ Len([items[c] EXCEPT ![a] = y]) = Len(items[c])
        /\ DOMAIN [items[c] EXCEPT ![a] = y] = DOMAIN items[c]
    BY <1>3, <2>1, UpdateSeq
  <2>3. mid[c] = [items[c] EXCEPT ![a] = y]
    BY <1>4
  <2> QED
    BY ONLY <2>2, <2>3
<1>7. Exchanged(heap, items, mid, c, a, x, y)
  BY <1>1, <1>3, <1>4 DEF Exchanged
<1>8. Exchanged(heap, mid, items', c, b, y, x)
  <2> HIDE DEF mid
  <2>1. \A d \in heap : d # c => items'[d] = mid[d]
    BY <1>0, <1>4, <1>5
  <2> QED
    BY <1>1, <1>3, <1>4, <1>5, <1>6, <2>1 DEF Exchanged
<1> HIDE DEF mid, x, y
<1>9. ASSUME NEW z
      PROVE  Cardinality(ItemsOf(stack, heap, items', z)) = Cardinality(ItemsOf(stack, heap, items, z))
  <2>1. Cardinality(ItemsOf(stack, heap, mid, z)) + (IF z = x THEN 1 ELSE 0)
           = Cardinality(ItemsOf(stack, heap, items, z)) + (IF z = y THEN 1 ELSE 0)
    BY ONLY <1>0, <1>3, <1>7, ReplacePending
  <2>2. Cardinality(ItemsOf(stack, heap, items', z)) + (IF z = y THEN 1 ELSE 0)
           = Cardinality(ItemsOf(stack, heap, mid, z)) + (IF z = x THEN 1 ELSE 0)
    BY ONLY <1>0, <1>3, <1>8, ReplacePending
  <2>3. /\ Cardinality(ItemsOf(stack, heap, items, z)) \in Nat
        /\ Cardinality(ItemsOf(stack, heap, mid, z)) \in Nat
        /\ Cardinality(ItemsOf(stack, heap, items', z)) \in Nat
    BY <1>0, FinitePending
  <2> QED
    BY ONLY <2>1, <2>2, <2>3
<1>10. Bounded(heap', items', pools')
  <2>1. Len(items'[c]) = Len(items[c])
    BY <1>5, <1>6
  <2>2. \A d \in Obj : Len(items'[d]) <= MaxItems
    BY <1>0, <1>3, <1>5, <2>1 DEF Bounded
  <2> QED
    BY <1>0, <1>1, <2>2 DEF Bounded
<1>11. ASSUME NEW z \in Obj
      PROVE  held'[z] + lost'[z] + Pins(stack', z) + Cardinality(EntriesOf(stack', pools', z))
                + Cardinality(ItemsOf(stack', heap', items', z))
                = IF z \in heap' THEN rc'[z] ELSE 0
  BY <1>1, <1>9, CountedState
<1> QED
  BY <1>0, <1>1, <1>10, <1>11, CountedBy

LEMMA StepCounted ==
    ASSUME CountInv, TypeInv', [NextThrow]_vars
    PROVE  Counted(held', lost', rc', stack', heap', items', pools')
<1>1. ASSUME NEW o \in Obj,
             nupa_alloc(o) \/ nupa_retain(o) \/ nupa_release(o) \/ nupa_autorelease(o)
      PROVE  Counted(held', lost', rc', stack', heap', items', pools')
  BY <1>1, UserKeepsCounted, UserReleaseCounted
<1>2. CASE nupa_autoreleasepoolPush
  BY <1>2, PoolStepCounted
<1>3. ASSUME NEW k \in 1 .. MaxPools, nupa_autoreleasepoolPop(k) \/ LeavePool(k)
      PROVE  Counted(held', lost', rc', stack', heap', items', pools')
  BY <1>3, PopCallCounted, PoolStepCounted
<1>4. ASSUME NEW c \in Obj, removeAllObjects(c)
      PROVE  Counted(held', lost', rc', stack', heap', items', pools')
  BY <1>4, RemoveAllCounted
<1>5. ASSUME NEW c \in Obj, NEW o \in Obj, NEW j \in 1 .. MaxItems,
             insertObject(c, j, o) \/ replaceObjectAtIndex(c, j, o)
      PROVE  Counted(held', lost', rc', stack', heap', items', pools')
  BY <1>5, InsertCounted, ReplaceCounted
<1>6. ASSUME NEW c \in Obj, NEW j \in 1 .. MaxItems, removeObjectAtIndex(c, j)
      PROVE  Counted(held', lost', rc', stack', heap', items', pools')
  BY <1>6, RemoveCounted
<1>7. ASSUME NEW c \in Obj, NEW a \in 1 .. MaxItems, NEW b \in 1 .. MaxItems,
             exchangeObjectAtIndex(c, a, b)
      PROVE  Counted(held', lost', rc', stack', heap', items', pools')
  BY <1>7, ExchangeCounted
<1>8. ASSUME NEW l \in Local, NEW o \in Id, WeakDecl(l, o)
      PROVE  Counted(held', lost', rc', stack', heap', items', pools')
  BY <1>8, KeepCounted DEF WeakDecl
<1>9. ASSUME NEW l \in Local, WeakScopeEnd(l) \/ WeakUnwind(l)
      PROVE  Counted(held', lost', rc', stack', heap', items', pools')
  BY <1>9, KeepCounted DEF WeakScopeEnd, WeakUnwind
<1>10. ASSUME NEW c \in WeakHolder, NEW o \in Id, WeakIvarStore(c, o)
       PROVE  Counted(held', lost', rc', stack', heap', items', pools')
  BY <1>10, KeepCounted DEF WeakIvarStore
<1>11. CASE Runtime
  BY <1>11, RuntimeCounted
<1>12. CASE UNCHANGED vars
  BY <1>12, KeepCounted DEF vars
<1>13. CASE User
  BY <1>13, <1>1, <1>2, <1>3, <1>4, <1>5, <1>6, <1>7, <1>8, <1>9, <1>10 DEF User
<1> QED
  BY <1>9, <1>11, <1>12, <1>13 DEF NextThrow, Next

LEMMA RcIsBalancedNext ==
    (TypeOK /\ IsFiniteSet(heap)
      => (RcIsOwners <=> Balanced(held, lost, rc, stack, heap, items, pools, Null)))'
BY RcIsBalanced, PTL

LEMMA CountStep == CountInv /\ TableHasRoom /\ [NextThrow]_vars => CountInv'
<1> SUFFICES ASSUME CountInv, TableHasRoom, [NextThrow]_vars PROVE CountInv'
  OBVIOUS
<1>1. TypeInv /\ WeakIndInv /\ StrongRefsLive
  BY CountedState
<1>2. TypeInv' /\ WeakIndInv'
  BY <1>1, TypeStep, WeakStep
<1>3. Counted(held', lost', rc', stack', heap', items', pools')
  BY <1>2, StepCounted
<1>4. /\ Bounded(heap', items', pools') /\ PopsInPools(stack', pools') /\ IsFiniteSet(heap')
      /\ Balanced(held', lost', rc', stack', heap', items', pools', Null)
  BY <1>3 DEF Counted, Bounded
<1>5. RcIsOwners'
  BY <1>2, <1>4, RcIsBalancedNext DEF TypeInv
<1> QED
  BY <1>2, <1>4, <1>5 DEF CountInv

LEMMA CountInit == Init => CountInv
<1> SUFFICES ASSUME Init PROVE CountInv
  OBVIOUS
<1>1. /\ heap = {} /\ rc = [o \in Obj |-> 0] /\ items = [o \in Obj |-> <<>>]
      /\ pools = <<>> /\ stack = <<>>
      /\ held = [o \in Obj |-> 0] /\ lost = [o \in Obj |-> 0]
  BY DEF Init
<1>2. TypeInv /\ WeakIndInv
  BY TypeInit, WeakInit
<1>3. Bounded(heap, items, pools) /\ PopsInPools(stack, pools) /\ IsFiniteSet(heap)
  <2>1. \A c \in Obj : Len(items[c]) <= MaxItems
    BY <1>1, BoundsAreNat
  <2> QED
    BY <1>1, <2>1, FS_EmptySet DEF Bounded, PopsInPools
<1>4. ASSUME NEW o \in Obj
      PROVE  /\ EntriesOf(stack, pools, o) = {} /\ ItemsOf(stack, heap, items, o) = {}
             /\ Pins(stack, o) = 0 /\ held[o] = 0 /\ lost[o] = 0 /\ o \notin heap
  BY <1>1 DEF EntriesOf, ItemsOf, Pins, PinnedBy
<1>5. ASSUME NEW o \in Obj
      PROVE  /\ Sum(held, lost, stack, heap, items, pools, o) \in Nat
             /\ Sum(held, lost, stack, heap, items, pools, o) = IF o \in heap THEN rc[o] ELSE 0
  <2>1. Cardinality({}) = 0
    BY FS_EmptySet
  <2> QED
    BY <1>4, <2>1 DEF Sum
<1>6. Balanced(held, lost, rc, stack, heap, items, pools, Null)
  BY <1>5, BalancedBy
<1>7. RcIsOwners
  BY <1>2, <1>3, <1>6, RcIsBalanced DEF TypeInv
<1> QED
  BY <1>2, <1>3, <1>7 DEF CountInv

-----------------------------------------------------------------------------
(* The theorems                                                              *)

LEMMA CountCorrect == SpecThrow /\ []TableHasRoom => []CountInv
BY CountInit, CountStep, PTL DEF SpecThrow

\* The retain count of every object is the number of references to it that a
\* variable, a pool, an array or a call in progress is still to release, and
\* an object that is not allocated has none: in every program that keeps the
\* ownership rules, whatever its deallocs do while a pop or a removeAllObjects
\* is in its loop, and as long as the weak table is not full.
THEOREM RetainCounts == SpecThrow /\ []TableHasRoom => []RcIsOwners
<1>1. CountInv => RcIsOwners
  BY DEF CountInv
<1> QED
  BY CountCorrect, <1>1, PTL

\* Every reference still to be released is to an object whose dealloc has not
\* begun: no release finds an object that is dead.
THEOREM StrongSafety == SpecThrow /\ []TableHasRoom => []StrongRefsLive
<1>1. CountInv => StrongRefsLive
  BY CountsAreRefs
<1> QED
  BY CountCorrect, <1>1, PTL

\* Zeroing weak references never dangle, whatever is thrown past them and
\* whatever a dealloc does, as long as the weak table is not full.
THEOREM WeakSafety == SpecThrow /\ []TableHasRoom => []WeakRefsLive
<1>1. CountInv => WeakRefsLive
  BY WeakRefAlive, DisjointAddresses DEF CountInv, WeakIndInv, WeakRefsLive
<1> QED
  BY CountCorrect, <1>1, PTL

\* Every entry of the weak table is of a live object, no object has two, and
\* every weak location that holds an object is registered under it.
THEOREM WeakTable == SpecThrow /\ []TableHasRoom => []WeakInv
<1>1. CountInv => WeakInv
  BY DEF CountInv, TypeInv, WeakIndInv, WeakInv
<1> QED
  BY CountCorrect, <1>1, PTL

\* No object is deallocated twice, and the loops over one array are not nested.
THEOREM DeallocSafety == SpecThrow /\ []TableHasRoom => []DeallocsDistinct
<1>1. CountInv => DeallocsDistinct
  BY DEF CountInv, WeakIndInv
<1> QED
  BY CountCorrect, <1>1, PTL

-----------------------------------------------------------------------------
(* The runtime implements ObjectLifetime                                     *)

\* An address that is not allocated has no count.
NoCountOfFree == \A o \in Obj : o \notin heap => rc[o] = 0
RefineInv == CountInv /\ OnceInv /\ NoCountOfFree

\* The weak references of the abstract specification.
WeakView == [x \in Loc |-> IF Readable(x) THEN cell[x] ELSE Null]

LEMMA LifetimeInit == Init => Lifetime!Init
BY DEF Init, Lifetime!Init, Readable

\* When an object dies, the readable weak references that change are those to
\* it: all of them are registered under it, and nothing else is.
LEMMA DieWeak ==
    ASSUME RefineInv, NEW o \in Obj,
           cell' = [x \in Loc |-> IF x \in Cleared(weak_table, o) THEN Null ELSE cell[x]],
           UNCHANGED <<heap, scope>>
    PROVE  WeakView' = [x \in Loc |-> IF WeakView[x] = o THEN Null ELSE WeakView[x]]
<1>0. /\ weak_table \in Seq(Entry) /\ EntriesWellFormed /\ Registered /\ OnceIn(weak_table)
      /\ o # Null
  BY OnceByTable, DisjointAddresses
     DEF RefineInv, CountInv, TypeInv, TypeOK, WeakIndInv
<1>1. ASSUME NEW x \in Loc, Readable(x)
      PROVE  cell'[x] = IF cell[x] = o THEN Null ELSE cell[x]
  <2>1. CASE cell[x] = o
    <3>1. PICK i \in DOMAIN weak_table :
             weak_table[i].object = o /\ x \in Elements(weak_table[i].slots)
      BY <1>0, <1>1, <2>1 DEF Registered
    <3>2. Elements(weak_table[i].slots) \subseteq Cleared(weak_table, o)
      <4>1. \A j, k \in DOMAIN weak_table :
               weak_table[j].object = weak_table[k].object => j = k
        BY <1>0 DEF EntriesWellFormed
      <4> QED
        BY ONLY <1>0, <3>1, <4>1, i \in DOMAIN weak_table, ClearTable
    <3> QED
      BY <2>1, <3>1, <3>2
  <2>2. CASE cell[x] # o /\ cell[x] # Null
    <3>1. PICK i \in DOMAIN weak_table :
             weak_table[i].object = cell[x] /\ x \in Elements(weak_table[i].slots)
      BY <1>0, <1>1, <2>2 DEF Registered
    <3>2. x \notin Cleared(weak_table, o)
      <4> SUFFICES ASSUME x \in Cleared(weak_table, o) PROVE FALSE
        OBVIOUS
      <4>1. HasEntry(weak_table, o) /\ x \in Elements(weak_table[find_entry(weak_table, o)].slots)
        BY DEF Cleared
      <4>2. PICK n \in DOMAIN weak_table : n = find_entry(weak_table, o) /\ weak_table[n].object = o
        BY <1>0, <4>1, FindEntry
      <4>3. i # n
        BY <2>2, <3>1, <4>2
      <4> QED
        BY <1>0, <3>1, <4>1, <4>2, <4>3 DEF OnceIn, Elements
    <3> QED
      BY <2>2, <3>2
  <2>3. CASE cell[x] = Null
    BY <2>3
  <2> QED
    BY <2>1, <2>2, <2>3
<1>2. \A x \in Loc : Readable(x)' <=> Readable(x)
  BY DEF Readable
<1> QED
  BY <1>0, <1>1, <1>2 DEF WeakView

\* Giving up one reference.
LEMMA ReleaseMaps ==
    ASSUME RefineInv, NEW o \in Obj, Live(o), NEW rest, ReleaseRef(rc, o, rest),
           UNCHANGED <<heap, scope>>
    PROVE  (Lifetime!Drop(o) \/ Lifetime!Die(o)) /\ NoCountOfFree'
<1>0. rc \in [Obj -> Nat] /\ rc[o] > 0 /\ rc[o] \in Nat /\ o \in heap /\ NoCountOfFree
  BY DEF RefineInv, CountInv, TypeInv, TypeOK, Live
<1>1. CASE rc[o] > 1 /\ rc' = [rc EXCEPT ![o] = @ - 1] /\ UNCHANGED <<cell, weak_table>>
  <2>1. WeakView' = WeakView
    BY <1>1 DEF WeakView, Readable
  <2>2. Lifetime!Drop(o)
    BY <1>1, <2>1 DEF Lifetime!Drop, WeakView
  <2>3. NoCountOfFree'
    BY <1>0, <1>1 DEF NoCountOfFree
  <2> QED
    BY <2>2, <2>3
<1>2. CASE /\ rc[o] <= 1 /\ rc' = [rc EXCEPT ![o] = 0]
           /\ cell' = [x \in Loc |-> IF x \in Cleared(weak_table, o) THEN Null ELSE cell[x]]
  <2>1. rc[o] = 1
    BY <1>0, <1>2
  <2>2. WeakView' = [x \in Loc |-> IF WeakView[x] = o THEN Null ELSE WeakView[x]]
    BY <1>2, DieWeak
  <2>3. Lifetime!Die(o)
    BY <1>2, <2>1, <2>2 DEF Lifetime!Die, WeakView
  <2>4. NoCountOfFree'
    BY <1>0, <1>2 DEF NoCountOfFree
  <2> QED
    BY <2>3, <2>4
<1> QED
  BY <1>1, <1>2 DEF ReleaseRef

\* Taking a reference to n and giving up one to o.
LEMMA SwapMaps ==
    ASSUME RefineInv, NEW o \in Obj, Live(o), NEW n \in Obj, Live(n), NEW rest,
           ReleaseRef([rc EXCEPT ![n] = @ + 1], o, rest), UNCHANGED <<heap, scope>>
    PROVE  /\ Lifetime!Swap(n, o) \/ Lifetime!Die(o) \/ UNCHANGED <<rc, WeakView>>
           /\ NoCountOfFree'
<1> DEFINE counts == [rc EXCEPT ![n] = @ + 1]
<1>0. /\ rc \in [Obj -> Nat] /\ rc[o] > 0 /\ rc[o] \in Nat /\ o \in heap
      /\ rc[n] > 0 /\ rc[n] \in Nat /\ n \in heap /\ NoCountOfFree
  BY DEF RefineInv, CountInv, TypeInv, TypeOK, Live
<1>1. counts \in [Obj -> Nat] /\ \A y \in Obj : counts[y] = IF y = n THEN rc[n] + 1 ELSE rc[y]
  BY <1>0
<1>2. ReleaseRef(counts, o, rest)
  OBVIOUS
<1> HIDE DEF counts
<1>3. CASE counts[o] > 1 /\ rc' = [counts EXCEPT ![o] = @ - 1] /\ UNCHANGED <<cell, weak_table>>
  <2>1. WeakView' = WeakView
    BY <1>3 DEF WeakView, Readable
  <2>2. CASE n = o
    <3>1. rc' = rc
      BY <1>0, <1>1, <1>3, <2>2
    <3> QED
      BY <1>0, <2>1, <3>1 DEF NoCountOfFree
  <2>3. CASE n # o
    <3>1. rc' = [rc EXCEPT ![n] = @ + 1, ![o] = @ - 1] /\ rc[o] > 1
      BY <1>0, <1>1, <1>3, <2>3 DEF counts
    <3>2. Lifetime!Swap(n, o)
      BY <1>0, <2>1, <2>3, <3>1 DEF Lifetime!Swap, WeakView
    <3>3. NoCountOfFree'
      BY <1>0, <1>1, <1>3 DEF NoCountOfFree
    <3> QED
      BY <3>2, <3>3
  <2> QED
    BY <2>2, <2>3
<1>4. CASE /\ counts[o] <= 1 /\ rc' = [counts EXCEPT ![o] = 0]
           /\ cell' = [x \in Loc |-> IF x \in Cleared(weak_table, o) THEN Null ELSE cell[x]]
  <2>1. n # o /\ rc[o] = 1
    BY <1>0, <1>1, <1>4
  <2>2. WeakView' = [x \in Loc |-> IF WeakView[x] = o THEN Null ELSE WeakView[x]]
    BY <1>4, DieWeak
  <2>3. rc' = [rc EXCEPT ![o] = 0, ![n] = @ + 1]
    BY <1>0, <1>1, <1>4, <2>1
  <2>4. n \in Lifetime!Alive \ {o}
    BY <1>0, <2>1 DEF Lifetime!Alive
  <2>5. Lifetime!Die(o)
    BY <2>1, <2>2, <2>3, <2>4 DEF Lifetime!Die, WeakView
  <2>6. NoCountOfFree'
    BY <1>0, <1>1, <1>4 DEF NoCountOfFree
  <2> QED
    BY <2>5, <2>6
<1> QED
  BY <1>2, <1>3, <1>4 DEF ReleaseRef

\* A step of the runtime is a step of ObjectLifetime or leaves its state alone.
Maps == Lifetime!Next \/ UNCHANGED <<rc, WeakView>>

LEMMA LifetimeKeeps ==
    ASSUME NoCountOfFree, UNCHANGED <<heap, rc, cell, scope>>
    PROVE  Maps /\ NoCountOfFree'
BY DEF Maps, WeakView, Readable, NoCountOfFree

LEMMA LifetimeRetain ==
    ASSUME RefineInv, NEW o \in Obj, Live(o), rc' = [rc EXCEPT ![o] = @ + 1],
           UNCHANGED <<heap, cell, scope>>
    PROVE  Maps /\ NoCountOfFree'
<1>1. rc \in [Obj -> Nat] /\ rc[o] > 0 /\ o \in heap /\ NoCountOfFree
  BY DEF RefineInv, CountInv, TypeInv, TypeOK, Live
<1>2. WeakView' = WeakView
  BY DEF WeakView, Readable
<1>3. Lifetime!Share(o)
  BY <1>1, <1>2 DEF Lifetime!Share, WeakView
<1>4. Lifetime!Next
  BY <1>3 DEF Lifetime!Next
<1>5. NoCountOfFree'
  BY <1>1 DEF NoCountOfFree
<1> QED
  BY <1>4, <1>5 DEF Maps

LEMMA LifetimePoint ==
    ASSUME NEW x \in Loc, NEW o, (o \in Obj /\ rc[o] > 0) \/ o = Null,
           WeakView' = [WeakView EXCEPT ![x] = o], UNCHANGED rc
    PROVE  Maps
<1>1. Lifetime!Point(x, o)
  BY DEF Lifetime!Point, Lifetime!Alive, WeakView
<1> QED
  BY <1>1 DEF Maps, Lifetime!Next

LEMMA LifetimeRelease ==
    ASSUME RefineInv, NEW o \in Obj, Live(o), NEW rest, ReleaseRef(rc, o, rest),
           UNCHANGED <<heap, scope>>
    PROVE  Maps /\ NoCountOfFree'
<1>1. (Lifetime!Drop(o) \/ Lifetime!Die(o)) /\ NoCountOfFree'
  BY ReleaseMaps
<1> QED
  BY <1>1 DEF Maps, Lifetime!Next

LEMMA LifetimeSwap ==
    ASSUME RefineInv, NEW o \in Obj, Live(o), NEW n \in Obj, Live(n), NEW rest,
           ReleaseRef([rc EXCEPT ![n] = @ + 1], o, rest), UNCHANGED <<heap, scope>>
    PROVE  Maps /\ NoCountOfFree'
<1>1. /\ Lifetime!Swap(n, o) \/ Lifetime!Die(o) \/ UNCHANGED <<rc, WeakView>>
      /\ NoCountOfFree'
  BY SwapMaps
<1> QED
  BY <1>1 DEF Maps, Lifetime!Next

LEMMA LifetimeStep ==
    ASSUME RefineInv, [Next]_vars
    PROVE  Maps /\ NoCountOfFree'
<1>0. /\ TypeInv /\ WeakIndInv /\ StrongRefsLive /\ NoCountOfFree /\ heap \subseteq Obj
      /\ rc \in [Obj -> Nat] /\ cell \in [Loc -> Id] /\ scope \in [Local -> Nat \cup {Out}]
      /\ Distinct(stack, heap, rc)
      /\ stack \in Seq(Frame) /\ WeakHolder \subseteq Obj /\ Obj \cap Local = {} /\ Null \notin Obj
  BY CountedState, DisjointAddresses
     DEF RefineInv, CountInv, TypeInv, TypeOK, WeakIndInv, DeallocsDistinct
<1>a. \A o \in Referenced : o \in Obj /\ Live(o)
  BY <1>0, ReferencedAlive DEF WeakIndInv
<1>h. \A o \in Obj : held[o] > 0 => Live(o)
  BY <1>0 DEF StrongRefsLive, StrongRef
<1>k. CASE UNCHANGED <<heap, rc, cell, scope>>
  BY <1>0, <1>k, LifetimeKeeps
<1>1. ASSUME NEW o \in Obj, nupa_alloc(o) PROVE Maps /\ NoCountOfFree'
  <2>1. /\ o \notin heap /\ heap' = heap \cup {o} /\ rc' = [rc EXCEPT ![o] = 1]
        /\ cell' = [x \in Loc |-> IF x = o THEN Null ELSE cell[x]] /\ UNCHANGED scope
    BY <1>1 DEF nupa_alloc
  <2>2. WeakView' = WeakView
    BY <1>0, <2>1 DEF WeakView, Readable
  <2>3. rc[o] = 0
    BY <1>0, <2>1 DEF NoCountOfFree
  <2>4. Lifetime!Create(o)
    BY <2>1, <2>2, <2>3 DEF Lifetime!Create, WeakView
  <2>5. NoCountOfFree'
    BY <1>0, <2>1 DEF NoCountOfFree
  <2> QED
    BY <2>4, <2>5 DEF Maps, Lifetime!Next
<1>2. ASSUME NEW o \in Obj, nupa_retain(o) PROVE Maps /\ NoCountOfFree'
  BY <1>2, <1>a, LifetimeRetain DEF nupa_retain
<1>3. ASSUME NEW o \in Obj, nupa_release(o) PROVE Maps /\ NoCountOfFree'
  BY <1>3, <1>h, LifetimeRelease DEF nupa_release
<1>4. ASSUME NEW c \in Obj, NEW o \in Obj, NEW j, insertObject(c, j, o)
      PROVE  Maps /\ NoCountOfFree'
  BY <1>4, <1>a, LifetimeRetain DEF insertObject
<1>5. ASSUME NEW c \in Obj, NEW o \in Obj, NEW j, replaceObjectAtIndex(c, j, o)
      PROVE  Maps /\ NoCountOfFree'
  <2>1. /\ Receiver(c) /\ Live(o) /\ j \in DOMAIN items[c]
        /\ ReleaseRef([rc EXCEPT ![o] = @ + 1], items[c][j], stack) /\ UNCHANGED <<heap, scope>>
    BY <1>5, <1>a DEF replaceObjectAtIndex
  <2>2. PICK x \in Obj : x = items[c][j] /\ Live(x)
    BY <1>0, <2>1, ReceiverElements
  <2> QED
    BY <2>1, <2>2, LifetimeSwap
<1>6. ASSUME NEW c \in Obj, NEW j, removeObjectAtIndex(c, j) PROVE Maps /\ NoCountOfFree'
  <2>1. /\ Receiver(c) /\ j \in DOMAIN items[c] /\ ReleaseRef(rc, items[c][j], stack)
        /\ UNCHANGED <<heap, scope>>
    BY <1>6 DEF removeObjectAtIndex
  <2>2. PICK x \in Obj : x = items[c][j] /\ Live(x)
    BY <1>0, <2>1, ReceiverElements
  <2> QED
    BY <2>1, <2>2, LifetimeRelease
<1>7. ASSUME NEW l \in Local, NEW o \in Id, WeakDecl(l, o) PROVE Maps /\ NoCountOfFree'
  <2>1. /\ cell' = [cell EXCEPT ![l] = o] /\ scope' = [scope EXCEPT ![l] = Len(stack)]
        /\ o \in Referenced \cup {Null} /\ UNCHANGED <<heap, rc>>
    BY <1>7 DEF WeakDecl
  <2>2. l \in Loc /\ Len(stack) # Out
    BY <1>0 DEF Loc, Out
  <2>3. WeakView' = [WeakView EXCEPT ![l] = o]
    BY <1>0, <2>1, <2>2 DEF WeakView, Readable
  <2>4. (o \in Obj /\ rc[o] > 0) \/ o = Null
    BY <1>a, <2>1 DEF Live
  <2>5. NoCountOfFree'
    BY <1>0, <2>1 DEF NoCountOfFree
  <2> QED
    BY <2>1, <2>2, <2>3, <2>4, <2>5, LifetimePoint
<1>8. ASSUME NEW l \in Local, WeakScopeEnd(l) PROVE Maps /\ NoCountOfFree'
  <2>1. scope' = [scope EXCEPT ![l] = Out] /\ UNCHANGED <<heap, rc, cell>> /\ l \in Loc
    BY <1>8 DEF WeakScopeEnd, Loc
  <2>2. WeakView' = [WeakView EXCEPT ![l] = Null]
    BY <1>0, <2>1 DEF WeakView, Readable
  <2>3. NoCountOfFree'
    BY <1>0, <2>1 DEF NoCountOfFree
  <2> QED
    BY <2>1, <2>2, <2>3, LifetimePoint
<1>9. ASSUME NEW c \in WeakHolder, NEW o \in Id, WeakIvarStore(c, o)
      PROVE  Maps /\ NoCountOfFree'
  <2>1. /\ UserRuns /\ c \in Referenced \cup {Self} /\ o \in Referenced \cup {Null}
        /\ cell' = [cell EXCEPT ![c] = o] /\ UNCHANGED <<heap, rc, scope>>
        /\ c \in Loc /\ c \notin Local /\ c # Null
    BY <1>0, <1>9 DEF WeakIvarStore, Loc
  <2>2. c \in heap
    <3>1. CASE c \in Referenced
      BY <1>a, <3>1 DEF Live
    <3>2. CASE c = Self
      <4>1. stack # <<>> /\ Top.fn = "dealloc" /\ Top.obj = c
        BY <2>1, <3>2 DEF Self, UserRuns
      <4>2. Len(stack) \in DOMAIN stack
        BY <1>0, <4>1, TopFrame
      <4> QED
        BY <1>0, <4>1, <4>2 DEF Distinct, Top
    <3> QED
      BY <2>1, <3>1, <3>2
  <2>3. WeakView' = [WeakView EXCEPT ![c] = o]
    BY <1>0, <2>1, <2>2 DEF WeakView, Readable
  <2>4. (o \in Obj /\ rc[o] > 0) \/ o = Null
    BY <1>a, <2>1 DEF Live
  <2>5. NoCountOfFree'
    BY <1>0, <2>1 DEF NoCountOfFree
  <2> QED
    BY <2>1, <2>3, <2>4, <2>5, LifetimePoint
<1>10. CASE PopStep
  <2>1. /\ stack # <<>> /\ Top.fn = "pop" /\ Top.i <= Len(pools[Top.pool].objs)
        /\ ReleaseRef(rc, pools[Top.pool].objs[Top.i], Resume(Top.i + 1))
        /\ UNCHANGED <<heap, scope>>
    BY <1>10 DEF PopStep
  <2>2. PICK x \in Obj : x = pools[Top.pool].objs[Top.i] /\ Live(x)
    BY <1>0, <2>1, PopElementAlive
  <2>3. PICK rest : ReleaseRef(rc, x, rest)
    BY <2>1, <2>2
  <2> QED
    BY <2>1, <2>2, <2>3, LifetimeRelease
<1>11. CASE DeallocStep \/ RemoveAllStep
  <2>1. /\ stack # <<>> /\ Top.fn # "pop" /\ Top.i <= Len(items[Top.obj])
        /\ ReleaseRef(rc, items[Top.obj][Top.i], Resume(Top.i + 1))
        /\ UNCHANGED <<heap, scope>>
    BY <1>11 DEF DeallocStep, RemoveAllStep
  <2>2. Top.i > 0
    BY <1>0, <1>11, <2>1, TopFrame DEF DeallocStep, RemoveAllStep
  <2>3. PICK x \in Obj : x = items[Top.obj][Top.i] /\ Live(x)
    BY <1>0, <2>1, <2>2, LoopElementAlive
  <2>4. PICK rest : ReleaseRef(rc, x, rest)
    BY <2>1, <2>3
  <2> QED
    BY <2>1, <2>3, <2>4, LifetimeRelease
<1>12. CASE DeallocEnd
  <2>1. /\ stack # <<>> /\ Top.fn = "dealloc" /\ heap' = heap \ {Top.obj}
        /\ UNCHANGED <<rc, cell, scope>>
    BY <1>12 DEF DeallocEnd
  <2>2. PICK c \in Obj : c = Top.obj /\ rc[c] = 0
    <3>1. Len(stack) \in DOMAIN stack
      BY <1>0, <2>1, TopFrame
    <3> QED
      BY <1>0, <2>1, <3>1 DEF Distinct, Top
  <2>3. NoCountOfFree'
    BY <1>0, <2>1, <2>2 DEF NoCountOfFree
  <2>4. CASE c \in Loc
    <3>1. WeakView' = [WeakView EXCEPT ![c] = Null]
      BY <1>0, <2>1, <2>2, <2>4 DEF WeakView, Readable
    <3> QED
      BY <2>1, <2>3, <2>4, <3>1, LifetimePoint
  <2>5. CASE c \notin Loc
    <3>1. WeakView' = WeakView
      BY <1>0, <2>1, <2>2, <2>5 DEF WeakView, Readable
    <3> QED
      BY <2>1, <2>3, <3>1 DEF Maps
  <2> QED
    BY <2>4, <2>5
<1>13. CASE Runtime
  BY <1>k, <1>10, <1>11, <1>12, <1>13 DEF Runtime, PopEnd, SuperDealloc, RemoveAllEnd
<1>14. CASE User
  BY <1>k, <1>1, <1>2, <1>3, <1>4, <1>5, <1>6, <1>7, <1>8, <1>9, <1>14
     DEF User, nupa_autorelease, nupa_autoreleasepoolPush, nupa_autoreleasepoolPop, LeavePool,
         removeAllObjects, exchangeObjectAtIndex
<1>15. CASE UNCHANGED vars
  BY <1>k, <1>15 DEF vars
<1> QED
  BY <1>13, <1>14, <1>15 DEF Next

LEMMA RefineStep == RefineInv /\ TableHasRoom /\ [Next]_vars => RefineInv'
<1> SUFFICES ASSUME RefineInv, TableHasRoom, [Next]_vars PROVE RefineInv'
  OBVIOUS
<1>1. [NextThrow]_vars
  BY DEF NextThrow
<1>2. CountInv'
  BY <1>1, CountStep DEF RefineInv
<1>3. OnceInv'
  BY OnceStep DEF RefineInv, CountInv
<1> QED
  BY <1>2, <1>3, LifetimeStep DEF RefineInv

LEMMA RefineInit == Init => RefineInv
BY CountInit, OnceInit DEF Init, RefineInv, NoCountOfFree

\* In programs that leave their blocks normally, and as long as the weak table
\* is not full, every step of the runtime is a step of ObjectLifetime or changes
\* nothing that ObjectLifetime sees: an object lives exactly as long as it has
\* references, and its weak references become nil in the step in which it dies.
THEOREM Refinement == Spec /\ []TableHasRoom => ImplementsLifetime
<1>1. RefineInv /\ [Next]_vars => [Lifetime!Next]_(Lifetime!vars)
  <2> SUFFICES ASSUME RefineInv, [Next]_vars PROVE [Lifetime!Next]_(Lifetime!vars)
    OBVIOUS
  <2>1. Maps
    BY LifetimeStep
  <2> QED
    BY <2>1 DEF Maps, Lifetime!vars, WeakView
<1> QED
  BY <1>1, LifetimeInit, RefineInit, RefineStep, PTL DEF Spec, ImplementsLifetime, Lifetime!Spec
=============================================================================
