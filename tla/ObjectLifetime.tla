--------------------------- MODULE ObjectLifetime ---------------------------
(***************************************************************************)
(* What the runtime promises to a program, without side tables, pools,     *)
(* arrays or call stacks: an object lives from its creation to the moment  *)
(* its last reference is given up, and in that very moment every weak      *)
(* reference to it becomes nil.  A weak reference changes at no other      *)
(* moment unless the program stores into it or its storage ends.           *)
(***************************************************************************)
EXTENDS Naturals

CONSTANTS Obj, Ref, Null

VARIABLES
    refs,   \* number of references to each object; 0 when it is not alive
    weak    \* what each weak reference reads as

vars == <<refs, weak>>

Alive == {o \in Obj : refs[o] > 0}

Init ==
    /\ refs = [o \in Obj |-> 0]
    /\ weak = [x \in Ref |-> Null]

\* The weak ivar of a new object is nil.
Create(o) ==
    /\ refs[o] = 0
    /\ refs' = [refs EXCEPT ![o] = 1]
    /\ UNCHANGED weak

Share(o) ==
    /\ refs[o] > 0
    /\ refs' = [refs EXCEPT ![o] = @ + 1]
    /\ UNCHANGED weak

Drop(o) ==
    /\ refs[o] > 1
    /\ refs' = [refs EXCEPT ![o] = @ - 1]
    /\ UNCHANGED weak

\* One call can also take a reference to n and give one to o up (replacing an
\* element of an array).
Swap(n, o) ==
    /\ refs[n] > 0 /\ refs[o] > 1 /\ n # o
    /\ refs' = [refs EXCEPT ![n] = @ + 1, ![o] = @ - 1]
    /\ UNCHANGED weak

Die(o) ==
    /\ refs[o] = 1
    /\ \/ refs' = [refs EXCEPT ![o] = 0]
       \/ \E n \in Alive \ {o} : refs' = [refs EXCEPT ![o] = 0, ![n] = @ + 1]
    /\ weak' = [x \in Ref |-> IF weak[x] = o THEN Null ELSE weak[x]]

\* A store, a declaration, or the end of the storage of a weak reference.
Point(x, o) ==
    /\ o \in Alive \cup {Null}
    /\ weak' = [weak EXCEPT ![x] = o]
    /\ UNCHANGED refs

Next ==
    \/ \E o \in Obj : Create(o) \/ Share(o) \/ Drop(o) \/ Die(o)
    \/ \E n, o \in Obj : Swap(n, o)
    \/ \E x \in Ref, o \in Obj \cup {Null} : Point(x, o)

Spec == Init /\ [][Next]_vars

=============================================================================
