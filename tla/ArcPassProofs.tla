--------------------------- MODULE ArcPassProofs ---------------------------
(***************************************************************************)
(* Theorems about ArcPass, for every set of names and objects and every    *)
(* nesting depth.                                                          *)
(***************************************************************************)
EXTENDS ArcPass, TLAPS

\* A name is declared in one scope at a time.
NoShadow ==
    \A i, j \in DOMAIN stack : \A x \in Var :
        stack[i].val[x] # None /\ stack[j].val[x] # None => i = j

\* The execution is in a block only if it is in the blocks around it.
TakenNested ==
    \A i, j \in DOMAIN stack : i <= j /\ stack[j].taken => stack[i].taken

\* The inductive invariant.  OwnedTracked is what makes ReleasedOnce inductive:
\* a variable to be released points to an object that is still owned, and no
\* other such variable does.
IInv == TypeOK /\ NoShadow /\ TakenNested /\ ReleasedOnce /\ OwnedTracked

-----------------------------------------------------------------------------
(* Scopes and sequences of them *)

LEMMA ScopeFields ==
    ASSUME NEW s \in Scope
    PROVE  /\ s.kind \in Kind /\ s.vars \subseteq Var /\ s.declared \subseteq Var
           /\ s.val \in [Var -> Value] /\ s.taken \in BOOLEAN
BY DEF Scope

LEMMA Scopes ==
    ASSUME TypeOK
    PROVE  /\ Len(stack) \in Nat /\ DOMAIN stack = 1 .. Len(stack)
           /\ \A i \in DOMAIN stack :
                 /\ stack[i] \in Scope
                 /\ stack[i].kind \in Kind /\ stack[i].vars \subseteq Var
                 /\ stack[i].declared \subseteq Var
                 /\ stack[i].val \in [Var -> Value] /\ stack[i].taken \in BOOLEAN
<1>0. stack \in Seq(Scope)
  BY DEF TypeOK
<1>1. /\ Len(stack) \in Nat /\ DOMAIN stack = 1 .. Len(stack)
      /\ \A i \in DOMAIN stack : stack[i] \in Scope
  BY ONLY <1>0
<1> QED
  BY <1>1, ScopeFields

LEMMA InFunctionDepth ==
    ASSUME TypeOK, InFunction
    PROVE  Depth \in DOMAIN stack /\ Depth \in Nat \ {0} /\ DOMAIN stack = 1 .. Depth
<1>1. stack \in Seq(Scope) /\ stack # <<>>
  BY DEF TypeOK, InFunction
<1>2. Len(stack) \in Nat \ {0} /\ DOMAIN stack = 1 .. Len(stack)
  BY <1>1
<1> QED
  BY <1>2 DEF Depth

LEMMA FunctionIsSeq ==
    ASSUME NEW S, NEW q \in Seq(S), NEW r,
           r = [i \in DOMAIN q |-> r[i]], \A i \in DOMAIN q : r[i] \in S
    PROVE  r \in Seq(S) /\ DOMAIN r = DOMAIN q /\ Len(r) = Len(q)
<1>1. Len(q) \in Nat /\ DOMAIN q = 1 .. Len(q)
  OBVIOUS
<1>2. r \in [1 .. Len(q) -> S]
  BY <1>1
<1>3. r \in Seq(S)
  BY <1>1, <1>2
<1> QED
  BY <1>1, <1>2, <1>3

LEMMA Prefix ==
    ASSUME NEW S, NEW q \in Seq(S), q # <<>>
    PROVE  LET r == SubSeq(q, 1, Len(q) - 1)
           IN  /\ r \in Seq(S) /\ DOMAIN r = 1 .. Len(q) - 1
               /\ DOMAIN r \subseteq DOMAIN q
               /\ \A i \in DOMAIN r : r[i] = q[i]
<1>1. Len(q) \in Nat /\ Len(q) - 1 \in Nat
  OBVIOUS
<1> QED
  BY <1>1

LEMMA NewScopeType ==
    ASSUME NEW kind \in Kind, NEW taken \in BOOLEAN
    PROVE  /\ NewScope(kind, taken) \in Scope
           /\ NewScope(kind, taken).vars = {}
           /\ NewScope(kind, taken).declared = {}
           /\ \A x \in Var : NewScope(kind, taken).val[x] = None
           /\ NewScope(kind, taken).taken = taken
BY DEF NewScope, Scope, Value

\* A tracked variable is the one its name means, and in a running function it
\* owns an object.
LEMMA PointeeOf ==
    ASSUME IInv, NEW i \in DOMAIN stack, NEW x \in Var, stack[i].val[x] # None
    PROVE  /\ Visible(x) /\ Decl(x) = i /\ Pointee(x) = stack[i].val[x]
           /\ Tracked(x) <=> x \in stack[i].vars
<1>1. Declares(i, x) /\ Visible(x)
  BY DEF Declares, Visible
<1>2. \A j \in DOMAIN stack : Declares(j, x) => j = i
  BY DEF IInv, NoShadow, Declares
<1>3. i \in Nat /\ i <= i
  BY Scopes DEF IInv
<1>4. /\ Decl(x) \in DOMAIN stack /\ Declares(Decl(x), x)
  <2>1. Declares(i, x) /\ \A j \in DOMAIN stack : Declares(j, x) => j <= i
    BY <1>1, <1>2, <1>3
  <2> QED
    BY <2>1 DEF Decl
<1>5. Decl(x) = i
  BY <1>2, <1>4
<1> QED
  BY <1>1, <1>5 DEF Pointee, Tracked

LEMMA VisibleDecl ==
    ASSUME IInv, NEW x \in Var, Visible(x)
    PROVE  /\ Decl(x) \in DOMAIN stack /\ stack[Decl(x)].val[x] # None
           /\ Pointee(x) = stack[Decl(x)].val[x]
           /\ Tracked(x) <=> x \in stack[Decl(x)].vars
<1>1. PICK i \in DOMAIN stack : stack[i].val[x] # None
  BY DEF Visible, Declares
<1> QED
  BY <1>1, PointeeOf

LEMMA TrackedVar ==
    ASSUME IInv, NEW i \in DOMAIN stack, NEW x \in stack[i].vars \cup stack[i].declared
    PROVE  x \in Var /\ stack[i].val[x] # None
BY Scopes DEF IInv, TypeOK

\* Enough for OwnedTracked to be preserved by a step that makes no new owner.
LEMMA FewerOwners ==
    ASSUME IInv,
           \A i \in DOMAIN stack' : \A x \in stack'[i].vars : stack'[i].taken =>
              /\ i \in DOMAIN stack /\ x \in stack[i].vars /\ stack[i].taken
              /\ stack'[i].val[x] = stack[i].val[x]
              /\ ref'[stack[i].val[x]] = "owned",
           \A o \in Obj : ref'[o] = "owned" =>
              /\ ref[o] = "owned"
              /\ \A i \in DOMAIN stack : \A x \in stack[i].vars :
                    stack[i].taken /\ stack[i].val[x] = o =>
                       /\ i \in DOMAIN stack' /\ x \in stack'[i].vars
                       /\ stack'[i].taken
    PROVE  OwnedTracked'
<1>1. ASSUME NEW o \in Obj, ref'[o] = "owned"
      PROVE  \E i \in DOMAIN stack' : \E x \in stack'[i].vars :
                stack'[i].taken /\ stack'[i].val[x] = o
  <2>1. PICK i \in DOMAIN stack : \E x \in stack[i].vars :
                stack[i].taken /\ stack[i].val[x] = o
    BY <1>1 DEF IInv, OwnedTracked, Owner
  <2> QED
    BY <1>1, <2>1
<1>2. ASSUME NEW i \in DOMAIN stack', NEW x \in stack'[i].vars, stack'[i].taken
      PROVE  stack'[i].val[x] \in Obj /\ ref'[stack'[i].val[x]] = "owned"
  BY <1>2 DEF IInv, OwnedTracked, Owner
<1>3. ASSUME NEW i \in DOMAIN stack', NEW j \in DOMAIN stack',
             NEW x \in stack'[i].vars, NEW y \in stack'[j].vars,
             stack'[i].taken, stack'[j].taken, stack'[i].val[x] = stack'[j].val[y]
      PROVE  i = j /\ x = y
  BY <1>3 DEF IInv, OwnedTracked, Owner
<1> QED
  BY <1>1, <1>2, <1>3 DEF OwnedTracked, Owner

LEMMA RunningTaken ==
    ASSUME IInv, Running, NEW i \in DOMAIN stack
    PROVE  stack[i].taken
<1>1. i <= Depth /\ Depth \in DOMAIN stack /\ stack[Depth].taken
  BY InFunctionDepth DEF IInv, Running, Top
<1> QED
  BY <1>1 DEF IInv, TakenNested

\* What the releases before an exit, or at the end of a scope, do.
LEMMA ReleasedFate ==
    ASSUME IInv, Running, NEW from \in DOMAIN stack, NEW R,
           R \subseteq collect_vars(from)
    PROVE  /\ \A x \in R : \E i \in from .. Depth :
                 x \in stack[i].vars /\ Pointee(x) = stack[i].val[x]
           /\ \A o \in Obj : Released(R)[o] \in {ref[o], "released"}
           /\ \A o \in Obj : (\A x \in R : Pointee(x) # o) => Released(R)[o] = ref[o]
           /\ Released(R) \in [Obj -> Fate]
<1>0. from \in Nat /\ Depth \in Nat /\ DOMAIN stack = 1 .. Depth
  BY InFunctionDepth DEF IInv, Running
<1>1. ASSUME NEW x \in R
      PROVE  \E i \in from .. Depth : /\ i \in DOMAIN stack /\ x \in stack[i].vars
                                      /\ Pointee(x) = stack[i].val[x]
                                      /\ Owner(i, x)
  <2>1. PICK i \in from .. Depth : x \in stack[i].vars
    BY DEF collect_vars
  <2>2. i \in DOMAIN stack
    BY <1>0, <2>1
  <2>3. x \in Var /\ stack[i].val[x] # None
    BY <2>1, <2>2, TrackedVar
  <2> QED
    BY <2>1, <2>2, <2>3, PointeeOf, RunningTaken DEF Owner
<1>2. ASSUME NEW o \in Obj, NEW z \in R, Pointee(z) = o
      PROVE  Released(R)[o] = "released"
  <2>1. PICK i \in DOMAIN stack : /\ z \in stack[i].vars /\ Owner(i, z)
                                  /\ stack[i].val[z] = o
    BY <1>1, <1>2
  <2>2. ref[o] = "owned"
    BY <2>1 DEF IInv, OwnedTracked
  <2>3. ASSUME NEW x \in R, NEW y \in R, Pointee(x) = o, Pointee(y) = o
        PROVE  x = y
    <3>1. PICK j \in DOMAIN stack : /\ x \in stack[j].vars /\ Owner(j, x)
                                    /\ stack[j].val[x] = o
      BY <1>1, <2>3
    <3>2. PICK k \in DOMAIN stack : /\ y \in stack[k].vars /\ Owner(k, y)
                                    /\ stack[k].val[y] = o
      BY <1>1, <2>3
    <3> QED
      BY <3>1, <3>2 DEF IInv, OwnedTracked
  <2> QED
    BY <1>2, <2>2, <2>3 DEF Released
<1>3. ASSUME NEW o \in Obj, \A x \in R : Pointee(x) # o
      PROVE  Released(R)[o] = ref[o]
  BY <1>3 DEF Released
<1>4. ref \in [Obj -> Fate] /\ "released" \in Fate
  BY DEF IInv, TypeOK, Fate
<1>5. \A o \in Obj : Released(R)[o] \in {ref[o], "released"}
  BY <1>2, <1>3
<1>6. Released(R) = [o \in Obj |-> Released(R)[o]]
  BY DEF Released
<1>7. Released(R) \in [Obj -> Fate]
  BY <1>4, <1>5, <1>6
<1> QED
  BY <1>1, <1>3, <1>5, <1>7

-----------------------------------------------------------------------------
(* Blocks *)

LEMMA PushKeepsIInv ==
    ASSUME IInv, InFunction, NEW kind \in Kind, NEW taken \in BOOLEAN,
           taken => Top.taken,
           stack' = Append(stack, NewScope(kind, taken)),
           after' = "none", read' = {}, ref' = ref
    PROVE  IInv'
<1> DEFINE new == NewScope(kind, taken)
<1>0. /\ Depth \in Nat \ {0} /\ DOMAIN stack = 1 .. Depth
      /\ \A i \in DOMAIN stack : stack[i] \in Scope
      /\ stack \in Seq(Scope)
  BY InFunctionDepth, Scopes DEF IInv, TypeOK
<1>1. /\ new \in Scope /\ new.vars = {} /\ new.declared = {}
      /\ \A x \in Var : new.val[x] = None
      /\ new.taken = taken
  BY NewScopeType
<1> HIDE DEF new
<1>2. stack' = Append(stack, new)
  BY DEF new
<1>3. /\ stack' \in Seq(Scope) /\ DOMAIN stack' = 1 .. Depth + 1
      /\ stack'[Depth + 1] = new
      /\ \A i \in DOMAIN stack : stack'[i] = stack[i]
  BY ONLY <1>0, <1>1, <1>2 DEF Depth
<1>4. \A i \in DOMAIN stack' : i # Depth + 1 => i \in DOMAIN stack /\ stack'[i] = stack[i]
  BY ONLY <1>0, <1>3
<1>5. \A i \in DOMAIN stack : i \in DOMAIN stack' /\ i # Depth + 1
  BY ONLY <1>0, <1>3
<1>6. TypeOK'
  <2>1. ref' \in [Obj -> Fate] /\ read' \subseteq Obj /\ after' = "none"
    BY DEF IInv, TypeOK
  <2>2. ASSUME NEW i \in DOMAIN stack', NEW x \in stack'[i].vars \cup stack'[i].declared
        PROVE  stack'[i].val[x] # None
    <3>1. i # Depth + 1
      BY <1>1, <1>3, <2>2
    <3> QED
      BY <1>4, <2>2, <3>1, TrackedVar
  <2> QED
    BY <1>3, <2>1, <2>2 DEF TypeOK
<1>7. NoShadow'
  BY <1>1, <1>3, <1>4 DEF IInv, NoShadow
<1>8. TakenNested'
  <2>1. SUFFICES ASSUME NEW i \in DOMAIN stack', NEW j \in DOMAIN stack',
                        i <= j, stack'[j].taken
                 PROVE  stack'[i].taken
    BY DEF TakenNested
  <2>2. CASE j # Depth + 1
    <3>1. i # Depth + 1
      BY <1>0, <1>3, <2>1, <2>2
    <3> QED
      BY <1>4, <2>1, <2>2, <3>1 DEF IInv, TakenNested
  <2>3. CASE j = Depth + 1 /\ i # Depth + 1
    <3>1. Running
      BY <1>1, <1>3, <2>1, <2>3 DEF Running
    <3> QED
      BY <1>4, <2>3, <3>1, RunningTaken
  <2> QED
    BY <2>1, <2>2, <2>3
<1>9. ReleasedOnce'
  BY DEF IInv, ReleasedOnce
<1>10. OwnedTracked'
  <2>1. ASSUME NEW i \in DOMAIN stack', NEW x \in stack'[i].vars
        PROVE  i \in DOMAIN stack /\ stack'[i] = stack[i]
    BY <1>1, <1>3, <1>4, <2>1
  <2>2. \A i \in DOMAIN stack : \A x \in stack[i].vars :
           stack[i].taken => ref[stack[i].val[x]] = "owned"
    BY DEF IInv, OwnedTracked, Owner
  <2> QED
    BY <1>3, <1>5, <2>1, <2>2, FewerOwners
<1> QED
  BY <1>6, <1>7, <1>8, <1>9, <1>10 DEF IInv

LEMMA LeaveKeepsIInv ==
    ASSUME IInv, Leave
    PROVE  IInv'
<1>0. /\ InFunction /\ Depth \in Nat \ {0} /\ DOMAIN stack = 1 .. Depth
      /\ Depth \in DOMAIN stack
      /\ stack \in Seq(Scope) /\ stack # <<>>
      /\ stack' = SubSeq(stack, 1, Depth - 1)
  BY InFunctionDepth DEF IInv, TypeOK, Leave, InFunction
<1>1. /\ stack' \in Seq(Scope) /\ DOMAIN stack' = 1 .. Depth - 1
      /\ \A i \in DOMAIN stack' : i \in DOMAIN stack /\ stack'[i] = stack[i]
  BY ONLY <1>0, Prefix DEF Depth
<1>2. \A i \in DOMAIN stack : i # Depth => i \in DOMAIN stack'
  BY ONLY <1>0, <1>1
<1>3. \A i \in DOMAIN stack' : i # Depth
  BY ONLY <1>0, <1>1
<1>4. /\ \A o \in Obj : ref'[o] \in {ref[o], "released"}
      /\ ref' \in [Obj -> Fate]
  <2>1. CASE Running
    <3>1. Top.vars \subseteq collect_vars(Depth)
      BY <1>0 DEF collect_vars, Top
    <3> QED
      BY ONLY <1>0, <2>1, <3>1, ReleasedFate, IInv, Leave DEF Leave
  <2>2. CASE ~Running
    BY <2>2 DEF Leave, IInv, TypeOK
  <2> QED
    BY <2>1, <2>2
<1>5. ASSUME NEW o \in Obj, ref'[o] = "owned",
             NEW x \in stack[Depth].vars, stack[Depth].taken
      PROVE  ref[o] = "owned" /\ stack[Depth].val[x] # o
  <2>1. ref[o] = "owned"
    BY <1>4, <1>5
  <2>2. Running /\ ref' = Released(Top.vars) /\ x \in Top.vars
    BY <1>0, <1>5 DEF Running, Top, Leave
  <2>3. Pointee(x) = stack[Depth].val[x]
    BY <1>0, <1>5, PointeeOf, TrackedVar
  <2>4. Pointee(x) = o => Released(Top.vars)[o] # "owned"
    BY <2>2 DEF Released
  <2> QED
    BY <1>5, <2>1, <2>2, <2>3, <2>4
<1>6. ASSUME NEW i \in DOMAIN stack', NEW x \in stack'[i].vars, stack'[i].taken
      PROVE  ref'[stack[i].val[x]] = "owned"
  <2>1. i \in DOMAIN stack /\ i # Depth /\ stack'[i] = stack[i]
    BY <1>1, <1>3
  <2>2. stack[i].val[x] \in Obj /\ ref[stack[i].val[x]] = "owned"
    BY <1>6, <2>1 DEF IInv, OwnedTracked, Owner
  <2>3. CASE ~Running
    BY <2>2, <2>3 DEF Leave
  <2>4. CASE Running
    <3>1. ASSUME NEW y \in Top.vars
          PROVE  Pointee(y) # stack[i].val[x]
      <4>1. y \in stack[Depth].vars /\ stack[Depth].taken
        BY <2>4, <3>1 DEF Top, Running
      <4>2. stack[Depth].val[y] # stack[i].val[x]
        BY <1>0, <1>6, <2>1, <4>1 DEF IInv, OwnedTracked, Owner
      <4> QED
        BY <1>0, <4>1, <4>2, PointeeOf, TrackedVar
    <3>2. ref' = Released(Top.vars)
      BY <2>4 DEF Leave
    <3> QED
      BY <2>2, <3>1, <3>2 DEF Released
  <2> QED
    BY <2>3, <2>4
<1>7. OwnedTracked'
  <2>1. ASSUME NEW o \in Obj, ref'[o] = "owned"
        PROVE  /\ ref[o] = "owned"
               /\ \A i \in DOMAIN stack : \A x \in stack[i].vars :
                     stack[i].taken /\ stack[i].val[x] = o =>
                        /\ i \in DOMAIN stack' /\ x \in stack'[i].vars
                        /\ stack'[i].taken
    <3>1. ref[o] = "owned"
      BY <1>4, <2>1
    <3>2. ASSUME NEW i \in DOMAIN stack, NEW x \in stack[i].vars,
                 stack[i].taken, stack[i].val[x] = o
          PROVE  i # Depth
      BY <1>5, <2>1, <3>2
    <3> QED
      BY <1>1, <1>2, <3>1, <3>2
  <2> QED
    BY <1>1, <1>6, <2>1, FewerOwners
<1>8. TypeOK'
  <2>1. after' \in {"none", "if taken", "if skipped"} /\ read' = {}
    BY DEF Leave
  <2>2. \A i \in DOMAIN stack' : \A x \in stack'[i].vars \cup stack'[i].declared :
           stack'[i].val[x] # None
    BY <1>1, TrackedVar
  <2> QED
    BY <1>1, <1>4, <2>1, <2>2 DEF TypeOK
<1>9. NoShadow' /\ TakenNested' /\ ReleasedOnce'
  BY <1>1, <1>4 DEF IInv, NoShadow, TakenNested, ReleasedOnce
<1> QED
  BY <1>7, <1>8, <1>9 DEF IInv

-----------------------------------------------------------------------------
(* Releases by the program, and exits *)

\* The program releases, or the pass forgets, the object of a running variable.
Dead(x) == Tracked(x) /\ stack[Decl(x)].taken

LEMMA ManualReleaseFrame ==
    ASSUME IInv, NEW x \in Var, ManualRelease(x)
    PROVE  /\ stack' \in Seq(Scope) /\ DOMAIN stack' = DOMAIN stack
           /\ after' = "none" /\ read' = {}
           /\ \A i \in DOMAIN stack :
                 /\ stack'[i].vars = stack[i].vars \ {x}
                 /\ stack'[i].declared = stack[i].declared
                 /\ stack'[i].val = stack[i].val
                 /\ stack'[i].taken = stack[i].taken
           /\ Dead(x) => \E i \in DOMAIN stack :
                 /\ x \in stack[i].vars /\ stack[i].taken
                 /\ stack[i].val[x] = Pointee(x)
                 /\ Pointee(x) \in Obj
           /\ \A i \in DOMAIN stack : x \in stack[i].vars /\ stack[i].taken =>
                 Dead(x) /\ Pointee(x) = stack[i].val[x]
           /\ ref' \in [Obj -> Fate]
           /\ \A o \in Obj : ref'[o] \in {ref[o], "gone", "stray"}
           /\ \A o \in Obj : ~(Dead(x) /\ o = Pointee(x)) => ref'[o] = ref[o]
           /\ Dead(x) => ref'[Pointee(x)] \in {"gone", "stray"}
<1> DEFINE dead == Dead(x)
<1>0. /\ Visible(x) /\ stack \in Seq(Scope)
      /\ stack' = [i \in DOMAIN stack |-> [stack[i] EXCEPT !.vars = @ \ {x}]]
      /\ after' = "none" /\ read' = {}
      /\ ~dead => ref' = ref
      /\ dead => ref' \in {[ref EXCEPT ![Pointee(x)] = "gone"],
                           [ref EXCEPT ![Pointee(x)] = "stray"]}
  BY DEF ManualRelease, IInv, TypeOK, Dead
<1>1. ASSUME NEW i \in DOMAIN stack
      PROVE  /\ stack'[i] \in Scope /\ stack'[i].vars = stack[i].vars \ {x}
             /\ stack'[i].declared = stack[i].declared /\ stack'[i].val = stack[i].val
             /\ stack'[i].taken = stack[i].taken
  <2>1. stack[i] \in Scope
    BY Scopes DEF IInv
  <2>2. stack'[i] = [stack[i] EXCEPT !.vars = @ \ {x}]
    BY <1>0
  <2> QED
    BY <2>1, <2>2 DEF Scope
<1>2. stack' \in Seq(Scope) /\ DOMAIN stack' = DOMAIN stack
  <2>1. stack' = [i \in DOMAIN stack |-> stack'[i]]
    BY <1>0
  <2>2. stack \in Seq(Scope)
    BY <1>0
  <2> QED
    BY ONLY <1>1, <2>1, <2>2, FunctionIsSeq
<1>3. dead => \E i \in DOMAIN stack : /\ x \in stack[i].vars /\ stack[i].taken
                                      /\ stack[i].val[x] = Pointee(x)
                                      /\ Pointee(x) \in Obj
  <2> SUFFICES ASSUME dead
               PROVE  LET i == Decl(x)
                      IN  /\ i \in DOMAIN stack /\ x \in stack[i].vars /\ stack[i].taken
                          /\ stack[i].val[x] = Pointee(x)
                          /\ Pointee(x) \in Obj
    OBVIOUS
  <2>1. /\ Decl(x) \in DOMAIN stack /\ x \in stack[Decl(x)].vars
        /\ stack[Decl(x)].val[x] = Pointee(x)
    BY <1>0, VisibleDecl DEF Dead
  <2> QED
    BY <2>1 DEF IInv, OwnedTracked, Owner, Dead
<1> HIDE DEF dead
<1>4. /\ ref' \in [Obj -> Fate]
      /\ \A o \in Obj : ref'[o] \in {ref[o], "gone", "stray"}
      /\ \A o \in Obj : ~(dead /\ o = Pointee(x)) => ref'[o] = ref[o]
      /\ dead => ref'[Pointee(x)] \in {"gone", "stray"}
  <2>1. ref \in [Obj -> Fate] /\ {"gone", "stray"} \subseteq Fate
    BY DEF IInv, TypeOK, Fate
  <2> QED
    BY <1>0, <1>3, <2>1
<1>5. ASSUME NEW i \in DOMAIN stack, x \in stack[i].vars, stack[i].taken
      PROVE  dead /\ Pointee(x) = stack[i].val[x]
  <2>1. Decl(x) = i /\ Pointee(x) = stack[i].val[x] /\ Tracked(x)
    BY <1>5, TrackedVar, PointeeOf
  <2> QED
    BY <1>5, <2>1 DEF dead, Dead
<1>6. after' = "none" /\ read' = {}
  BY <1>0
<1>7. dead <=> Dead(x)
  BY DEF dead
<1> QED
  BY <1>1, <1>2, <1>3, <1>4, <1>5, <1>6, <1>7

LEMMA ManualReleaseKeepsIInv ==
    ASSUME IInv, NEW x \in Var, ManualRelease(x)
    PROVE  IInv'
<1>1. /\ stack' \in Seq(Scope) /\ DOMAIN stack' = DOMAIN stack
      /\ after' = "none" /\ read' = {} /\ ref' \in [Obj -> Fate]
  BY ManualReleaseFrame
<1>2. \A i \in DOMAIN stack :
         /\ stack'[i].vars = stack[i].vars \ {x}
         /\ stack'[i].declared = stack[i].declared
         /\ stack'[i].val = stack[i].val
         /\ stack'[i].taken = stack[i].taken
  BY ManualReleaseFrame
<1>3. Dead(x) => \E i \in DOMAIN stack :
         /\ x \in stack[i].vars /\ stack[i].taken
         /\ stack[i].val[x] = Pointee(x)
         /\ Pointee(x) \in Obj
  BY ManualReleaseFrame
<1>4. /\ \A i \in DOMAIN stack : x \in stack[i].vars /\ stack[i].taken =>
            Dead(x) /\ Pointee(x) = stack[i].val[x]
      /\ \A o \in Obj : ref'[o] \in {ref[o], "gone", "stray"}
      /\ \A o \in Obj : ~(Dead(x) /\ o = Pointee(x)) => ref'[o] = ref[o]
      /\ Dead(x) => ref'[Pointee(x)] \in {"gone", "stray"}
  BY ManualReleaseFrame
<1>5. OwnedTracked'
  <2>1. ASSUME NEW i \in DOMAIN stack', NEW y \in stack'[i].vars, stack'[i].taken
        PROVE  /\ i \in DOMAIN stack /\ y \in stack[i].vars /\ stack[i].taken
               /\ stack'[i].val[y] = stack[i].val[y]
               /\ ref'[stack[i].val[y]] = "owned"
    <3>1. /\ i \in DOMAIN stack /\ y \in stack[i].vars /\ y # x /\ stack[i].taken
          /\ stack'[i].val[y] = stack[i].val[y]
      BY <1>1, <1>2, <2>1
    <3>2. stack[i].val[y] \in Obj /\ ref[stack[i].val[y]] = "owned"
      BY <3>1 DEF IInv, OwnedTracked, Owner
    <3>3. Dead(x) => stack[i].val[y] # Pointee(x)
      BY <1>3, <3>1 DEF IInv, OwnedTracked, Owner
    <3> QED
      BY <1>4, <3>1, <3>2, <3>3
  <2>2. ASSUME NEW o \in Obj, ref'[o] = "owned"
        PROVE  /\ ref[o] = "owned"
               /\ \A i \in DOMAIN stack : \A y \in stack[i].vars :
                     stack[i].taken /\ stack[i].val[y] = o =>
                        /\ i \in DOMAIN stack' /\ y \in stack'[i].vars
                        /\ stack'[i].taken
    <3>1. ref[o] = "owned" /\ ~(Dead(x) /\ o = Pointee(x))
      BY <1>4, <2>2
    <3>2. ASSUME NEW i \in DOMAIN stack, NEW y \in stack[i].vars,
                 stack[i].taken, stack[i].val[y] = o
          PROVE  y # x
      BY <1>4, <3>1, <3>2
    <3> QED
      BY <1>1, <1>2, <3>1, <3>2
  <2> QED
    BY <2>1, <2>2, FewerOwners
<1>6. TypeOK'
  <2>1. \A i \in DOMAIN stack' : \A y \in stack'[i].vars \cup stack'[i].declared :
           stack'[i].val[y] # None
    BY <1>1, <1>2, TrackedVar
  <2> QED
    BY <1>1, <2>1 DEF TypeOK
<1>7. NoShadow' /\ TakenNested' /\ ReleasedOnce'
  BY <1>1, <1>2, <1>4 DEF IInv, NoShadow, TakenNested, ReleasedOnce
<1> QED
  BY <1>5, <1>6, <1>7 DEF IInv

\* An exit, in text the pass analyses (then it clears the scopes from "from"
\* on, the ones the path leaves) or in text it does not look at.
LEMMA LeaveFromFrame ==
    ASSUME IInv, InFunction, NEW t \in DOMAIN stack, NEW from, NEW kept, NEW result,
           Analyzed => from = t,
           LeaveFrom(t, from, kept, result)
    PROVE  /\ stack' \in Seq(Scope) /\ DOMAIN stack' = DOMAIN stack
           /\ after' = "none" /\ ref' \in [Obj -> Fate]
           /\ \A i \in DOMAIN stack :
                 /\ stack'[i].vars = IF Analyzed /\ i >= t THEN {} ELSE stack[i].vars
                 /\ stack'[i].declared = stack[i].declared
                 /\ stack'[i].val = stack[i].val
                 /\ stack'[i].taken = (stack[i].taken /\ ~(Running /\ i >= t))
           /\ ~Analyzed /\ ~Running => ref' = ref
           /\ \A o \in Obj :
                 /\ ref'[o] = "owned" => ref[o] = "owned"
                 /\ ref'[o] # "again"
                 /\ o \in OwnedFrom(t) /\ (Analyzed \/ Running) => ref'[o] # "owned"
                 /\ o \notin OwnedFrom(t) => ref'[o] = ref[o]
                 /\ o \in OwnedFrom(t) /\ ~Running => ref'[o] \in {"owned", "leaked", "passed"}
                 /\ ref'[o] = "passed" /\ ref[o] # "passed" => o = result
<1>0. /\ stack \in Seq(Scope) /\ t \in Nat /\ Depth \in Nat
      /\ DOMAIN stack = 1 .. Depth
  <2>1. stack \in Seq(Scope)
    BY DEF IInv, TypeOK
  <2>2. TypeOK
    BY DEF IInv
  <2>3. Depth \in Nat /\ DOMAIN stack = 1 .. Depth
    BY <2>2, InFunctionDepth
  <2> QED
    BY <2>1, <2>3
<1>1. ASSUME NEW i \in DOMAIN stack
      PROVE  /\ stack'[i] \in Scope
             /\ stack'[i].vars = IF Analyzed /\ i >= t THEN {} ELSE stack[i].vars
             /\ stack'[i].declared = stack[i].declared /\ stack'[i].val = stack[i].val
             /\ stack'[i].taken = (stack[i].taken /\ ~(Running /\ i >= t))
  <2>1. stack[i] \in Scope
    BY Scopes DEF IInv
  <2>2. stack'[i] = [stack[i] EXCEPT
            !.vars = IF Analyzed /\ i >= t THEN {} ELSE @,
            !.taken = @ /\ ~(Running /\ i >= t)]
    BY DEF LeaveFrom
  <2>3. (stack[i].taken /\ ~(Running /\ i >= t)) \in BOOLEAN
    OBVIOUS
  <2> QED
    BY <2>1, <2>2, <2>3 DEF Scope
<1>2. stack' \in Seq(Scope) /\ DOMAIN stack' = DOMAIN stack
  <2>1. stack' = [i \in DOMAIN stack |-> stack'[i]]
    BY DEF LeaveFrom
  <2> QED
    BY ONLY <1>0, <1>1, <2>1, FunctionIsSeq
<1> DEFINE r == IF Analyzed /\ Running THEN Released(collect_vars(t) \ kept) ELSE ref
<1>3. ref' = IF ~Analyzed /\ ~Running THEN ref ELSE Settled(r, t, result)
  BY DEF LeaveFrom
<1>4. /\ r \in [Obj -> Fate]
      /\ \A o \in Obj : r[o] \in {ref[o], "released"}
      /\ \A o \in Obj :
            (\A i \in t .. Depth : \A x \in stack[i].vars : stack[i].val[x] # o) =>
               r[o] = ref[o]
  <2>1. CASE Analyzed /\ Running
    <3> DEFINE R == collect_vars(t) \ kept
    <3>1. R \subseteq collect_vars(t)
      OBVIOUS
    <3>2. r = Released(R)
      BY <2>1
    <3> HIDE DEF R, r
    <3>3. /\ \A x \in R : \E i \in t .. Depth :
                 x \in stack[i].vars /\ Pointee(x) = stack[i].val[x]
          /\ \A o \in Obj : Released(R)[o] \in {ref[o], "released"}
          /\ \A o \in Obj : (\A x \in R : Pointee(x) # o) => Released(R)[o] = ref[o]
          /\ Released(R) \in [Obj -> Fate]
      BY ONLY <2>1, <3>1, IInv, ReleasedFate, t \in DOMAIN stack
    <3> QED
      BY ONLY <3>2, <3>3
  <2>2. CASE ~(Analyzed /\ Running)
    BY <2>2 DEF IInv, TypeOK
  <2> QED
    BY <2>1, <2>2
<1> HIDE DEF r
<1>5. ASSUME NEW o \in Obj
      PROVE  /\ ref'[o] \in {r[o], "passed", "stray", "leaked"}
             /\ o \in OwnedFrom(t) /\ (Analyzed \/ Running) => ref'[o] # "owned"
             /\ o \notin OwnedFrom(t) => ref'[o] = r[o]
  <2>1. CASE ~Analyzed /\ ~Running
    BY <1>3, <2>1 DEF r
  <2>2. CASE Analyzed \/ Running
    <3>1. ref' = Settled(r, t, result)
      BY <1>3, <2>2
    <3> QED
      BY <2>2, <3>1 DEF Settled
  <2> QED
    BY <2>1, <2>2
<1>6. ref' \in [Obj -> Fate]
  <2>1. CASE ~Analyzed /\ ~Running
    BY <1>3, <2>1 DEF IInv, TypeOK
  <2>2. CASE Analyzed \/ Running
    <3>1. ref' = [o \in Obj |-> ref'[o]]
      BY <1>3, <2>2 DEF Settled
    <3>2. {"passed", "stray", "leaked"} \subseteq Fate
      BY DEF Fate
    <3> QED
      BY <1>4, <1>5, <3>1, <3>2
  <2> QED
    BY <2>1, <2>2
<1>7. ASSUME NEW o \in Obj, o \notin OwnedFrom(t)
      PROVE  r[o] = ref[o]
  <2>1. CASE Running
    <3>1. \A i \in t .. Depth : stack[i].taken
      BY <1>0, <2>1, RunningTaken
    <3>2. \A i \in t .. Depth : \A x \in stack[i].vars : stack[i].val[x] # o
      BY <1>7, <3>1 DEF OwnedFrom
    <3> QED
      BY <1>4, <3>2
  <2>2. CASE ~Running
    BY <2>2 DEF r
  <2> QED
    BY <2>1, <2>2
<1>8. ASSUME NEW o \in Obj
      PROVE  /\ ref'[o] = "owned" => ref[o] = "owned"
             /\ ref'[o] # "again"
             /\ o \in OwnedFrom(t) /\ (Analyzed \/ Running) => ref'[o] # "owned"
             /\ o \notin OwnedFrom(t) => ref'[o] = ref[o]
  <2>1. ref[o] # "again"
    BY DEF IInv, ReleasedOnce
  <2> QED
    BY <1>4, <1>5, <1>7, <2>1
<1>9. ASSUME NEW o \in Obj, o \in OwnedFrom(t), ~Running
      PROVE  ref'[o] \in {"owned", "leaked", "passed"}
  <2>1. PICK i \in t .. Depth : stack[i].taken /\ \E x \in stack[i].vars : stack[i].val[x] = o
    BY <1>9 DEF OwnedFrom
  <2>2. ref[o] = "owned"
    BY <1>0, <2>1 DEF IInv, OwnedTracked, Owner
  <2> QED
    BY <1>3, <1>9, <2>2 DEF Settled, r
<1>10. ASSUME NEW o \in Obj, ref'[o] = "passed", ref[o] # "passed"
       PROVE  o = result
  <2>1. r[o] # "passed"
    BY <1>4, <1>10
  <2>2. ref' = Settled(r, t, result)
    BY <1>3, <1>10
  <2> QED
    BY <1>10, <2>1, <2>2 DEF Settled
<1>11. ~Analyzed /\ ~Running => ref' = ref
  BY <1>3
<1>12. after' = "none"
  BY DEF LeaveFrom
<1>13. \A i \in DOMAIN stack :
          /\ stack'[i].vars = IF Analyzed /\ i >= t THEN {} ELSE stack[i].vars
          /\ stack'[i].declared = stack[i].declared
          /\ stack'[i].val = stack[i].val
          /\ stack'[i].taken = (stack[i].taken /\ ~(Running /\ i >= t))
  BY <1>1
<1> QED
  BY ONLY <1>2, <1>6, <1>8, <1>9, <1>10, <1>11, <1>12, <1>13

LEMMA LeaveFromKeepsIInv ==
    ASSUME IInv, InFunction, NEW t \in DOMAIN stack, NEW from, NEW kept, NEW result,
           Analyzed => from = t,
           LeaveFrom(t, from, kept, result), read' \subseteq Obj
    PROVE  IInv'
<1>0. t \in Nat /\ Depth \in Nat /\ DOMAIN stack = 1 .. Depth
  BY InFunctionDepth DEF IInv
<1>1. ASSUME NEW i \in DOMAIN stack
      PROVE  /\ stack'[i].vars = IF Analyzed /\ i >= t THEN {} ELSE stack[i].vars
             /\ stack'[i].declared = stack[i].declared /\ stack'[i].val = stack[i].val
             /\ stack'[i].taken = (stack[i].taken /\ ~(Running /\ i >= t))
  BY LeaveFromFrame
<1>2. /\ stack' \in Seq(Scope) /\ DOMAIN stack' = DOMAIN stack
      /\ after' = "none" /\ ref' \in [Obj -> Fate]
  BY LeaveFromFrame
<1>3. ~Analyzed /\ ~Running => ref' = ref
  BY LeaveFromFrame
<1>4. ASSUME NEW o \in Obj
      PROVE  /\ ref'[o] = "owned" => ref[o] = "owned"
             /\ ref'[o] # "again"
             /\ o \in OwnedFrom(t) /\ (Analyzed \/ Running) => ref'[o] # "owned"
             /\ o \notin OwnedFrom(t) => ref'[o] = ref[o]
  BY LeaveFromFrame
<1>7. OwnedTracked'
  <2>1. ASSUME NEW i \in DOMAIN stack', NEW x \in stack'[i].vars, stack'[i].taken
        PROVE  /\ i \in DOMAIN stack /\ x \in stack[i].vars /\ stack[i].taken
               /\ stack'[i].val[x] = stack[i].val[x]
               /\ ref'[stack[i].val[x]] = "owned"
    <3>1. /\ i \in DOMAIN stack /\ x \in stack[i].vars /\ stack[i].taken
          /\ stack'[i].val[x] = stack[i].val[x]
          /\ ~(Analyzed /\ i >= t) /\ ~(Running /\ i >= t)
      BY <1>1, <1>2, <2>1
    <3>2. PICK o \in Obj : o = stack[i].val[x] /\ ref[o] = "owned"
      BY <3>1 DEF IInv, OwnedTracked, Owner
    <3>3. CASE ~Analyzed /\ ~Running
      <4>1. ref' = ref
        BY <1>3, <3>3
      <4> QED
        BY ONLY <3>1, <3>2, <4>1
    <3>4. CASE Analyzed \/ Running
      <4>1. i \in Nat /\ \A j \in t .. Depth : j # i /\ j \in DOMAIN stack
        BY <1>0, <3>1, <3>4
      <4>2. \A j \in t .. Depth : \A y \in stack[j].vars :
               stack[j].taken => stack[j].val[y] # o
        BY <3>1, <3>2, <4>1 DEF IInv, OwnedTracked, Owner
      <4>3. o \notin OwnedFrom(t)
        BY <4>2 DEF OwnedFrom
      <4>5. ref'[o] = "owned"
        BY <1>4, <3>2, <4>3
      <4> QED
        BY ONLY <3>1, <3>2, <4>5
    <3> QED
      BY ONLY <3>3, <3>4
  <2>2. ASSUME NEW o \in Obj, ref'[o] = "owned"
        PROVE  /\ ref[o] = "owned"
               /\ \A i \in DOMAIN stack : \A x \in stack[i].vars :
                     stack[i].taken /\ stack[i].val[x] = o =>
                        /\ i \in DOMAIN stack' /\ x \in stack'[i].vars
                        /\ stack'[i].taken
    <3>1. ref[o] = "owned" /\ ~(o \in OwnedFrom(t) /\ (Analyzed \/ Running))
      BY <1>4, <2>2
    <3>2. ASSUME NEW i \in DOMAIN stack, NEW x \in stack[i].vars,
                 stack[i].taken, stack[i].val[x] = o
          PROVE  ~((Analyzed \/ Running) /\ i >= t)
      <4>1. i >= t => i \in t .. Depth
        BY <1>0
      <4>2. i >= t => o \in OwnedFrom(t)
        BY <3>2, <4>1 DEF OwnedFrom
      <4> QED
        BY <3>1, <4>2
    <3> QED
      BY <1>1, <1>2, <3>1, <3>2
  <2> QED
    BY <2>1, <2>2, FewerOwners
<1>8. TypeOK'
  <2>1. \A i \in DOMAIN stack' : \A y \in stack'[i].vars \cup stack'[i].declared :
           stack'[i].val[y] # None
    BY <1>1, <1>2, TrackedVar
  <2> QED
    BY <1>2, <2>1 DEF TypeOK
<1>9. NoShadow' /\ ReleasedOnce'
  BY <1>1, <1>2, <1>4 DEF IInv, NoShadow, ReleasedOnce
<1>10. TakenNested'
  <2>1. ASSUME NEW i \in DOMAIN stack', NEW j \in DOMAIN stack', i <= j, stack'[j].taken
        PROVE  stack'[i].taken
    <3>1. stack[j].taken /\ ~(Running /\ j >= t)
      BY <1>1, <1>2, <2>1
    <3>2. stack[i].taken
      BY <1>2, <2>1, <3>1 DEF IInv, TakenNested
    <3>3. ~(Running /\ i >= t)
      BY <1>0, <1>2, <2>1, <3>1
    <3> QED
      BY <1>1, <1>2, <3>2, <3>3
  <2> QED
    BY <2>1 DEF TakenNested
<1> QED
  BY <1>7, <1>8, <1>9, <1>10 DEF IInv

\* The nearest scope with inside_loop is the loop that the path leaves, when
\* the pass looks at the text.
LEMMA NearestLoopIsLeft ==
    ASSUME IInv, InFunction, Analyzed, NEW t, Loop(t)
    PROVE  t \in DOMAIN stack /\ NearestLoop = t
<1>1. Depth \in Nat /\ DOMAIN stack = 1 .. Depth
  BY InFunctionDepth DEF IInv
<1>2. /\ t \in 1 .. Depth /\ stack[t].kind = "loop"
      /\ \A i \in t + 1 .. Depth : stack[i].kind # "loop"
  BY <1>1 DEF Loop, Analyzed
<1>3. ASSUME NEW n \in 1 .. Depth,
             stack[n].kind = "loop" \/ n = 1,
             \A i \in n + 1 .. Depth : stack[i].kind # "loop"
      PROVE  n = t
  <2>1. ~(n < t)
    BY <1>1, <1>2, <1>3
  <2>2. ~(n > t)
    BY <1>1, <1>2, <1>3
  <2> QED
    BY <1>1, <1>2, <2>1, <2>2
<1>4. NearestLoop = t
  BY <1>2, <1>3 DEF NearestLoop
<1> QED
  BY <1>1, <1>2, <1>4

LEMMA BreakOrContinueKeepsIInv ==
    ASSUME IInv, NEW t, BreakOrContinue(t)
    PROVE  IInv'
<1>1. /\ t \in DOMAIN stack /\ Loop(t) /\ InFunction
      /\ LeaveFrom(t, NearestLoop, {}, None) /\ read' \subseteq Obj
  BY DEF BreakOrContinue, Loop, InFunction
<1>2. Analyzed => NearestLoop = t
  BY <1>1, NearestLoopIsLeft
<1> QED
  BY <1>1, <1>2, LeaveFromKeepsIInv

LEMMA ReturnOrThrowKeepsIInv ==
    ASSUME IInv, NEW form, NEW x, NEW reads, ReturnOrThrow(form, x, reads)
    PROVE  IInv'
<1>1. InFunction /\ read' \subseteq Obj
  BY DEF ReturnOrThrow
<1>2. 1 \in DOMAIN stack
  BY <1>1, InFunctionDepth DEF IInv
<1>3. \E kept, result : LeaveFrom(1, 1, kept, result)
  BY DEF ReturnOrThrow
<1> QED
  BY <1>1, <1>2, <1>3, LeaveFromKeepsIInv

-----------------------------------------------------------------------------
(* Declarations and assignments *)

LEMMA GivenValue ==
    ASSUME IInv, NEW init \in {"new", "other"} \cup Var, NEW v \in Value, Gives(init, v)
    PROVE  /\ v # None
           /\ Running /\ init = "new" => v \in Obj /\ ref[v] = "unborn"
<1>1. init \in Var /\ Visible(init) /\ v = Pointee(init) => v # None
  BY VisibleDecl
<1>2. Null # None /\ \A o \in Obj : o # None
  BY SentinelsAreNoObjects
<1>3. init \in Var => init # "new" /\ init # "other"
  BY NamesAreNoInitialisers
<1> QED
  BY <1>1, <1>2, <1>3 DEF Gives, Fresh

\* Enough for OwnedTracked to be preserved by a step that stores a new object v
\* in the variable x of scope d.
LEMMA NewOwner ==
    ASSUME IInv, NEW d \in DOMAIN stack, NEW x, NEW v \in Obj,
           ref[v] = "unborn", stack[d].taken,
           DOMAIN stack' = DOMAIN stack,
           \A i \in DOMAIN stack : stack'[i].taken = stack[i].taken,
           \A i \in DOMAIN stack : \A y : ~(i = d /\ y = x) =>
              (y \in stack'[i].vars <=> y \in stack[i].vars),
           \A i \in DOMAIN stack : \A y \in Var : ~(i = d /\ y = x) =>
              stack'[i].val[y] = stack[i].val[y],
           stack'[d].val[x] = v,
           ref'[v] = "owned" <=> x \in stack'[d].vars,
           \A o \in Obj \ {v} :
              IF x \in stack[d].vars /\ o = stack[d].val[x]
              THEN ref'[o] # "owned" ELSE ref'[o] = ref[o]
    PROVE  OwnedTracked'
<1>1. ASSUME NEW i \in DOMAIN stack, NEW y \in stack'[i].vars, stack'[i].taken,
             ~(i = d /\ y = x)
      PROVE  /\ y \in stack[i].vars /\ stack'[i].val[y] = stack[i].val[y]
             /\ stack'[i].val[y] \in Obj \ {v} /\ ref'[stack'[i].val[y]] = "owned"
  <2>1. y \in stack[i].vars /\ y \in Var /\ stack[i].taken
    BY <1>1, TrackedVar
  <2>2. stack'[i].val[y] = stack[i].val[y]
    BY <1>1, <2>1
  <2>3. PICK o \in Obj : o = stack[i].val[y] /\ ref[o] = "owned"
    BY <2>1 DEF IInv, OwnedTracked, Owner
  <2>4. o # v
    BY <2>3
  <2>5. ~(x \in stack[d].vars /\ o = stack[d].val[x])
    BY <1>1, <2>1, <2>3 DEF IInv, OwnedTracked, Owner
  <2>6. ref'[o] = "owned"
    BY <2>3, <2>4, <2>5
  <2> QED
    BY ONLY <2>1, <2>2, <2>3, <2>4, <2>6
<1>2. ASSUME NEW o \in Obj, ref'[o] = "owned"
      PROVE  \E i \in DOMAIN stack' : \E y \in stack'[i].vars :
                stack'[i].taken /\ stack'[i].val[y] = o
  <2>1. CASE o = v
    BY <1>2, <2>1
  <2>2. CASE o # v
    <3>1. ref[o] = "owned" /\ ~(x \in stack[d].vars /\ o = stack[d].val[x])
      BY <1>2, <2>2
    <3>2. PICK i \in DOMAIN stack : \E y \in stack[i].vars :
                  stack[i].taken /\ stack[i].val[y] = o
      BY <3>1 DEF IInv, OwnedTracked, Owner
    <3>3. PICK y \in stack[i].vars : stack[i].taken /\ stack[i].val[y] = o
      BY <3>2
    <3>4. y \in Var /\ ~(i = d /\ y = x)
      BY <3>1, <3>3, TrackedVar
    <3>5. i \in DOMAIN stack' /\ y \in stack'[i].vars /\ stack'[i].taken /\ stack'[i].val[y] = o
      BY <3>3, <3>4
    <3> QED
      BY <3>5
  <2> QED
    BY <2>1, <2>2
<1>3. ASSUME NEW i \in DOMAIN stack', NEW y \in stack'[i].vars, stack'[i].taken
      PROVE  stack'[i].val[y] \in Obj /\ ref'[stack'[i].val[y]] = "owned"
  BY <1>1, <1>3
<1>4. ASSUME NEW i \in DOMAIN stack', NEW j \in DOMAIN stack',
             NEW y \in stack'[i].vars, NEW z \in stack'[j].vars,
             stack'[i].taken, stack'[j].taken, stack'[i].val[y] = stack'[j].val[z]
      PROVE  i = j /\ y = z
  <2>1. CASE ~(i = d /\ y = x) /\ ~(j = d /\ z = x)
    <3>1. /\ y \in stack[i].vars /\ z \in stack[j].vars
          /\ stack[i].val[y] = stack[j].val[z] /\ stack[i].taken /\ stack[j].taken
      BY <1>1, <1>4, <2>1
    <3> QED
      BY <3>1 DEF IInv, OwnedTracked, Owner
  <2>2. CASE i = d /\ y = x
    BY <1>1, <1>4, <2>2
  <2>3. CASE j = d /\ z = x
    BY <1>1, <1>4, <2>3
  <2> QED
    BY <2>1, <2>2, <2>3
<1> QED
  BY <1>2, <1>3, <1>4 DEF OwnedTracked, Owner

\* A step stores w in the variable x of scope d, and has the pass track x there
\* if "registers".
Stored(d, x, w, registers) ==
    /\ stack' \in Seq(Scope) /\ DOMAIN stack' = DOMAIN stack
    /\ \A i \in DOMAIN stack : stack'[i].taken = stack[i].taken
    /\ \A i \in DOMAIN stack : \A y : ~(i = d /\ y = x) =>
          /\ y \in stack'[i].vars <=> y \in stack[i].vars
          /\ y \in stack'[i].declared <=> y \in stack[i].declared
    /\ \A i \in DOMAIN stack : \A y \in Var : ~(i = d /\ y = x) =>
          stack'[i].val[y] = stack[i].val[y]
    /\ stack'[d].val[x] = w
    /\ x \in stack'[d].vars <=> registers \/ x \in stack[d].vars

LEMMA StoredKeepsTypes ==
    ASSUME IInv, NEW d \in DOMAIN stack, NEW x \in Var, NEW w, NEW registers \in BOOLEAN,
           Stored(d, x, w, registers), w # None, ref' \in [Obj -> Fate],
           after' = "none", read' = {},
           \A i \in DOMAIN stack : i # d => stack[i].val[x] = None
    PROVE  TypeOK' /\ NoShadow' /\ TakenNested'
<1>1. TypeOK'
  <2>1. ASSUME NEW i \in DOMAIN stack', NEW y \in stack'[i].vars \cup stack'[i].declared
        PROVE  stack'[i].val[y] # None
    <3>1. CASE i = d /\ y = x
      BY <3>1 DEF Stored
    <3>2. CASE ~(i = d /\ y = x)
      <4>1. i \in DOMAIN stack /\ y \in stack[i].vars \cup stack[i].declared
        BY <2>1, <3>2 DEF Stored
      <4>2. y \in Var /\ stack[i].val[y] # None
        BY <4>1, TrackedVar
      <4> QED
        BY <3>2, <4>1, <4>2 DEF Stored
    <3> QED
      BY <3>1, <3>2
  <2>2. stack' \in Seq(Scope)
    BY DEF Stored
  <2> QED
    BY <2>1, <2>2 DEF TypeOK
<1>2. NoShadow'
  <2>1. ASSUME NEW i \in DOMAIN stack', NEW j \in DOMAIN stack', NEW y \in Var,
               stack'[i].val[y] # None, stack'[j].val[y] # None
        PROVE  i = j
    <3>1. i \in DOMAIN stack /\ j \in DOMAIN stack
      BY DEF Stored
    <3>2. CASE y = x
      BY <2>1, <3>1, <3>2 DEF Stored
    <3>3. CASE y # x
      BY <2>1, <3>1, <3>3 DEF Stored, IInv, NoShadow
    <3> QED
      BY <3>2, <3>3
  <2> QED
    BY <2>1 DEF NoShadow
<1>3. TakenNested'
  BY DEF Stored, IInv, TakenNested
<1> QED
  BY <1>1, <1>2, <1>3

\* A new object is stored.
LEMMA StoredNewKeepsIInv ==
    ASSUME IInv, NEW d \in DOMAIN stack, NEW x \in Var, NEW v \in Obj,
           NEW registers \in BOOLEAN,
           Stored(d, x, v, registers), ref[v] = "unborn", stack[d].taken,
           ref' \in [Obj -> Fate],
           after' = "none", read' = {},
           \A i \in DOMAIN stack : i # d => stack[i].val[x] = None,
           ref'[v] = (IF x \in stack'[d].vars THEN "owned" ELSE "stray"),
           \A o \in Obj \ {v} :
              ref'[o] = IF x \in stack[d].vars /\ o = stack[d].val[x]
                        THEN "stray" ELSE ref[o]
    PROVE  IInv'
<1>1. TypeOK' /\ NoShadow' /\ TakenNested'
  BY SentinelsAreNoObjects, StoredKeepsTypes
<1>2. OwnedTracked'
  <2>1. ref'[v] = "owned" <=> x \in stack'[d].vars
    OBVIOUS
  <2>2. \A o \in Obj \ {v} :
           IF x \in stack[d].vars /\ o = stack[d].val[x]
           THEN ref'[o] # "owned" ELSE ref'[o] = ref[o]
    OBVIOUS
  <2>3. /\ DOMAIN stack' = DOMAIN stack /\ stack'[d].val[x] = v
        /\ \A i \in DOMAIN stack : stack'[i].taken = stack[i].taken
        /\ \A i \in DOMAIN stack : \A y : ~(i = d /\ y = x) =>
              (y \in stack'[i].vars <=> y \in stack[i].vars)
        /\ \A i \in DOMAIN stack : \A y \in Var : ~(i = d /\ y = x) =>
              stack'[i].val[y] = stack[i].val[y]
    BY DEF Stored
  <2> QED
    BY <2>1, <2>2, <2>3, NewOwner
<1>3. ReleasedOnce'
  BY DEF IInv, ReleasedOnce
<1> QED
  BY <1>1, <1>2, <1>3 DEF IInv

\* A pointer is stored, or the statement is not executed.
LEMMA StoredOldKeepsIInv ==
    ASSUME IInv, NEW d \in DOMAIN stack, NEW x \in Var, NEW w \in Value \ {None},
           NEW registers \in BOOLEAN,
           Stored(d, x, w, registers), ref' = ref,
           after' = "none", read' = {},
           \A i \in DOMAIN stack : i # d => stack[i].val[x] = None,
           registers => ~stack[d].taken,
           x \in stack[d].vars => w = stack[d].val[x]
    PROVE  IInv'
<1>1. TypeOK' /\ NoShadow' /\ TakenNested'
  <2>1. ref' \in [Obj -> Fate]
    BY DEF IInv, TypeOK
  <2> QED
    BY <2>1, StoredKeepsTypes
<1>2. OwnedTracked'
  <2>1. ASSUME NEW i \in DOMAIN stack', NEW y \in stack'[i].vars, stack'[i].taken
        PROVE  /\ i \in DOMAIN stack /\ y \in stack[i].vars /\ stack[i].taken
               /\ stack'[i].val[y] = stack[i].val[y]
               /\ ref'[stack[i].val[y]] = "owned"
    <3>1. i \in DOMAIN stack /\ y \in stack[i].vars /\ stack[i].taken
      BY <2>1 DEF Stored
    <3>2. y \in Var
      BY <3>1, TrackedVar
    <3>3. ref[stack[i].val[y]] = "owned"
      BY <3>1 DEF IInv, OwnedTracked, Owner
    <3>4. stack'[i].val[y] = stack[i].val[y]
      BY <3>1, <3>2 DEF Stored
    <3> QED
      BY <3>1, <3>3, <3>4
  <2>2. ASSUME NEW i \in DOMAIN stack, NEW y \in stack[i].vars, stack[i].taken
        PROVE  i \in DOMAIN stack' /\ y \in stack'[i].vars /\ stack'[i].taken
    BY <2>2 DEF Stored
  <2> QED
    BY <2>1, <2>2, FewerOwners
<1>3. ReleasedOnce'
  BY DEF IInv, ReleasedOnce
<1> QED
  BY <1>1, <1>2, <1>3 DEF IInv

LEMMA DeclareFrame ==
    ASSUME IInv, NEW x \in Var, NEW init \in {"new", "other"} \cup Var,
           NEW inFor \in BOOLEAN, Declare(x, init, inFor)
    PROVE  /\ Depth \in DOMAIN stack
           /\ \A i \in DOMAIN stack : x \notin stack[i].vars /\ stack[i].val[x] = None
           /\ \E v \in Value \ {None} :
                 /\ Gives(init, v)
                 /\ Stored(Depth, x, v, Analyzed /\ init = "new")
                 /\ ref' = IF Running /\ init = "new"
                           THEN [ref EXCEPT ![v] = IF Analyzed THEN "owned" ELSE "stray"]
                           ELSE ref
                 /\ Running /\ init = "new" => v \in Obj /\ ref[v] = "unborn"
<1> DEFINE d == Depth
           tracks == Analyzed /\ init = "new"
           V == IF tracks THEN stack[d].vars \cup {x} ELSE stack[d].vars
           D == IF Analyzed /\ ~inFor THEN stack[d].declared \cup {x} ELSE stack[d].declared
<1>0. d \in DOMAIN stack /\ InFunction
  BY InFunctionDepth DEF IInv, Declare
<1>1. PICK v \in Value :
        /\ Gives(init, v)
        /\ stack' = [stack EXCEPT ![Depth].vars = V, ![Depth].declared = D,
                                  ![Depth].val[x] = v]
        /\ ref' = IF Running /\ init = "new"
                  THEN [ref EXCEPT ![v] = IF Analyzed THEN "owned" ELSE "stray"]
                  ELSE ref
  BY DEF Declare
<1>2. /\ \A i \in DOMAIN stack : stack[i].val[x] = None
      /\ \A i \in DOMAIN stack : x \notin stack[i].vars \cup stack[i].declared
  BY TrackedVar DEF Declare, Visible, Declares
<1>3. stack[d] \in Scope /\ V \in SUBSET Var /\ D \in SUBSET Var
  BY <1>0, Scopes DEF IInv
<1> HIDE DEF V, D
<1>4. PICK e : e = [stack[d] EXCEPT !.vars = V, !.declared = D, !.val[x] = v]
  OBVIOUS
<1>5. /\ e \in Scope /\ e.vars = V /\ e.declared = D /\ e.taken = stack[d].taken
      /\ e.val = [stack[d].val EXCEPT ![x] = v]
  BY <1>3, <1>4 DEF Scope
<1>6. stack' = [stack EXCEPT ![d] = e]
  BY <1>0, <1>1, <1>4
<1>7. stack \in Seq(Scope)
  BY DEF IInv, TypeOK
<1>8. /\ stack' \in Seq(Scope) /\ DOMAIN stack' = DOMAIN stack
      /\ \A i \in DOMAIN stack : i # d => stack'[i] = stack[i]
      /\ stack'[d] = e
  BY ONLY <1>0, <1>5, <1>6, <1>7
<1>9. /\ v # None /\ (Running /\ init = "new" => v \in Obj /\ ref[v] = "unborn")
  BY <1>1, GivenValue
<1>10. /\ \A y : y # x => (y \in V <=> y \in stack[d].vars) /\ (y \in D <=> y \in stack[d].declared)
       /\ x \in V <=> tracks
  BY <1>0, <1>2 DEF V, D
<1> HIDE DEF tracks
<1>11. /\ \A i \in DOMAIN stack : stack'[i].taken = stack[i].taken
       /\ \A i \in DOMAIN stack : \A y : ~(i = d /\ y = x) =>
             (y \in stack'[i].vars <=> y \in stack[i].vars)
       /\ \A i \in DOMAIN stack : \A y : ~(i = d /\ y = x) =>
             (y \in stack'[i].declared <=> y \in stack[i].declared)
       /\ \A i \in DOMAIN stack : \A y \in Var : ~(i = d /\ y = x) =>
             stack'[i].val[y] = stack[i].val[y]
       /\ stack'[d].val[x] = v
       /\ x \in stack'[d].vars <=> tracks
  <2>1. stack[d].val \in [Var -> Value]
    BY <1>3 DEF Scope
  <2> QED
    BY <1>5, <1>8, <1>10, <2>1
<1>12. Stored(d, x, v, tracks)
  BY <1>0, <1>2, <1>8, <1>11 DEF Stored
<1> QED
  BY <1>0, <1>1, <1>2, <1>9, <1>12 DEF d, tracks

LEMMA DeclareKeepsIInv ==
    ASSUME IInv, NEW x \in Var, NEW init \in {"new", "other"} \cup Var,
           NEW inFor \in BOOLEAN, Declare(x, init, inFor)
    PROVE  IInv'
<1>1. Depth \in DOMAIN stack /\ after' = "none" /\ read' = {}
  BY DeclareFrame DEF Declare
<1>2. \A i \in DOMAIN stack : x \notin stack[i].vars /\ stack[i].val[x] = None
  BY DeclareFrame
<1>3. PICK v \in Value \ {None} :
         /\ Gives(init, v)
         /\ Stored(Depth, x, v, Analyzed /\ init = "new")
         /\ ref' = IF Running /\ init = "new"
                   THEN [ref EXCEPT ![v] = IF Analyzed THEN "owned" ELSE "stray"]
                   ELSE ref
         /\ Running /\ init = "new" => v \in Obj /\ ref[v] = "unborn"
  BY DeclareFrame
<1>4. (Analyzed /\ init = "new") \in BOOLEAN
  OBVIOUS
<1>5. ref \in [Obj -> Fate] /\ {"owned", "stray"} \subseteq Fate
  BY DEF IInv, TypeOK, Fate
<1>6. CASE Running /\ init = "new"
  <2>1. stack[Depth].taken /\ v \in Obj /\ ref[v] = "unborn"
    BY <1>1, <1>3, <1>6, RunningTaken
  <2>2. x \in stack'[Depth].vars <=> Analyzed
    BY <1>1, <1>2, <1>3, <1>6 DEF Stored
  <2>3. /\ ref' \in [Obj -> Fate]
        /\ ref'[v] = (IF x \in stack'[Depth].vars THEN "owned" ELSE "stray")
        /\ \A o \in Obj \ {v} : ref'[o] = ref[o]
    BY <1>3, <1>5, <1>6, <2>1, <2>2
  <2>4. \A o \in Obj \ {v} :
           ref'[o] = IF x \in stack[Depth].vars /\ o = stack[Depth].val[x]
                     THEN "stray" ELSE ref[o]
    BY <1>1, <1>2, <2>3
  <2> QED
    BY <1>1, <1>2, <1>3, <1>4, <2>1, <2>3, <2>4, StoredNewKeepsIInv
<1>7. CASE ~(Running /\ init = "new")
  <2>1. ref' = ref
    BY <1>3, <1>7
  <2>2. Analyzed /\ init = "new" => ~stack[Depth].taken
    BY <1>1, <1>7, InFunctionDepth DEF Running, Top, Declare
  <2> QED
    BY <1>1, <1>2, <1>3, <1>4, <2>1, <2>2, StoredOldKeepsIInv
<1> QED
  BY <1>6, <1>7

LEMMA AssignFrame ==
    ASSUME IInv, NEW x \in Var, NEW init \in {"new", "other"} \cup Var, Assign(x, init)
    PROVE  /\ Depth \in DOMAIN stack /\ InFunction /\ after' = "none" /\ read' = {}
           /\ \E d \in DOMAIN stack, v \in Value \ {None}, w \in Value \ {None} :
                 /\ stack[d].val[x] # None /\ d = Decl(x)
                 /\ \A i \in DOMAIN stack : i # d => stack[i].val[x] = None
                 /\ Gives(init, v)
                 /\ w = (IF Running THEN v ELSE stack[d].val[x])
                 /\ Stored(d, x, w, init = "new" /\ Registers(x))
                 /\ Running /\ init # "new" => x \notin stack[d].vars
                 /\ init = "new" /\ Registers(x) => d = Depth
                 /\ Running /\ init = "new" => v \in Obj /\ ref[v] = "unborn"
                 /\ ref' = IF ~Running \/ init # "new" THEN ref
                           ELSE [o \in Obj |->
                               IF o = v THEN IF x \in stack'[d].vars
                                             THEN "owned" ELSE "stray"
                               ELSE IF x \in stack[d].vars /\ o = stack[d].val[x]
                                    THEN "stray" ELSE ref[o]]
<1> DEFINE registers == init = "new" /\ Registers(x)
<1>0. /\ InFunction /\ Visible(x) /\ Depth \in DOMAIN stack
      /\ Running /\ init # "new" => ~Tracked(x)
      /\ after' = "none" /\ read' = {}
  BY InFunctionDepth DEF IInv, Assign
<1>1. PICK v \in Value :
        /\ Gives(init, v)
        /\ stack' = [stack EXCEPT
              ![Decl(x)].val[x] = IF Running THEN v ELSE @,
              ![Depth].vars = IF registers THEN @ \cup {x} ELSE @]
        /\ ref' = IF ~Running \/ init # "new" THEN ref
                  ELSE [o \in Obj |->
                      IF o = v THEN IF registers \/ Tracked(x)
                                    THEN "owned" ELSE "stray"
                      ELSE IF o = Pointee(x) /\ Tracked(x) THEN "stray"
                      ELSE ref[o]]
  BY DEF Assign
<1>2. PICK d \in DOMAIN stack :
        /\ d = Decl(x) /\ stack[d].val[x] # None /\ Pointee(x) = stack[d].val[x]
        /\ Tracked(x) <=> x \in stack[d].vars
  BY <1>0, VisibleDecl
<1>3. registers => d = Depth
  <2>1. registers => x \in stack[Depth].declared
    BY DEF Registers, Top
  <2> QED
    BY <1>0, <1>2, <2>1, TrackedVar, PointeeOf
<1>4. /\ v # None /\ (Running /\ init = "new" => v \in Obj /\ ref[v] = "unborn")
  BY <1>1, GivenValue
<1> HIDE DEF registers
<1>5. PICK w \in Value \ {None} : w = IF Running THEN v ELSE stack[d].val[x]
  <2>1. stack[d].val[x] \in Value
    BY Scopes DEF IInv
  <2> QED
    BY <1>2, <1>4, <2>1
<1>6. PICK e \in Scope : /\ e.vars = (IF registers THEN stack[d].vars \cup {x}
                                      ELSE stack[d].vars)
                         /\ e.declared = stack[d].declared /\ e.taken = stack[d].taken
                         /\ e.val = [stack[d].val EXCEPT ![x] = w]
                         /\ e.kind = stack[d].kind
  <2>1. stack[d] \in Scope
    BY Scopes DEF IInv
  <2> DEFINE V == IF registers THEN stack[d].vars \cup {x} ELSE stack[d].vars
             e0 == [stack[d] EXCEPT !.vars = V, !.val[x] = w]
  <2>2. V \in SUBSET Var
    BY <2>1 DEF Scope
  <2> HIDE DEF V
  <2>3. /\ e0 \in Scope /\ e0.vars = V /\ e0.kind = stack[d].kind
        /\ e0.declared = stack[d].declared /\ e0.taken = stack[d].taken
        /\ e0.val = [stack[d].val EXCEPT ![x] = w]
    BY <2>1, <2>2 DEF Scope
  <2> QED
    BY <2>3 DEF V
<1>7. stack \in Seq(Scope)
  BY DEF IInv, TypeOK
<1>8. ASSUME NEW i \in DOMAIN stack
      PROVE  stack'[i] = IF i = d THEN e ELSE stack[i]
  <2>1. stack[i] \in Scope /\ stack[d] \in Scope
    BY Scopes DEF IInv
  <2> DEFINE s1 == [stack EXCEPT ![d].val[x] = w]
  <2>2. /\ DOMAIN s1 = DOMAIN stack /\ s1[d] = [stack[d] EXCEPT !.val[x] = w]
        /\ i # d => s1[i] = stack[i]
    BY <2>1
  <2> HIDE DEF s1
  <2>3. stack' = [s1 EXCEPT ![Depth].vars = IF registers THEN @ \cup {x} ELSE @]
    BY <1>1, <1>2, <1>5 DEF s1
  <2>4. CASE i # d
    <3>1. ~registers \/ i # Depth
      BY <1>3, <2>4
    <3>2. stack'[i] = IF i = Depth THEN [s1[i] EXCEPT !.vars = @] ELSE s1[i]
      BY <1>0, <2>2, <2>3, <3>1
    <3>3. stack'[i] = stack[i]
      BY <2>1, <2>2, <2>4, <3>2 DEF Scope
    <3> QED
      BY <2>4, <3>3
  <2>5. CASE i = d
    <3>1. stack'[d] = IF d = Depth
                      THEN [s1[d] EXCEPT !.vars = IF registers THEN @ \cup {x} ELSE @]
                      ELSE s1[d]
      BY <1>0, <2>2, <2>3
    <3>2. stack'[d] \in Scope /\ stack'[d].kind = stack[d].kind
          /\ stack'[d].vars = (IF registers THEN stack[d].vars \cup {x}
                               ELSE stack[d].vars)
          /\ stack'[d].declared = stack[d].declared /\ stack'[d].taken = stack[d].taken
          /\ stack'[d].val = [stack[d].val EXCEPT ![x] = w]
      <4> DEFINE V == IF registers THEN stack[d].vars \cup {x} ELSE stack[d].vars
      <4>1. V \in SUBSET Var /\ (~registers => V = stack[d].vars)
        BY <2>1 DEF Scope
      <4>2. stack'[d] = IF d = Depth THEN [s1[d] EXCEPT !.vars = V] ELSE s1[d]
        BY <2>1, <2>2, <3>1 DEF Scope
      <4>3. V = (IF registers THEN stack[d].vars \cup {x} ELSE stack[d].vars)
        OBVIOUS
      <4> HIDE DEF V
      <4>4. CASE d = Depth
        <5>1. stack'[d] = [[stack[d] EXCEPT !.val[x] = w] EXCEPT !.vars = V]
          BY <2>2, <4>2, <4>4
        <5>2. /\ stack'[d] \in Scope /\ stack'[d].kind = stack[d].kind
              /\ stack'[d].vars = V /\ stack'[d].declared = stack[d].declared
              /\ stack'[d].taken = stack[d].taken
              /\ stack'[d].val = [stack[d].val EXCEPT ![x] = w]
          <6> DEFINE f == [stack[d] EXCEPT !.val[x] = w]
          <6>1. /\ f \in Scope /\ f.kind = stack[d].kind
                /\ f.declared = stack[d].declared /\ f.taken = stack[d].taken
                /\ f.val = [stack[d].val EXCEPT ![x] = w]
            BY <2>1 DEF Scope
          <6>2. stack'[d] = [f EXCEPT !.vars = V]
            BY <5>1
          <6> HIDE DEF f
          <6> QED
            BY ONLY <4>1, <6>1, <6>2 DEF Scope
        <5> QED
          BY <4>3, <5>2
      <4>5. CASE d # Depth
        <5>1. stack'[d] = [stack[d] EXCEPT !.val[x] = w]
          BY <2>2, <4>2, <4>5
        <5>2. /\ stack'[d] \in Scope /\ stack'[d].kind = stack[d].kind
              /\ stack'[d].vars = stack[d].vars /\ stack'[d].declared = stack[d].declared
              /\ stack'[d].taken = stack[d].taken
              /\ stack'[d].val = [stack[d].val EXCEPT ![x] = w]
          BY <2>1, <5>1 DEF Scope
        <5> QED
          BY <1>3, <4>5, <5>2
      <4> QED
        BY <4>4, <4>5
    <3>3. stack'[d] = e
      BY <1>6, <3>2 DEF Scope
    <3> QED
      BY <2>5, <3>3
  <2> QED
    BY <2>4, <2>5
<1>9. stack' \in Seq(Scope) /\ DOMAIN stack' = DOMAIN stack
  <2>1. stack' = [i \in DOMAIN stack |-> stack'[i]]
    BY <1>1
  <2>2. \A i \in DOMAIN stack : stack'[i] \in Scope
    BY <1>6, <1>8, Scopes DEF IInv
  <2> QED
    BY ONLY <1>7, <2>1, <2>2, FunctionIsSeq
<1>11. /\ \A i \in DOMAIN stack : stack'[i].taken = stack[i].taken
       /\ \A i \in DOMAIN stack : \A y : ~(i = d /\ y = x) =>
             (y \in stack'[i].vars <=> y \in stack[i].vars)
       /\ \A i \in DOMAIN stack : stack'[i].declared = stack[i].declared
       /\ \A i \in DOMAIN stack : \A y \in Var : ~(i = d /\ y = x) =>
             stack'[i].val[y] = stack[i].val[y]
       /\ stack'[d].val[x] = w
       /\ x \in stack'[d].vars <=> registers \/ x \in stack[d].vars
  <2>1. stack[d].val \in [Var -> Value]
    BY Scopes DEF IInv
  <2> QED
    BY <1>6, <1>8, <2>1
<1>12. Stored(d, x, w, registers)
  BY <1>9, <1>11 DEF Stored
<1>13. \A i \in DOMAIN stack : i # d => stack[i].val[x] = None
  BY <1>2 DEF IInv, NoShadow
<1>14. ref' = IF ~Running \/ init # "new" THEN ref
              ELSE [o \in Obj |->
                  IF o = v THEN IF x \in stack'[d].vars THEN "owned" ELSE "stray"
                  ELSE IF x \in stack[d].vars /\ o = stack[d].val[x]
                       THEN "stray" ELSE ref[o]]
  <2>1. (registers \/ Tracked(x)) <=> x \in stack'[d].vars
    BY <1>2, <1>11
  <2>2. \A o : o = Pointee(x) /\ Tracked(x) <=> x \in stack[d].vars /\ o = stack[d].val[x]
    BY <1>2
  <2> QED
    BY <1>1, <2>1, <2>2
<1>15. Running /\ init # "new" => x \notin stack[d].vars
  BY <1>0, <1>2
<1>16. /\ Gives(init, v) /\ v \in Value \ {None} /\ w = (IF Running THEN v ELSE stack[d].val[x])
       /\ stack[d].val[x] # None /\ d = Decl(x)
  BY <1>1, <1>2, <1>4, <1>5
<1>17. registers <=> init = "new" /\ Registers(x)
  BY DEF registers
<1>18. Stored(d, x, w, init = "new" /\ Registers(x))
  BY <1>12 DEF registers
<1>19. Depth \in DOMAIN stack /\ InFunction /\ after' = "none" /\ read' = {}
  BY <1>0
<1> QED
  BY ONLY <1>3, <1>4, <1>13, <1>14, <1>15, <1>16, <1>17, <1>18, <1>19,
          d \in DOMAIN stack, w \in Value \ {None}

LEMMA AssignKeepsIInv ==
    ASSUME IInv, NEW x \in Var, NEW init \in {"new", "other"} \cup Var, Assign(x, init)
    PROVE  IInv'
<1>1. Depth \in DOMAIN stack /\ InFunction /\ after' = "none" /\ read' = {}
  BY AssignFrame
<1>2. PICK d \in DOMAIN stack, v \in Value \ {None}, w \in Value \ {None} :
                 /\ stack[d].val[x] # None /\ d = Decl(x)
                 /\ \A i \in DOMAIN stack : i # d => stack[i].val[x] = None
                 /\ Gives(init, v)
                 /\ w = (IF Running THEN v ELSE stack[d].val[x])
                 /\ Stored(d, x, w, init = "new" /\ Registers(x))
                 /\ Running /\ init # "new" => x \notin stack[d].vars
                 /\ init = "new" /\ Registers(x) => d = Depth
                 /\ Running /\ init = "new" => v \in Obj /\ ref[v] = "unborn"
                 /\ ref' = IF ~Running \/ init # "new" THEN ref
                           ELSE [o \in Obj |->
                               IF o = v THEN IF x \in stack'[d].vars
                                             THEN "owned" ELSE "stray"
                               ELSE IF x \in stack[d].vars /\ o = stack[d].val[x]
                                    THEN "stray" ELSE ref[o]]
  BY AssignFrame
<1>3. (init = "new" /\ Registers(x)) \in BOOLEAN
  OBVIOUS
<1>4. CASE Running /\ init = "new"
  <2>1. stack[d].taken /\ w = v /\ v \in Obj /\ ref[v] = "unborn"
    BY <1>2, <1>4, RunningTaken
  <2>2. ref \in [Obj -> Fate] /\ {"owned", "stray"} \subseteq Fate
    BY DEF IInv, TypeOK, Fate
  <2>3. ref' = [o \in Obj |->
                  IF o = v THEN IF x \in stack'[d].vars THEN "owned" ELSE "stray"
                  ELSE IF x \in stack[d].vars /\ o = stack[d].val[x]
                       THEN "stray" ELSE ref[o]]
    BY <1>2, <1>4
  <2>4. /\ ref' \in [Obj -> Fate]
        /\ ref'[v] = (IF x \in stack'[d].vars THEN "owned" ELSE "stray")
        /\ \A o \in Obj \ {v} :
              ref'[o] = IF x \in stack[d].vars /\ o = stack[d].val[x]
                        THEN "stray" ELSE ref[o]
    BY <2>1, <2>2, <2>3
  <2>5. Stored(d, x, v, init = "new" /\ Registers(x))
    BY <1>2, <2>1
  <2>6. \A i \in DOMAIN stack : i # d => stack[i].val[x] = None
    BY <1>2
  <2> QED
    BY <1>1, <1>3, <2>1, <2>4, <2>5, <2>6, StoredNewKeepsIInv
<1>5. CASE ~(Running /\ init = "new")
  <2>1. ref' = ref
    BY <1>2, <1>5
  <2>2. init = "new" /\ Registers(x) => ~stack[d].taken
    BY <1>1, <1>2, <1>5 DEF Running, Top
  <2>3. x \in stack[d].vars => w = stack[d].val[x]
    BY <1>2, <1>5
  <2>4. /\ Stored(d, x, w, init = "new" /\ Registers(x))
        /\ \A i \in DOMAIN stack : i # d => stack[i].val[x] = None
    BY <1>2
  <2> QED
    BY <1>1, <1>3, <2>1, <2>2, <2>3, <2>4, StoredOldKeepsIInv
<1> QED
  BY <1>4, <1>5

-----------------------------------------------------------------------------
(* Theorems *)

LEMMA InitEstablishesIInv ==
    ASSUME Init
    PROVE  IInv
<1> DEFINE s == NewScope("block", TRUE)
<1>1. s \in Scope /\ s.vars = {} /\ s.declared = {}
  BY NewScopeType DEF Kind
<1> HIDE DEF s
<1>2. /\ stack = <<s>> /\ after = "none" /\ read = {}
      /\ ref = [o \in Obj |-> "unborn"]
  BY DEF Init, s
<1>3. stack \in Seq(Scope) /\ DOMAIN stack = {1} /\ stack[1] = s
  BY <1>1, <1>2
<1>4. ref \in [Obj -> Fate]
  BY <1>2 DEF Fate
<1>5. TypeOK
  BY <1>1, <1>2, <1>3, <1>4 DEF TypeOK
<1>6. NoShadow /\ TakenNested
  BY <1>3 DEF NoShadow, TakenNested
<1>7. ReleasedOnce /\ OwnedTracked
  BY <1>1, <1>2, <1>3 DEF ReleasedOnce, OwnedTracked
<1> QED
  BY <1>5, <1>6, <1>7 DEF IInv

LEMMA NextKeepsIInv ==
    ASSUME IInv, [Next]_vars
    PROVE  IInv'
<1>1. CASE UNCHANGED vars
  <2>1. stack' = stack /\ after' = after /\ ref' = ref /\ read' = read
    BY <1>1 DEF vars
  <2>2. TypeOK'
    BY <2>1 DEF IInv, TypeOK
  <2>3. NoShadow' /\ TakenNested' /\ ReleasedOnce'
    BY <2>1 DEF IInv, NoShadow, TakenNested, ReleasedOnce
  <2>4. OwnedTracked'
    BY <2>1 DEF IInv, OwnedTracked, Owner
  <2> QED
    BY <2>2, <2>3, <2>4 DEF IInv
<1>2. ASSUME NEW kind \in Kind, NEW taken \in BOOLEAN, Enter(kind, taken)
      PROVE  IInv'
  <2>1. (Running /\ taken) \in BOOLEAN /\ (Running /\ taken => Top.taken)
    BY DEF Running
  <2> QED
    BY <1>2, <2>1, PushKeepsIInv DEF Enter
<1>3. CASE EnterElse
  <2> DEFINE taken == Running /\ after = "if skipped"
  <2>1. taken \in BOOLEAN /\ (taken => Top.taken) /\ "else" \in Kind
    BY DEF Running, Kind
  <2>2. /\ InFunction /\ stack' = Append(stack, NewScope("else", taken))
        /\ after' = "none" /\ read' = {} /\ ref' = ref
    BY <1>3 DEF EnterElse
  <2> HIDE DEF taken
  <2> QED
    BY <2>1, <2>2, PushKeepsIInv
<1>4. CASE Block
  BY <1>2, <1>3, <1>4, LeaveKeepsIInv DEF Block
<1>5. CASE Statement
  BY <1>5, DeclareKeepsIInv, AssignKeepsIInv, ManualReleaseKeepsIInv,
     BreakOrContinueKeepsIInv, ReturnOrThrowKeepsIInv DEF Statement
<1> QED
  BY <1>1, <1>4, <1>5 DEF Next

THEOREM Invariance == Spec => []IInv
<1>1. Init => IInv
  BY InitEstablishesIInv
<1>2. IInv /\ [Next]_vars => IInv'
  BY NextKeepsIInv
<1> QED
  BY <1>1, <1>2, PTL DEF Spec

\* Every variable keeps its type; what the pass tracks or has seen declared in
\* a scope is a C variable of that block.
THEOREM TypeCorrect == Spec => []TypeOK
<1>1. IInv => TypeOK
  BY DEF IInv
<1> QED
  BY <1>1, Invariance, PTL

\* No path through the rewritten function releases an object twice, for
\* functions of any size and any nesting.
THEOREM ReleaseSafety == Spec => []ReleasedOnce
<1>1. IInv => ReleasedOnce
  BY DEF IInv
<1> QED
  BY <1>1, Invariance, PTL

\* What the pass has still to release is what the path still owns, and each
\* object has one variable that will release it.
THEOREM Ownership == Spec => []OwnedTracked
<1>1. IInv => OwnedTracked
  BY DEF IInv
<1> QED
  BY <1>1, Invariance, PTL

-----------------------------------------------------------------------------
(* What the rewritten function may still use: the objects of the locals in  *)
(* scope, and those of a return expression.                                   *)

\* Fates of objects that the pass will never release.
Kept == {"leaked", "stray", "gone"}

\* With the scopes s and the fates r, nothing releases o before the end of
\* scope i.
Lasts(s, r, i, o) ==
    \/ r[o] \in Kept
    \/ \E j \in DOMAIN s : /\ j <= i /\ s[j].taken
                           /\ \E y \in s[j].vars : s[j].val[y] = o

\* A local points only to objects that last at least as long as its scope.
Borrowed ==
    \A i \in DOMAIN stack : stack[i].taken =>
        \A x \in Var : stack[i].val[x] \in Obj => Lasts(stack, ref, i, stack[i].val[x])

LEMMA LastsIsOwnedOrKept ==
    ASSUME IInv, NEW i, NEW o \in Obj, Lasts(stack, ref, i, o)
    PROVE  ref[o] \in Kept \cup {"owned"}
BY DEF Lasts, IInv, OwnedTracked, Owner

LEMMA LastsInward ==
    ASSUME IInv, NEW k \in DOMAIN stack, NEW i \in DOMAIN stack, k <= i,
           NEW o, Lasts(stack, ref, k, o)
    PROVE  Lasts(stack, ref, i, o)
<1>1. ASSUME NEW j \in DOMAIN stack, j <= k
      PROVE  j <= i
  BY <1>1, Scopes DEF IInv
<1> QED
  BY <1>1 DEF Lasts

\* Enough for Borrowed to be preserved: the new value of a variable lasts, or is
\* that of a variable that was declared no further in.
LEMMA StillBorrowed ==
    ASSUME IInv, Borrowed,
           \A i \in DOMAIN stack' \cap DOMAIN stack : stack'[i].taken =>
              \A o \in Obj : Lasts(stack, ref, i, o) => Lasts(stack', ref', i, o),
           \A i \in DOMAIN stack' : stack'[i].taken =>
              \A x \in Var : stack'[i].val[x] \in Obj =>
                 \/ Lasts(stack', ref', i, stack'[i].val[x])
                 \/ /\ i \in DOMAIN stack
                    /\ \E k \in DOMAIN stack, z \in Var :
                          /\ k <= i /\ stack[k].taken
                          /\ stack[k].val[z] = stack'[i].val[x]
    PROVE  Borrowed'
<1>1. ASSUME NEW i \in DOMAIN stack', stack'[i].taken, NEW x \in Var,
             stack'[i].val[x] \in Obj
      PROVE  Lasts(stack', ref', i, stack'[i].val[x])
  <2>1. CASE Lasts(stack', ref', i, stack'[i].val[x])
    BY <2>1
  <2>2. CASE /\ i \in DOMAIN stack
             /\ \E k \in DOMAIN stack, z \in Var :
                   /\ k <= i /\ stack[k].taken
                   /\ stack[k].val[z] = stack'[i].val[x]
    <3>1. PICK k \in DOMAIN stack, z \in Var :
             k <= i /\ stack[k].taken /\ stack[k].val[z] = stack'[i].val[x]
      BY <2>2
    <3>2. Lasts(stack, ref, k, stack'[i].val[x])
      BY <1>1, <3>1 DEF Borrowed
    <3>3. Lasts(stack, ref, i, stack'[i].val[x])
      BY <2>2, <3>1, <3>2, LastsInward
    <3> QED
      BY <1>1, <2>2, <3>3
  <2> QED
    BY <1>1, <2>1, <2>2
<1> QED
  BY <1>1 DEF Borrowed

\* The same for steps that give no variable a new value.
LEMMA NothingStored ==
    ASSUME IInv, Borrowed,
           DOMAIN stack' \subseteq DOMAIN stack,
           \A i \in DOMAIN stack' : /\ stack'[i].taken => stack[i].taken
                                    /\ stack'[i].val = stack[i].val,
           \A i \in DOMAIN stack' : stack'[i].taken =>
              \A o \in Obj : Lasts(stack, ref, i, o) => Lasts(stack', ref', i, o)
    PROVE  Borrowed'
<1>1. \A i \in DOMAIN stack' : i <= i
  BY Scopes DEF IInv
<1> QED
  BY <1>1, StillBorrowed

-----------------------------------------------------------------------------
LEMMA PushKeepsBorrowed ==
    ASSUME IInv, Borrowed, InFunction, NEW kind \in Kind, NEW taken \in BOOLEAN,
           stack' = Append(stack, NewScope(kind, taken)), ref' = ref
    PROVE  Borrowed'
<1> DEFINE new == NewScope(kind, taken)
<1>1. new \in Scope /\ \A x \in Var : new.val[x] = None
  BY NewScopeType
<1>2. stack \in Seq(Scope)
  BY DEF IInv, TypeOK
<1>3. stack' = Append(stack, new)
  OBVIOUS
<1> HIDE DEF new
<1>4. /\ \A i \in DOMAIN stack' : i \in DOMAIN stack \/ stack'[i] = new
      /\ \A i \in DOMAIN stack : i \in DOMAIN stack' /\ stack'[i] = stack[i] /\ i <= i
  BY ONLY <1>1, <1>2, <1>3
<1>5. None \notin Obj
  BY SentinelsAreNoObjects
<1>6. \A i \in DOMAIN stack : \A o : Lasts(stack, ref, i, o) => Lasts(stack', ref', i, o)
  BY <1>4 DEF Lasts
<1>7. ASSUME NEW i \in DOMAIN stack', stack'[i].taken, NEW x \in Var,
             stack'[i].val[x] \in Obj
      PROVE  /\ i \in DOMAIN stack
             /\ i <= i /\ stack[i].taken /\ stack[i].val[x] = stack'[i].val[x]
  BY <1>1, <1>4, <1>5, <1>7
<1> QED
  BY <1>6, <1>7, StillBorrowed

LEMMA LeaveKeepsBorrowed ==
    ASSUME IInv, Borrowed, Leave
    PROVE  Borrowed'
<1>0. /\ InFunction /\ Depth \in Nat \ {0} /\ DOMAIN stack = 1 .. Depth
      /\ Depth \in DOMAIN stack
      /\ stack \in Seq(Scope) /\ stack # <<>>
      /\ stack' = SubSeq(stack, 1, Depth - 1)
  BY InFunctionDepth DEF IInv, TypeOK, Leave, InFunction
<1>1. /\ DOMAIN stack' = 1 .. Depth - 1
      /\ \A i \in DOMAIN stack' : i \in DOMAIN stack /\ stack'[i] = stack[i]
  BY ONLY <1>0, Prefix DEF Depth
<1>2. ASSUME NEW o \in Obj,
             \A x \in stack[Depth].vars : stack[Depth].val[x] # o
      PROVE  ref'[o] = ref[o]
  <2>1. CASE Running
    <3>1. \A x \in Top.vars : Pointee(x) # o
      BY <1>0, <1>2, PointeeOf, TrackedVar DEF Top
    <3> QED
      BY <2>1, <3>1 DEF Leave, Released
  <2>2. CASE ~Running
    BY <2>2 DEF Leave
  <2> QED
    BY <2>1, <2>2
<1>3. ~stack[Depth].taken => ref' = ref
  BY <1>0 DEF Leave, Running, Top
<1>4. ASSUME NEW i \in DOMAIN stack', stack'[i].taken, NEW o \in Obj,
             Lasts(stack, ref, i, o)
      PROVE  Lasts(stack', ref', i, o)
  <2>1. CASE ref[o] \in Kept
    <3>1. stack[Depth].taken => \A x \in stack[Depth].vars : stack[Depth].val[x] # o
      BY <1>0, <2>1 DEF IInv, OwnedTracked, Owner, Kept
    <3>2. ref'[o] = ref[o]
      BY <1>2, <1>3, <3>1
    <3> QED
      BY <2>1, <3>2 DEF Lasts
  <2>2. CASE ref[o] \notin Kept
    <3>1. PICK j \in DOMAIN stack : /\ j <= i /\ stack[j].taken
                                    /\ \E y \in stack[j].vars : stack[j].val[y] = o
      BY <1>4, <2>2 DEF Lasts
    <3>2. j \in DOMAIN stack'
      BY <1>0, <1>1, <3>1
    <3> QED
      BY <1>1, <3>1, <3>2 DEF Lasts
  <2> QED
    BY <2>1, <2>2
<1> QED
  BY <1>1, <1>4, NothingStored

LEMMA ManualReleaseKeepsBorrowed ==
    ASSUME IInv, Borrowed, NEW x \in Var, ManualRelease(x)
    PROVE  Borrowed'
<1>1. /\ DOMAIN stack' = DOMAIN stack
      /\ \A i \in DOMAIN stack :
            /\ stack'[i].vars = stack[i].vars \ {x}
            /\ stack'[i].val = stack[i].val
            /\ stack'[i].taken = stack[i].taken
  BY ManualReleaseFrame
<1>2. /\ \A i \in DOMAIN stack : x \in stack[i].vars /\ stack[i].taken =>
            Dead(x) /\ Pointee(x) = stack[i].val[x]
      /\ \A o \in Obj : ref'[o] \in {ref[o], "gone", "stray"}
      /\ Dead(x) => ref'[Pointee(x)] \in {"gone", "stray"}
  BY ManualReleaseFrame
<1>3. ASSUME NEW i \in DOMAIN stack', stack'[i].taken, NEW o \in Obj,
             Lasts(stack, ref, i, o)
      PROVE  Lasts(stack', ref', i, o)
  <2>1. CASE ref[o] \in Kept
    BY <1>2, <2>1 DEF Lasts, Kept
  <2>2. CASE ref[o] \notin Kept
    <3>1. PICK j \in DOMAIN stack : /\ j <= i /\ stack[j].taken
                                    /\ \E y \in stack[j].vars : stack[j].val[y] = o
      BY <1>3, <2>2 DEF Lasts
    <3>2. PICK y \in stack[j].vars : stack[j].val[y] = o
      BY <3>1
    <3>3. CASE y = x
      <4>1. ref'[o] \in {"gone", "stray"}
        BY <1>2, <3>1, <3>2, <3>3
      <4> QED
        BY <4>1 DEF Lasts, Kept
    <3>4. CASE y # x
      BY <1>1, <3>1, <3>2, <3>4 DEF Lasts
    <3> QED
      BY <3>3, <3>4
  <2> QED
    BY <2>1, <2>2
<1> QED
  BY <1>1, <1>3, NothingStored

LEMMA LeaveFromKeepsBorrowed ==
    ASSUME IInv, Borrowed, InFunction, NEW t \in DOMAIN stack,
           NEW from, NEW kept, NEW result,
           Analyzed => from = t,
           ~Running => result = None,
           LeaveFrom(t, from, kept, result)
    PROVE  Borrowed'
<1>0. t \in Nat /\ Depth \in Nat /\ DOMAIN stack = 1 .. Depth
  BY InFunctionDepth DEF IInv
<1>1. /\ DOMAIN stack' = DOMAIN stack
      /\ \A i \in DOMAIN stack :
            /\ stack'[i].vars = IF Analyzed /\ i >= t THEN {} ELSE stack[i].vars
            /\ stack'[i].val = stack[i].val
            /\ stack'[i].taken = (stack[i].taken /\ ~(Running /\ i >= t))
  BY LeaveFromFrame
<1>2. ASSUME NEW o \in Obj
      PROVE  /\ o \in OwnedFrom(t) /\ (Analyzed \/ Running) => ref'[o] # "owned"
             /\ o \notin OwnedFrom(t) => ref'[o] = ref[o]
             /\ o \in OwnedFrom(t) /\ ~Running => ref'[o] \in {"owned", "leaked", "passed"}
             /\ ref'[o] = "passed" /\ ref[o] # "passed" => o = result
  BY LeaveFromFrame
<1>3. ASSUME NEW i \in DOMAIN stack', stack'[i].taken, NEW o \in Obj,
             Lasts(stack, ref, i, o)
      PROVE  Lasts(stack', ref', i, o)
  <2>0. i \in DOMAIN stack /\ ~(Running /\ i >= t)
    BY <1>1, <1>3
  <2>1. CASE ref[o] \in Kept
    <3>1. o \notin OwnedFrom(t)
      BY <1>0, <2>1 DEF OwnedFrom, IInv, OwnedTracked, Owner, Kept
    <3>2. ref'[o] = ref[o]
      BY <1>2, <3>1
    <3> QED
      BY <2>1, <3>2 DEF Lasts
  <2>2. CASE ref[o] \notin Kept
    <3>1. PICK j \in DOMAIN stack : /\ j <= i /\ stack[j].taken
                                    /\ \E y \in stack[j].vars : stack[j].val[y] = o
      BY <1>3, <2>2 DEF Lasts
    <3>2. j \in DOMAIN stack' /\ stack'[j].taken /\ stack'[j].val = stack[j].val
      <4>1. ~(Running /\ j >= t)
        BY <1>0, <2>0, <3>1
      <4>2. stack'[j].taken = (stack[j].taken /\ ~(Running /\ j >= t))
        BY <1>1
      <4> QED
        BY <1>1, <3>1, <4>1, <4>2
    <3>3. CASE Analyzed /\ j >= t
      <4>1. ~Running /\ j \in t .. Depth
        BY <1>0, <2>0, <3>1, <3>3
      <4>2. o \in OwnedFrom(t) /\ ref[o] = "owned"
        BY <3>1, <4>1 DEF OwnedFrom, IInv, OwnedTracked, Owner
      <4>3. ref'[o] = "leaked"
        BY <1>2, <3>3, <4>1, <4>2, SentinelsAreNoObjects
      <4> QED
        BY <4>3 DEF Lasts, Kept
    <3>4. CASE ~(Analyzed /\ j >= t)
      <4>1. stack'[j].vars = stack[j].vars
        BY <1>1, <3>4
      <4> QED
        BY <3>1, <3>2, <4>1 DEF Lasts
    <3> QED
      BY <3>3, <3>4
  <2> QED
    BY <2>1, <2>2
<1> QED
  BY <1>1, <1>3, NothingStored

LEMMA BreakOrContinueKeepsBorrowed ==
    ASSUME IInv, Borrowed, NEW t, BreakOrContinue(t)
    PROVE  Borrowed'
<1>1. /\ t \in DOMAIN stack /\ Loop(t) /\ InFunction
      /\ LeaveFrom(t, NearestLoop, {}, None)
  BY DEF BreakOrContinue, Loop, InFunction
<1>2. Analyzed => NearestLoop = t
  BY <1>1, NearestLoopIsLeft
<1> QED
  BY <1>1, <1>2, LeaveFromKeepsBorrowed

LEMMA ReturnOrThrowKeepsBorrowed ==
    ASSUME IInv, Borrowed, NEW form, NEW x, NEW reads, ReturnOrThrow(form, x, reads)
    PROVE  Borrowed'
<1>1. InFunction /\ 1 \in DOMAIN stack
  BY InFunctionDepth DEF IInv, ReturnOrThrow
<1>2. LeaveFrom(1, 1, extract_returned_var(form, x),
                IF form = "var" /\ Running THEN Pointee(x) ELSE None)
  BY DEF ReturnOrThrow
<1> QED
  BY <1>1, <1>2, LeaveFromKeepsBorrowed

LEMMA StoredKeepsBorrowed ==
    ASSUME IInv, Borrowed, NEW d \in DOMAIN stack, NEW x \in Var, NEW w,
           NEW registers \in BOOLEAN, Stored(d, x, w, registers),
           \A o \in Obj : ref[o] \in Kept => ref'[o] \in Kept,
           \A o \in Obj : x \in stack[d].vars /\ stack[d].taken /\ stack[d].val[x] = o =>
              ref'[o] \in Kept \/ w = o,
           stack[d].taken /\ w \in Obj =>
              \/ ref'[w] \in Kept \/ x \in stack'[d].vars
              \/ \E k \in DOMAIN stack, z \in Var :
                    k <= d /\ stack[k].taken /\ stack[k].val[z] = w
    PROVE  Borrowed'
<1>1. /\ DOMAIN stack' = DOMAIN stack
      /\ \A i \in DOMAIN stack : stack'[i].taken = stack[i].taken
      /\ \A i \in DOMAIN stack : \A y : ~(i = d /\ y = x) =>
            (y \in stack'[i].vars <=> y \in stack[i].vars)
      /\ \A i \in DOMAIN stack : \A y \in Var : ~(i = d /\ y = x) =>
            stack'[i].val[y] = stack[i].val[y]
      /\ stack'[d].val[x] = w
      /\ x \in stack[d].vars => x \in stack'[d].vars
  BY DEF Stored
<1>2. \A i \in DOMAIN stack : i <= i
  BY Scopes DEF IInv
<1>3. ASSUME NEW i \in DOMAIN stack', stack'[i].taken, NEW o \in Obj,
             Lasts(stack, ref, i, o)
      PROVE  Lasts(stack', ref', i, o)
  <2>1. CASE ref[o] \in Kept
    BY <2>1 DEF Lasts
  <2>2. CASE ref[o] \notin Kept
    <3>1. PICK j \in DOMAIN stack : /\ j <= i /\ stack[j].taken
                                    /\ \E y \in stack[j].vars : stack[j].val[y] = o
      BY <1>3, <2>2 DEF Lasts
    <3>2. PICK y \in stack[j].vars : stack[j].val[y] = o
      BY <3>1
    <3>3. y \in Var
      BY <3>2, TrackedVar
    <3>4. CASE j = d /\ y = x
      <4>1. ref'[o] \in Kept \/ (x \in stack'[d].vars /\ stack'[d].val[x] = o)
        BY <1>1, <3>1, <3>2, <3>4
      <4>2. j \in DOMAIN stack' /\ stack'[j].taken
        BY <1>1, <3>1
      <4> QED
        BY <3>1, <3>4, <4>1, <4>2 DEF Lasts
    <3>5. CASE ~(j = d /\ y = x)
      <4>1. /\ j \in DOMAIN stack' /\ stack'[j].taken
            /\ y \in stack'[j].vars /\ stack'[j].val[y] = o
        BY <1>1, <3>1, <3>2, <3>3, <3>5
      <4> QED
        BY <3>1, <4>1 DEF Lasts
    <3> QED
      BY <3>4, <3>5
  <2> QED
    BY <2>1, <2>2
<1>4. ASSUME NEW i \in DOMAIN stack', stack'[i].taken, NEW y \in Var,
             stack'[i].val[y] \in Obj
      PROVE  \/ Lasts(stack', ref', i, stack'[i].val[y])
             \/ /\ i \in DOMAIN stack
                /\ \E k \in DOMAIN stack, z \in Var :
                      /\ k <= i /\ stack[k].taken
                      /\ stack[k].val[z] = stack'[i].val[y]
  <2>1. i \in DOMAIN stack /\ stack[i].taken
    BY <1>1, <1>4
  <2>2. CASE ~(i = d /\ y = x)
    BY <1>1, <1>2, <2>1, <2>2
  <2>3. CASE i = d /\ y = x
    <3>1. stack'[i].val[y] = w /\ w \in Obj /\ stack[d].taken
      BY <1>1, <1>4, <2>1, <2>3
    <3>2. CASE ref'[w] \in Kept
      BY <3>1, <3>2 DEF Lasts
    <3>3. CASE x \in stack'[d].vars
      BY <1>1, <1>2, <1>4, <2>3, <3>1, <3>3 DEF Lasts
    <3>4. CASE \E k \in DOMAIN stack, z \in Var :
                  k <= d /\ stack[k].taken /\ stack[k].val[z] = w
      BY <2>1, <2>3, <3>1, <3>4
    <3> QED
      BY <3>1, <3>2, <3>3, <3>4
  <2> QED
    BY <2>2, <2>3
<1> QED
  BY <1>3, <1>4, StillBorrowed

LEMMA GivenLasts ==
    ASSUME IInv, Running, NEW init \in {"new", "other"} \cup Var, init # "new",
           NEW v, Gives(init, v), v \in Obj
    PROVE  /\ init \in Var /\ Visible(init)
           /\ Decl(init) \in DOMAIN stack /\ stack[Decl(init)].taken
           /\ stack[Decl(init)].val[init] = v
<1>1. init \in Var /\ Visible(init) /\ v = Pointee(init)
  BY SentinelsAreNoObjects DEF Gives
<1> QED
  BY <1>1, VisibleDecl, RunningTaken

LEMMA DeclareKeepsBorrowed ==
    ASSUME IInv, Borrowed, NEW x \in Var, NEW init \in {"new", "other"} \cup Var,
           NEW inFor \in BOOLEAN, Declare(x, init, inFor)
    PROVE  Borrowed'
<1>1. Depth \in DOMAIN stack /\ x \notin stack[Depth].vars
  BY DeclareFrame
<1>2. PICK v \in Value \ {None} :
         /\ Gives(init, v)
         /\ Stored(Depth, x, v, Analyzed /\ init = "new")
         /\ ref' = IF Running /\ init = "new"
                   THEN [ref EXCEPT ![v] = IF Analyzed THEN "owned" ELSE "stray"]
                   ELSE ref
         /\ Running /\ init = "new" => v \in Obj /\ ref[v] = "unborn"
  BY DeclareFrame
<1>3. (Analyzed /\ init = "new") \in BOOLEAN /\ ref \in [Obj -> Fate]
  BY DEF IInv, TypeOK
<1>4. InFunction
  BY DEF Declare
<1>5. \A o \in Obj : ref[o] \in Kept => ref'[o] \in Kept
  BY <1>2, <1>3 DEF Kept
<1>6. ASSUME stack[Depth].taken, v \in Obj
      PROVE  \/ ref'[v] \in Kept \/ x \in stack'[Depth].vars
             \/ \E k \in DOMAIN stack, z \in Var :
                   k <= Depth /\ stack[k].taken /\ stack[k].val[z] = v
  <2>1. Running
    BY <1>4, <1>6 DEF Running, Top
  <2>2. CASE init = "new"
    <3>1. Analyzed => x \in stack'[Depth].vars
      BY <1>2, <2>2 DEF Stored
    <3>2. ~Analyzed => ref'[v] = "stray"
      BY <1>2, <1>3, <1>6, <2>1, <2>2
    <3> QED
      BY <3>1, <3>2 DEF Kept
  <2>3. CASE init # "new"
    <3>1. /\ init \in Var /\ Decl(init) \in DOMAIN stack /\ stack[Decl(init)].taken
          /\ stack[Decl(init)].val[init] = v
      BY <1>2, <1>6, <2>1, <2>3, GivenLasts
    <3>2. Decl(init) <= Depth
      BY <1>4, <3>1, InFunctionDepth DEF IInv
    <3> QED
      BY <3>1, <3>2
  <2> QED
    BY <2>2, <2>3
<1> QED
  BY <1>1, <1>2, <1>3, <1>5, <1>6, StoredKeepsBorrowed

LEMMA AssignKeepsBorrowed ==
    ASSUME IInv, Borrowed, NEW x \in Var, NEW init \in {"new", "other"} \cup Var,
           Assign(x, init)
    PROVE  Borrowed'
<1>1. PICK d \in DOMAIN stack, v \in Value \ {None}, w \in Value \ {None} :
         /\ stack[d].val[x] # None /\ d = Decl(x)
         /\ Gives(init, v)
         /\ w = (IF Running THEN v ELSE stack[d].val[x])
         /\ Stored(d, x, w, init = "new" /\ Registers(x))
         /\ Running /\ init # "new" => x \notin stack[d].vars
         /\ Running /\ init = "new" => v \in Obj /\ ref[v] = "unborn"
         /\ ref' = IF ~Running \/ init # "new" THEN ref
                   ELSE [o \in Obj |->
                       IF o = v THEN IF x \in stack'[d].vars THEN "owned" ELSE "stray"
                       ELSE IF x \in stack[d].vars /\ o = stack[d].val[x]
                            THEN "stray" ELSE ref[o]]
  BY AssignFrame
<1>2. (init = "new" /\ Registers(x)) \in BOOLEAN
  OBVIOUS
<1>3. \A o \in Obj : ref[o] \in Kept => ref'[o] \in Kept
  BY <1>1 DEF Kept
<1>4. ASSUME NEW o \in Obj, x \in stack[d].vars, stack[d].taken, stack[d].val[x] = o
      PROVE  ref'[o] \in Kept \/ w = o
  <2>1. CASE ~Running
    BY <1>1, <1>4, <2>1
  <2>2. CASE Running
    <3>1. init = "new" /\ ref[o] = "owned" /\ ref[v] = "unborn"
      BY <1>1, <1>4, <2>2 DEF IInv, OwnedTracked, Owner
    <3>2. ref'[o] = "stray"
      BY <1>1, <1>4, <2>2, <3>1
    <3> QED
      BY <3>2 DEF Kept
  <2> QED
    BY <2>1, <2>2
<1>5. ASSUME stack[d].taken, w \in Obj
      PROVE  \/ ref'[w] \in Kept \/ x \in stack'[d].vars
             \/ \E k \in DOMAIN stack, z \in Var :
                   k <= d /\ stack[k].taken /\ stack[k].val[z] = w
  <2>1. CASE ~Running
    <3>1. d <= d
      BY Scopes DEF IInv
    <3> QED
      BY <1>1, <1>5, <2>1, <3>1
  <2>2. CASE Running /\ init = "new"
    BY <1>1, <1>5, <2>2 DEF Kept
  <2>3. CASE Running /\ init # "new"
    <3>1. w = v
      BY <1>1, <2>3
    <3>2. /\ init \in Var /\ Visible(init)
          /\ Decl(init) \in DOMAIN stack /\ stack[Decl(init)].taken
          /\ stack[Decl(init)].val[init] = w
      BY <1>1, <1>5, <2>3, <3>1, GivenLasts
    <3>3. Decl(init) <= d
      BY <1>1, <2>3, <3>2 DEF Assign
    <3> QED
      BY <3>2, <3>3
  <2> QED
    BY <2>1, <2>2, <2>3
<1>6. PICK reg \in BOOLEAN : Stored(d, x, w, reg)
  BY <1>1, <1>2
<1>7. \A o \in Obj : x \in stack[d].vars /\ stack[d].taken /\ stack[d].val[x] = o =>
         ref'[o] \in Kept \/ w = o
  BY <1>4
<1>8. stack[d].taken /\ w \in Obj =>
         \/ ref'[w] \in Kept \/ x \in stack'[d].vars
         \/ \E k \in DOMAIN stack, z \in Var :
               k <= d /\ stack[k].taken /\ stack[k].val[z] = w
  BY <1>5
<1> QED
  BY <1>3, <1>6, <1>7, <1>8, StoredKeepsBorrowed

-----------------------------------------------------------------------------
(* Theorems *)

LEMMA NextKeepsBorrowed ==
    ASSUME IInv, Borrowed, [Next]_vars
    PROVE  Borrowed'
<1>1. CASE UNCHANGED vars
  BY <1>1 DEF vars, Borrowed
<1>2. ASSUME NEW kind \in Kind, NEW taken \in BOOLEAN, Enter(kind, taken)
      PROVE  Borrowed'
  <2>1. (Running /\ taken) \in BOOLEAN
    OBVIOUS
  <2> QED
    BY <1>2, <2>1, PushKeepsBorrowed DEF Enter
<1>3. CASE EnterElse
  <2> DEFINE taken == Running /\ after = "if skipped"
  <2>1. taken \in BOOLEAN /\ "else" \in Kind
    BY DEF Kind
  <2>2. /\ InFunction /\ stack' = Append(stack, NewScope("else", taken))
        /\ ref' = ref
    BY <1>3 DEF EnterElse
  <2> HIDE DEF taken
  <2> QED
    BY <2>1, <2>2, PushKeepsBorrowed
<1>4. CASE Block
  BY <1>2, <1>3, <1>4, LeaveKeepsBorrowed DEF Block
<1>5. CASE Statement
  BY <1>5, DeclareKeepsBorrowed, AssignKeepsBorrowed, ManualReleaseKeepsBorrowed,
     BreakOrContinueKeepsBorrowed, ReturnOrThrowKeepsBorrowed DEF Statement
<1> QED
  BY <1>1, <1>4, <1>5 DEF Next

THEOREM BorrowedInvariant == Spec => []Borrowed
<1>1. Init => Borrowed
  <2> SUFFICES ASSUME Init PROVE Borrowed
    OBVIOUS
  <2> DEFINE s == NewScope("block", TRUE)
  <2>1. \A x \in Var : s.val[x] = None
    BY NewScopeType DEF Kind
  <2>2. stack = <<s>>
    BY DEF Init
  <2> HIDE DEF s
  <2>3. \A i \in DOMAIN stack : stack[i] = s
    BY <2>2
  <2> QED
    BY <2>1, <2>3, SentinelsAreNoObjects DEF Borrowed
<1>2. IInv /\ Borrowed /\ [Next]_vars => Borrowed'
  BY NextKeepsBorrowed
<1> QED
  BY <1>1, <1>2, Invariance, PTL DEF Spec

\* A local in scope never points to an object that the pass has released.
THEOREM UseSafety == Spec => []VarsLive
<1>1. IInv /\ Borrowed => VarsLive
  <2> SUFFICES ASSUME IInv, Borrowed, Running, NEW x \in Var, Visible(x), Pointee(x) \in Obj
               PROVE  ref[Pointee(x)] \in Kept \cup {"owned"}
    BY DEF VarsLive, Kept
  <2>1. /\ Decl(x) \in DOMAIN stack /\ stack[Decl(x)].taken
        /\ Pointee(x) = stack[Decl(x)].val[x]
    BY VisibleDecl, RunningTaken
  <2>2. Lasts(stack, ref, Decl(x), Pointee(x))
    BY <2>1 DEF Borrowed
  <2> QED
    BY <2>2, LastsIsOwnedOrKept
<1> QED
  BY <1>1, Invariance, BorrowedInvariant, PTL

LEMMA ReturnStep ==
    ASSUME IInv, Borrowed, NEW form, NEW x \in Var, NEW reads,
           ReadsOnlyOwner(form, x, reads), ReturnOrThrow(form, x, reads)
    PROVE  ReturnsLive'
<1> SUFFICES ASSUME NEW o \in read'
             PROVE  ref'[o] \notin {"released", "again"}
  BY DEF ReturnsLive
<1> DEFINE result == IF form = "var" /\ Running THEN Pointee(x) ELSE None
<1>1. Running /\ InFunction /\ form # "other" /\ o \in Obj /\ o = Pointee(x) /\ Visible(x)
  BY DEF ReturnOrThrow, extract_returned_var, ReadsOnlyOwner
<1>2. LeaveFrom(1, 1, {x}, result)
  BY <1>1 DEF ReturnOrThrow, extract_returned_var
<1> HIDE DEF result
<1>3. Analyzed => Tracked(x)
  BY <1>1, SentinelsAreNoObjects DEF ReadsOnlyOwner
<1>4. 1 \in DOMAIN stack
  BY <1>1, InFunctionDepth DEF IInv
<1>5. /\ Decl(x) \in DOMAIN stack /\ stack[Decl(x)].taken
      /\ o = stack[Decl(x)].val[x]
      /\ Tracked(x) <=> x \in stack[Decl(x)].vars
  BY <1>1, VisibleDecl, RunningTaken
<1>6. ref[o] \in Kept \cup {"owned"}
  <2>1. Lasts(stack, ref, Decl(x), o)
    BY <1>1, <1>5 DEF Borrowed
  <2> QED
    BY <1>1, <2>1, LastsIsOwnedOrKept
<1>7. CASE Analyzed
  <2> DEFINE R == collect_vars(1) \ {x}
  <2>1. R \subseteq collect_vars(1)
    OBVIOUS
  <2>2. ref' = Settled(Released(R), 1, result)
    BY <1>1, <1>2, <1>7 DEF LeaveFrom
  <2>3. x \notin R
    OBVIOUS
  <2> HIDE DEF R
  <2>4. /\ \A y \in R : \E i \in 1 .. Depth :
               y \in stack[i].vars /\ Pointee(y) = stack[i].val[y]
        /\ (\A y \in R : Pointee(y) # o) => Released(R)[o] = ref[o]
    BY ONLY IInv, Borrowed, <1>1, <1>4, <2>1, ReleasedFate
  <2>5. ASSUME NEW y \in R, Pointee(y) = o
        PROVE  FALSE
    <3>1. PICK i \in DOMAIN stack : /\ y \in stack[i].vars /\ stack[i].val[y] = o
                                    /\ stack[i].taken
      BY <1>1, <2>4, <2>5, InFunctionDepth, RunningTaken DEF IInv
    <3>2. x \in stack[Decl(x)].vars
      BY <1>3, <1>5, <1>7
    <3>3. y = x
      BY <1>5, <3>1, <3>2 DEF IInv, OwnedTracked, Owner
    <3> QED
      BY <2>3, <3>3
  <2>6. Released(R)[o] = ref[o]
    BY <2>4, <2>5
  <2> QED
    BY <1>1, <1>6, <2>2, <2>6 DEF Settled, Kept
<1>8. CASE ~Analyzed
  <2>1. ref' = Settled(ref, 1, result)
    BY <1>1, <1>2, <1>8 DEF LeaveFrom
  <2> QED
    BY <1>1, <1>6, <2>1 DEF Settled, Kept
<1> QED
  BY <1>7, <1>8

\* A return or @throw that reads one local only, which owns its object, reads no
\* object that the releases before it have given up.  (One that reads another
\* local, or a local that borrows, may.)
THEOREM ReturnSafety ==
    Spec => [][\A form \in {"var", "receiver", "other"}, x \in Var, reads \in SUBSET Var :
                  ReadsOnlyOwner(form, x, reads) /\ ReturnOrThrow(form, x, reads)
                      => ReturnsLive']_vars
<1> DEFINE Returns ==
        \A form \in {"var", "receiver", "other"}, x \in Var, reads \in SUBSET Var :
            ReadsOnlyOwner(form, x, reads) /\ ReturnOrThrow(form, x, reads) => ReturnsLive'
<1>1. IInv /\ Borrowed => Returns
  BY ReturnStep
<1> HIDE DEF Returns
<1>2. Spec => [][Returns]_vars
  BY <1>1, Invariance, BorrowedInvariant, PTL
<1> QED
  BY <1>2 DEF Returns

\* If every return is such a one, none reads a released object.
THEOREM ReturnInvariance ==
    ASSUME ~ReturnReads
    PROVE  Spec => []ReturnsLive
<1>1. Init => ReturnsLive
  BY DEF Init, ReturnsLive
<1>2. ASSUME IInv, Borrowed, ReturnsLive, [Next]_vars
      PROVE  ReturnsLive'
  <2>1. CASE read' = {}
    BY <2>1 DEF ReturnsLive
  <2>2. CASE UNCHANGED vars
    BY <1>2, <2>2 DEF vars, ReturnsLive
  <2>3. ASSUME NEW form \in {"var", "receiver", "other"}, NEW x \in Var,
               NEW reads \in SUBSET Var, ReturnOrThrow(form, x, reads)
        PROVE  ReturnsLive'
    <3>1. ReadsOnlyOwner(form, x, reads)
      BY <2>3 DEF ReturnOrThrow
    <3> QED
      BY <1>2, <2>3, <3>1, ReturnStep
  <2>4. CASE Block
    BY <2>1, <2>4 DEF Block, Enter, EnterElse, Leave
  <2>5. CASE Statement
    BY <2>1, <2>3, <2>5 DEF Statement, Declare, Assign, ManualRelease, BreakOrContinue
  <2> QED
    BY <1>2, <2>2, <2>4, <2>5 DEF Next
<1> QED
  BY <1>1, <1>2, Invariance, BorrowedInvariant, PTL DEF Spec

=============================================================================
