------------------------------ MODULE ArcPass ------------------------------
(***************************************************************************)
(* The ARC pass (src/crates/arc/src/arc.rs, with the rules of              *)
(* src/crates/ownership/src/ownership.rs) against an execution of the      *)
(* function it rewrites.                                                   *)
(*                                                                         *)
(* The pass walks the statements of a function once, in the order of the   *)
(* text, with a stack of scopes, and inserts calls of nupa_release.  The   *)
(* model makes up the program while the pass walks over it: an action is   *)
(* one statement, seen by the pass and, when the path in question goes     *)
(* through it, executed with the releases inserted before it.  A branch or *)
(* loop body may be taken or not; statements after an exit are walked over *)
(* but not executed.                                                       *)
(*                                                                         *)
(* Programs are those whose locals have different names while they are in  *)
(* scope, that do not overwrite an owning local by another pointer, and    *)
(* that point to the object of an inner local only from that scope or one  *)
(* inside it.  A loop body is executed at most once, and every @throw      *)
(* leaves the function.                                                    *)
(***************************************************************************)
EXTENDS Integers, Sequences

CONSTANTS
    Var,          \* names of local object pointers
    Obj,          \* objects an alloc, new or copy expression can yield
    Null,         \* nil, or a pointer to an object that no local owns
    None,         \* value of a name that is not declared in a scope
    ReturnReads,  \* may a returned expression read more than ReadsOnlyOwner?
    MaxDepth      \* bound: nesting of scopes

ASSUME SentinelsAreNoObjects == Null \notin Obj /\ None \notin Obj \cup {Null}
ASSUME NamesAreNoInitialisers == Var \cap {"new", "other"} = {}
ASSUME ReturnReadsIsBoolean == ReturnReads \in BOOLEAN
ASSUME MaxDepthIsNat == MaxDepth \in Nat

VARIABLES
    stack,   \* the scopes of the pass, each with the C variables of its block
    after,   \* what an else at this point belongs to
    ref,     \* what became of the reference that created each object
    read     \* objects read by a return or throw, after the inserted releases

vars == <<stack, after, ref, read>>

Value == Obj \cup {Null, None}

\* "noarc" is an @noarc block, "switch" the body of a switch or do statement:
\* the pass does not look into these.  "block" is also @autoreleasepool and
\* @synchronized.  "taken" says that the execution is in the block.
Kind == {"block", "then", "else", "loop", "noarc", "switch"}
Scope == [kind : Kind, vars : SUBSET Var, declared : SUBSET Var,
          val : [Var -> Value], taken : BOOLEAN]

\* "owned": still to be released;  "released": by the pass;  "gone": by the
\* program itself;  "passed": to the caller;  "again": released twice;
\* "leaked": the pass forgot its variable at an exit that this path does not
\* take;  "stray": nothing releases it for another reason (it was overwritten,
\* created or left where the pass does not look, or left to the program's own
\* release).
Fate == {"unborn", "owned", "released", "gone", "passed", "leaked", "stray", "again"}

TypeOK ==
    /\ stack \in Seq(Scope)
    /\ after \in {"none", "if taken", "if skipped"}
    /\ ref \in [Obj -> Fate]
    /\ read \subseteq Obj
    /\ \A i \in DOMAIN stack : \A x \in stack[i].vars \cup stack[i].declared :
          stack[i].val[x] # None

NewScope(kind, taken) ==
    [kind |-> kind, vars |-> {}, declared |-> {},
     val |-> [x \in Var |-> None], taken |-> taken]

Init ==
    /\ stack = <<NewScope("block", TRUE)>>
    /\ after = "none"
    /\ ref = [o \in Obj |-> "unborn"]
    /\ read = {}

-----------------------------------------------------------------------------
Depth == Len(stack)
Top == stack[Depth]
InFunction == stack # <<>>
Running == InFunction /\ Top.taken
Analyzed == \A i \in DOMAIN stack : stack[i].kind \notin {"noarc", "switch"}

\* C scoping: the innermost declaration of a name.
Declares(i, x) == i \in DOMAIN stack /\ stack[i].val[x] # None
Visible(x) == \E i \in DOMAIN stack : Declares(i, x)
Decl(x) == CHOOSE i \in DOMAIN stack :
               Declares(i, x) /\ \A j \in DOMAIN stack : Declares(j, x) => j <= i
Pointee(x) == IF Visible(x) THEN stack[Decl(x)].val[x] ELSE Null
Tracked(x) == Visible(x) /\ x \in stack[Decl(x)].vars

collect_vars(from) == UNION {stack[i].vars : i \in from .. Depth}

\* nupa_release(x) for every x of R.
Released(R) ==
    [o \in Obj |->
        IF \A x \in R : Pointee(x) # o THEN ref[o]
        ELSE IF ref[o] = "owned" /\ \A x, y \in R :
                    Pointee(x) = o /\ Pointee(y) = o => x = y
             THEN "released" ELSE "again"]

\* Objects that tracked variables of the running scopes from t on own.
OwnedFrom(t) ==
    {o \in Obj : \E i \in t .. Depth : stack[i].taken /\
                     \E x \in stack[i].vars : stack[i].val[x] = o}

\* The pass has dropped, or the path has left, the variables from t on: what
\* they still own is given to the caller or lost.
Settled(r, t, result) ==
    [o \in Obj |-> IF o \in OwnedFrom(t) /\ r[o] = "owned"
                   THEN IF o = result THEN "passed"
                        ELSE IF Running THEN "stray" ELSE "leaked"
                   ELSE r[o]]

-----------------------------------------------------------------------------
(* Blocks.  A name with an underscore and a suffix is a faulty variant of   *)
(* the definition after it: the runs show that a property notices the fault. *)

Enter(kind, taken) ==
    /\ InFunction /\ Depth < MaxDepth
    /\ kind \in {"block", "noarc"} => taken
    /\ stack' = Append(stack, NewScope(kind, Running /\ taken))
    /\ after' = "none" /\ read' = {}
    /\ UNCHANGED ref

EnterElse ==
    /\ InFunction /\ after # "none" /\ Depth < MaxDepth
    /\ stack' = Append(stack, NewScope("else", Running /\ after = "if skipped"))
    /\ after' = "none" /\ read' = {}
    /\ UNCHANGED ref

Leave_ReleasesNothing ==
    /\ InFunction
    /\ stack' = SubSeq(stack, 1, Depth - 1)
    /\ after' = "none" /\ read' = {}
    /\ UNCHANGED ref

Leave_ReleasesParents ==
    /\ InFunction
    /\ ref' = IF Running THEN Released(collect_vars(1)) ELSE ref
    /\ stack' = SubSeq(stack, 1, Depth - 1)
    /\ after' = "none" /\ read' = {}

\* End of scope: the scope's own remaining variables are released.
Leave ==
    /\ InFunction
    /\ ref' = IF Running THEN Released(Top.vars) ELSE ref
    /\ stack' = SubSeq(stack, 1, Depth - 1)
    /\ after' = IF Top.kind # "then" THEN "none"
                ELSE IF Top.taken THEN "if taken" ELSE "if skipped"
    /\ read' = {}

-----------------------------------------------------------------------------
(* Declarations and assignments.  An initialiser is "new" (ownership        *)
(* Retained), "other" (an object the local does not own, or nil), or the    *)
(* name of another local.                                                   *)

Fresh(o) == ref[o] = "unborn"

\* The value and the fate of the objects when x is given the value of init.
Gives(init, v) ==
    \/ ~Running /\ v = Null
    \/ Running /\ init = "new" /\ v \in Obj /\ Fresh(v)
    \/ Running /\ init = "other" /\ v = Null
    \/ Running /\ init \in Var /\ Visible(init) /\ v = Pointee(init)

\* A local declared in a statement (ownership_for_expr decides "new"), or in
\* the header of a for loop: then the pass tracks it without declaring it.
Declare(x, init, inFor) ==
    /\ InFunction /\ ~Visible(x)
    /\ inFor => init = "new"
    /\ \E v \in Value :
        /\ Gives(init, v)
        /\ stack' = [stack EXCEPT
              ![Depth].vars = IF Analyzed /\ init = "new" THEN @ \cup {x} ELSE @,
              ![Depth].declared = IF Analyzed /\ ~inFor THEN @ \cup {x} ELSE @,
              ![Depth].val[x] = v]
        /\ ref' = IF Running /\ init = "new"
                  THEN [ref EXCEPT ![v] = IF Analyzed THEN "owned" ELSE "stray"]
                  ELSE ref
    /\ after' = "none" /\ read' = {}

Registers_Anywhere(x) == Analyzed /\ Visible(x)

\* t = [[T alloc] init] after a bare T *t; of the same scope.
Registers(x) == Analyzed /\ x \in Top.declared

Assign(x, init) ==
    /\ InFunction /\ Visible(x)
    /\ Running /\ init # "new" => ~Tracked(x)
    /\ Running /\ init \in Var /\ Visible(init) => Decl(init) <= Decl(x)
    /\ \E v \in Value :
        /\ Gives(init, v)
        /\ LET registers == init = "new" /\ Registers(x)
               old == Pointee(x)
           IN  /\ stack' = [stack EXCEPT
                     ![Decl(x)].val[x] = IF Running THEN v ELSE @,
                     ![Depth].vars = IF registers THEN @ \cup {x} ELSE @]
               /\ ref' = IF ~Running \/ init # "new" THEN ref
                         ELSE [o \in Obj |->
                             IF o = v THEN IF registers \/ Tracked(x)
                                           THEN "owned" ELSE "stray"
                             ELSE IF o = old /\ Tracked(x) THEN "stray"
                             ELSE ref[o]]
    /\ after' = "none" /\ read' = {}

\* [x release] or nupa_release(x) by the program: x is forgotten everywhere.
ManualRelease(x) ==
    /\ InFunction /\ Analyzed /\ Visible(x)
    /\ Running => Tracked(x)
    /\ stack' = [i \in DOMAIN stack |-> [stack[i] EXCEPT !.vars = @ \ {x}]]
    /\ ref' = IF ~Tracked(x) \/ ~stack[Decl(x)].taken THEN ref
              ELSE [ref EXCEPT ![Pointee(x)] = IF Running THEN "gone" ELSE "stray"]
    /\ after' = "none" /\ read' = {}

-----------------------------------------------------------------------------
(* Exits.  The pass releases the variables of the scopes that the statement *)
(* leaves, before the statement, and then forgets them, whether or not the  *)
(* path executes the statement.                                             *)

\* The path leaves the scopes from t on; the pass thinks those from "from" on.
LeaveFrom(t, from, kept, result) ==
    /\ stack' = [i \in DOMAIN stack |-> [stack[i] EXCEPT
          !.vars = IF Analyzed /\ i >= from THEN {} ELSE @,
          !.taken = @ /\ ~(Running /\ i >= t)]]
    /\ ref' = IF ~Analyzed /\ ~Running THEN ref
              ELSE Settled(IF Analyzed /\ Running
                           THEN Released(collect_vars(from) \ kept) ELSE ref,
                           IF Analyzed THEN from ELSE t, result)
    /\ after' = "none"

\* The scope a break or continue leaves.  (A "switch" may be a switch, which
\* continue does not leave, or a do.)
Loop(t) ==
    /\ t \in DOMAIN stack
    /\ stack[t].kind \in {"loop", "switch"}
    /\ \A i \in t + 1 .. Depth : stack[i].kind # "loop"

NearestLoop_Function == 1

\* The nearest scope with inside_loop, or the function.
NearestLoop ==
    CHOOSE n \in 1 .. Depth :
        /\ stack[n].kind = "loop" \/ n = 1
        /\ \A i \in n + 1 .. Depth : stack[i].kind # "loop"

BreakOrContinue(t) ==
    /\ Loop(t)
    /\ LeaveFrom(t, NearestLoop, {}, None)
    /\ read' = {}

extract_returned_var_None(form, x) == {}

\* The variable of return x or return [x m]; nothing in other expressions.
extract_returned_var(form, x) == IF form = "other" THEN {} ELSE {x}

\* The expression reads the variable that it names, or sends the message to, and
\* no other local; and this variable owns its object, or is nil.  (It does not own
\* it after T *b = a;: then the pass releases a before return b;.)
ReadsOnlyOwner(form, x, reads) ==
    /\ reads = {}
    /\ form # "other" /\ Running /\ Analyzed => Tracked(x) \/ Pointee(x) = Null

\* return and @throw: of a variable, of a message to one, of something else.
\* The expression also reads the variables in "reads".
ReturnOrThrow(form, x, reads) ==
    /\ InFunction
    /\ form # "other" => Visible(x)
    /\ reads \subseteq {y \in Var : Visible(y)}
    /\ LET kept == extract_returned_var(form, x)
           root == IF form = "other" THEN {} ELSE {x}
           seen == {o \in Obj : ref[o] # "gone" /\ \E y \in root \cup reads : Pointee(y) = o}
       IN  /\ ReturnReads \/ ReadsOnlyOwner(form, x, reads)
           /\ LeaveFrom(1, 1, kept, IF form = "var" /\ Running THEN Pointee(x) ELSE None)
           /\ read' = IF Running THEN seen ELSE {}

-----------------------------------------------------------------------------
Block ==
    \/ \E kind \in Kind \ {"else"}, taken \in BOOLEAN : Enter(kind, taken)
    \/ EnterElse
    \/ Leave

Statement ==
    \/ \E x \in Var, init \in {"new", "other"} \cup Var, inFor \in BOOLEAN :
          Declare(x, init, inFor)
    \/ \E x \in Var, init \in {"new", "other"} \cup Var : Assign(x, init)
    \/ \E x \in Var : ManualRelease(x)
    \/ \E t \in 1 .. MaxDepth : BreakOrContinue(t)
    \/ \E form \in {"var", "receiver", "other"}, x \in Var, reads \in SUBSET Var :
          ReturnOrThrow(form, x, reads)

Next == Block \/ Statement
Spec == Init /\ [][Next]_vars

-----------------------------------------------------------------------------
(* Properties *)

\* No path releases an object more than once, whatever branches, loops and
\* exits the pass has walked over before.  (All insertions of arc.rs.)
ReleasedOnce == \A o \in Obj : ref[o] # "again"

\* x of scope i is a variable the pass still has to release on this path.
Owner(i, x) == i \in DOMAIN stack /\ stack[i].taken /\ x \in stack[i].vars

\* What the pass has still to release and what the path still owns are the
\* same: each object still to be released has a variable that some insertion
\* will release, each such variable points to an object to be released, and no
\* two of them to the same.  After the return nothing is left to release.
OwnedTracked ==
    /\ \A o \in Obj : ref[o] = "owned" =>
          \E i \in DOMAIN stack : \E x \in stack[i].vars :
             Owner(i, x) /\ stack[i].val[x] = o
    /\ \A i \in DOMAIN stack : \A x \in stack[i].vars :
          Owner(i, x) => stack[i].val[x] \in Obj /\ ref[stack[i].val[x]] = "owned"
    /\ \A i, j \in DOMAIN stack : \A x \in stack[i].vars, y \in stack[j].vars :
          /\ Owner(i, x) /\ Owner(j, y)
          /\ stack[i].val[x] = stack[j].val[y]
          => i = j /\ x = y

\* While a local is in scope the pass does not release the object it points
\* to, whether the local owns it or borrows it from another local.
VarsLive ==
    Running => \A x \in Var : Visible(x) /\ Pointee(x) \in Obj =>
                  ref[Pointee(x)] \in {"owned", "leaked", "stray", "gone"}

\* The value a return or throw computes comes from objects that the releases
\* inserted before the statement have left alone.  (Where ReturnReads is FALSE,
\* of expressions that read only a local that owns its object: an expression that
\* reads another local, and return b; of a local that borrows, do read a released
\* object.)
ReturnsLive == \A o \in read : ref[o] \notin {"released", "again"}

\* The pass loses no reference on any path: when the function has returned,
\* every object was released or given to the caller.  README.md:327 says that
\* the compiler determines each reference's lifetime by dataflow analysis.
NoLeak == stack = <<>> => \A o \in Obj : ref[o] # "leaked"

=============================================================================
