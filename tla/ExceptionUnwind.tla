-------------------------- MODULE ExceptionUnwind --------------------------
(***************************************************************************)
(* The C code that src/crates/codegen/src/codegen.rs emits for @try,       *)
(* @catch, @finally and @throw, running: one jump buffer                   *)
(* (__nupa_exception_buf), saved by every @try in a local and written back *)
(* after the clauses; a state number; shadows of the objects that the body *)
(* owns, which ARC (src/crates/arc/src/arc.rs) releases as well.           *)
(*                                                                         *)
(* The program is any: it calls, throws, enters @try statements and leaves *)
(* them as it likes.  A jump buffer is the position of the frame whose     *)
(* setjmp filled it; a buffer whose frame is gone is Dangling.             *)
(***************************************************************************)
EXTENDS Naturals, Sequences, FiniteSets

CONSTANTS
    Class,          \* classes of exception objects
    Nil,            \* __nupa_exception_value is NULL
    AnyType,            \* a clause for id, or for a type that is no class
    NoBuf,          \* a jump buffer that was never filled
    Dangling,       \* a jump buffer of a frame that is gone
    Catches,        \* the lists of clauses that @try statements have
    ReturnsInTry,   \* may a return leave @try blocks?
    MaxDepth,       \* bound: open calls and @try statements
    MaxLocals,      \* bound: open @try statements whose body owns an object
    MaxReleases     \* bound: releases of one object by ARC

ASSUME SentinelsDiffer == Nil \notin Class /\ AnyType \notin Class /\ AnyType # Nil
ASSUME BufsDiffer == NoBuf \notin Nat /\ Dangling \notin Nat /\ NoBuf # Dangling
ASSUME CatchesAreClauses == Catches \subseteq Seq(Class \cup {AnyType})
ASSUME ReturnsInTryIsBoolean == ReturnsInTry \in BOOLEAN
ASSUME BoundsAreNat ==
    MaxDepth \in Nat /\ MaxLocals \in Nat /\ MaxReleases \in Nat \ {0}

VARIABLES
    stack,   \* open calls and @try statements, outermost first
    buf,     \* __nupa_exception_buf
    value,   \* __nupa_exception_value
    dead     \* a jump through NoBuf or Dangling, or a class read through NULL

vars == <<stack, buf, value, dead>>

\* Where a frame is: a "call" of a function, or a @try statement in its "body",
\* testing clause arm ("test"), in the handler of a clause, in its @finally
\* block, before the release of the shadows ("drop") or after it ("end").
Place == {"call", "body", "test", "handler", "finally", "drop", "end"}

\* local: an object that the body owns through a local ("none": no object).
\* Its shadow is "set" to it or "lost", NULL: a declaration of several variables
\* mirrors only its last, and the shadow is a plain pointer (to volatile) that
\* changed after setjmp, so a compiler may bring its old value back.
\* tracked: ARC's pass, which goes through the text once, counts the local
\* among those to release, where the program now is in the text.
\* byArc, byShadow: how often the object was released, and by whom.
\* What ARC tracks is an object that it has not released, and it releases no other.
Frame == {f \in [at : Place, saved : Nat \cup {NoBuf, Dangling}, state : 0 .. 2,
                 catches : Catches \cup {<<>>}, arm : Nat \ {0}, finally : BOOLEAN,
                 local : {"none", "set", "lost"}, tracked : BOOLEAN,
                 byArc : 0 .. MaxReleases, byShadow : 0 .. 1] :
              /\ f.tracked => f.local # "none" /\ f.byArc = 0
              /\ f.byArc > 0 => f.local # "none"}

TypeOK ==
    /\ stack \in Seq(Frame)
    /\ buf \in Nat \cup {NoBuf, Dangling}
    /\ value \in Class \cup {Nil}
    /\ dead \in BOOLEAN

NewFrame(at, catches, finally) ==
    [at |-> at, saved |-> buf, state |-> 0, catches |-> catches, arm |-> 1,
     finally |-> finally, local |-> "none", tracked |-> FALSE,
     byArc |-> 0, byShadow |-> 0]

Init ==
    /\ stack = <<>>
    /\ buf = NoBuf
    /\ value = Nil
    /\ dead = FALSE

-----------------------------------------------------------------------------
Depth == Len(stack)
Top == stack[Depth]
SetTop(frame) == stack' = [stack EXCEPT ![Depth] = frame]
TopIs(place) == ~dead /\ stack # <<>> /\ Top.at = place

ProgramRuns ==
    ~dead /\ (stack # <<>> => Top.at \in {"call", "body", "handler", "finally"})

\* The statement or call at i belongs to the function that is running.
InFunction(i) == \A j \in i + 1 .. Depth : stack[j].at # "call"

\* A frame whose setjmp returns once more.
Landed(frame, shadow) ==
    [frame EXCEPT !.state = 1, !.at = "test", !.arm = 1, !.local = shadow]

\* longjmp(__nupa_exception_buf, 1), with the frames s.
Longjmp(s) ==
    IF buf \in DOMAIN s
    THEN /\ \E shadow \in {s[buf].local} \cup (IF s[buf].local = "none" THEN {} ELSE {"lost"}) :
               stack' = Append(SubSeq(s, 1, buf - 1), Landed(s[buf], shadow))
         /\ UNCHANGED <<buf, dead>>
    ELSE dead' = TRUE /\ UNCHANGED <<stack, buf>>

-----------------------------------------------------------------------------
(* Steps of the program.                                                     *)

Call ==
    /\ ProgramRuns /\ Depth < MaxDepth
    /\ stack' = Append(stack, NewFrame("call", <<>>, FALSE))
    /\ UNCHANGED <<buf, value, dead>>

\* A return pops the innermost call, with the @try statements of its function.
\* It does not restore the buffer.
Return ==
    /\ ProgramRuns
    /\ \E i \in DOMAIN stack :
          /\ stack[i].at = "call" /\ InFunction(i)
          /\ i = Depth \/ ReturnsInTry
          /\ stack' = SubSeq(stack, 1, i - 1)
          /\ buf' = IF buf \in i .. Depth THEN Dangling ELSE buf
    /\ UNCHANGED <<value, dead>>

\* Save the buffer, clear the state, setjmp.
EnterTry_NotSaved(catches, finally) ==
    /\ ProgramRuns /\ Depth < MaxDepth
    /\ stack' = Append(stack, [NewFrame("body", catches, finally) EXCEPT !.saved = NoBuf])
    /\ buf' = Depth + 1
    /\ UNCHANGED <<value, dead>>

EnterTry(catches, finally) ==
    /\ ProgramRuns /\ Depth < MaxDepth
    /\ stack' = Append(stack, NewFrame("body", catches, finally))
    /\ buf' = Depth + 1
    /\ UNCHANGED <<value, dead>>

\* T *x = [[T alloc] init]; in the body, and the assignment to its shadow, unless
\* another variable is declared after x.
DeclareLocal ==
    /\ TopIs("body") /\ Top.local = "none"
    /\ Cardinality({i \in DOMAIN stack : stack[i].local # "none"}) < MaxLocals
    /\ \E shadow \in {"set", "lost"} : SetTop([Top EXCEPT !.local = shadow, !.tracked = TRUE])
    /\ UNCHANGED <<buf, value, dead>>

\* The statements whose body, in the function that runs, owns an object.
Owning == {i \in DOMAIN stack :
              stack[i].at = "body" /\ stack[i].local # "none" /\ InFunction(i)}

\* What ARC inserts before a @throw releases the locals it tracks, except the
\* one that is thrown, and the pass forgets them all.  A @throw in a loop
\* releases them at every turn; one after an untaken @throw, none.
Releasable == {i \in Owning : stack[i].byArc < MaxReleases}

ReleasedByThrow(released) ==
    [i \in DOMAIN stack |->
        [stack[i] EXCEPT !.byArc = IF i \in released THEN @ + 1 ELSE @,
                         !.tracked = @ /\ i \notin Owning]]

\* @throw e;
Throw(e, released) ==
    /\ ProgramRuns
    /\ released \subseteq Releasable
    /\ value' = e
    /\ Longjmp(ReleasedByThrow(released))

\* @throw;  which throws the last exception again.
Rethrow(released) ==
    /\ ProgramRuns
    /\ released \subseteq Releasable
    /\ Longjmp(ReleasedByThrow(released))
    /\ UNCHANGED value

\* The end of the body, where ARC releases the local if its pass still tracks
\* it there: a @throw before, taken or not, made the pass forget it.
BodyEnd_NotForgotten ==
    /\ TopIs("body")
    /\ SetTop([Top EXCEPT !.at = "test", !.tracked = FALSE,
                          !.byArc = IF Top.local = "none" THEN @ ELSE @ + 1])
    /\ UNCHANGED <<buf, value, dead>>

BodyEnd ==
    /\ TopIs("body")
    /\ \E times \in (IF Top.tracked THEN {0, 1} ELSE {0}) :
          SetTop([Top EXCEPT !.at = "test", !.tracked = FALSE, !.byArc = @ + times])
    /\ UNCHANGED <<buf, value, dead>>

\* The end of a handler, or of the @finally block.
HandlerEnd ==
    /\ TopIs("handler")
    /\ SetTop([Top EXCEPT !.at = "test", !.arm = @ + 1])
    /\ UNCHANGED <<buf, value, dead>>

FinallyEnd ==
    /\ TopIs("finally")
    /\ SetTop([Top EXCEPT !.at = "drop"])
    /\ UNCHANGED <<buf, value, dead>>

-----------------------------------------------------------------------------
(* Steps of the emitted code.  A name with an underscore and a suffix is a   *)
(* faulty variant of the definition after it.                                *)

TestsClause == TopIs("test") /\ Top.arm \in DOMAIN Top.catches
Clause == Top.catches[Top.arm]

\* if (__nupa_state == 1) if (value->isa == &class) { __nupa_state = 2; ... }
CatchClause_StateKept ==
    /\ TestsClause
    /\ IF Top.state = 1 /\ Clause # AnyType /\ value = Nil
       THEN dead' = TRUE /\ UNCHANGED stack
       ELSE /\ SetTop(IF Top.state = 1 /\ Clause \in {AnyType, value}
                      THEN [Top EXCEPT !.at = "handler"]
                      ELSE [Top EXCEPT !.arm = @ + 1])
            /\ UNCHANGED dead
    /\ UNCHANGED <<buf, value>>

CatchClause ==
    /\ TestsClause
    /\ IF Top.state = 1 /\ Clause # AnyType /\ value = Nil
       THEN dead' = TRUE /\ UNCHANGED stack
       ELSE /\ SetTop(IF Top.state = 1 /\ Clause \in {AnyType, value}
                      THEN [Top EXCEPT !.state = 2, !.at = "handler"]
                      ELSE [Top EXCEPT !.arm = @ + 1])
            /\ UNCHANGED dead
    /\ UNCHANGED <<buf, value>>

\* memcpy(__nupa_exception_buf, __nupa_saved, sizeof(jmp_buf)), then @finally.
Restore_Forgotten ==
    /\ TopIs("test") /\ Top.arm \notin DOMAIN Top.catches
    /\ SetTop([Top EXCEPT !.at = IF Top.finally THEN "finally" ELSE "drop"])
    /\ UNCHANGED <<buf, value, dead>>

Restore_CaughtOnly ==
    /\ TopIs("test") /\ Top.arm \notin DOMAIN Top.catches
    /\ buf' = IF Top.state = 1 THEN buf ELSE Top.saved
    /\ SetTop([Top EXCEPT !.at = IF Top.finally THEN "finally" ELSE "drop"])
    /\ UNCHANGED <<value, dead>>

Restore ==
    /\ TopIs("test") /\ Top.arm \notin DOMAIN Top.catches
    /\ buf' = Top.saved
    /\ SetTop([Top EXCEPT !.at = IF Top.finally THEN "finally" ELSE "drop"])
    /\ UNCHANGED <<value, dead>>

\* if (shadow) nupa_release(shadow);
ReleaseShadow_RethrowOnly ==
    /\ TopIs("drop")
    /\ SetTop([Top EXCEPT !.at = "end",
                          !.byShadow = IF Top.local = "set" /\ Top.state = 1 THEN 1 ELSE 0])
    /\ UNCHANGED <<buf, value, dead>>

ReleaseShadow ==
    /\ TopIs("drop")
    /\ SetTop([Top EXCEPT !.at = "end", !.byShadow = IF Top.local = "set" THEN 1 ELSE 0])
    /\ UNCHANGED <<buf, value, dead>>

\* if (__nupa_state == 1) longjmp(__nupa_exception_buf, 1);
LeaveTry ==
    /\ TopIs("end")
    /\ IF Top.state = 1 THEN Longjmp(stack)
       ELSE stack' = SubSeq(stack, 1, Depth - 1) /\ UNCHANGED <<buf, dead>>
    /\ UNCHANGED value

-----------------------------------------------------------------------------
Program ==
    \/ Call \/ Return \/ DeclareLocal
    \/ \E catches \in Catches, finally \in BOOLEAN : EnterTry(catches, finally)
    \/ \E released \in SUBSET Releasable :
          (\E e \in Class \cup {Nil} : Throw(e, released)) \/ Rethrow(released)
    \/ BodyEnd \/ HandlerEnd \/ FinallyEnd

Emitted == CatchClause \/ Restore \/ ReleaseShadow \/ LeaveTry

Next == Program \/ Emitted

\* The end of the block that is open at depth d.
BlockEnd(d) == Depth = d /\ (BodyEnd \/ HandlerEnd \/ FinallyEnd \/ Return)

Spec == Init /\ [][Next]_vars

\* The thread runs the emitted code to its end, and a program that comes back
\* to the same block again and again leaves it at some time.
FairSpec ==
    /\ Spec
    /\ WF_vars(Emitted)
    /\ \A d \in 1 .. MaxDepth : SF_vars(BlockEnd(d))

-----------------------------------------------------------------------------
(* Properties.                                                               *)

Guarded(i) == stack[i].at \in {"body", "test", "handler"}

\* b is the buffer of the innermost guarded statement below position n.
IsInnermost(b, n) ==
    IF \E i \in 1 .. n - 1 : Guarded(i)
    THEN b \in 1 .. n - 1 /\ Guarded(b) /\ \A i \in b + 1 .. n - 1 : ~Guarded(i)
    ELSE b = NoBuf

\* Safety.  The one jump buffer always describes the innermost @try statement
\* whose body, clauses or handler run, and the copy each such statement saved
\* describes the next one outwards: whatever calls, throws, handlers that throw
\* and nested statements have gone before, no longjmp enters a frame that is gone.
BufIsInnermost ==
    /\ IsInnermost(buf, Depth + 1)
    /\ \A i \in DOMAIN stack : Guarded(i) => IsInnermost(stack[i].saved, i)

\* Action property.  Whenever the @try statements that an exception crosses
\* are left, by however many throws, calls and handlers, no object that one of
\* their bodies owns is forgotten: ARC's release before a throw or at the end of
\* the body, or the release of the shadow, has given it up.  Excluded are a
\* statement whose @finally block throws, which jumps over the shadows, and a
\* lost shadow.  (An object that a called function owns outside of any @try body
\* has no shadow, and leaks; a return releases what the statements it leaves own,
\* which is the order of ArcPass.)
ReleasedWhenLeft ==
    [][\A i \in DOMAIN stack \ DOMAIN stack' :
          stack[i].local = "set" /\ stack[i].at # "finally"
              => Return \/ stack[i].byArc + stack[i].byShadow > 0]_vars

\* Action property.  No exception skips a @finally block or enters one a second
\* time: the statements that an exception crosses, from any depth of calls or
\* from their own handlers, are left only after their blocks have begun.  It
\* holds even if returns left @try statements, and so left a buffer dangling.
FinallyOutlivesThrows ==
    [][\A i \in DOMAIN stack :
          /\ i \notin DOMAIN stack'
                => Return \/ stack[i].at \in {"call", "finally", "end"}
          /\ i \in DOMAIN stack' /\ stack[i].at \in {"finally", "drop", "end"}
                => stack'[i].at \in {"finally", "drop", "end"}]_vars

\* Liveness.  An exception in flight does not stay in flight: a clause catches
\* it, another exception replaces it, or the program ends.
InFlight == \E i \in DOMAIN stack : stack[i].state = 1
Handled == InFlight ~> (~InFlight \/ dead)

\* The comment in the code generator: normal path and unwind path are mutually
\* exclusive, so no double-release.
NoDoubleRelease ==
    \A i \in DOMAIN stack : stack[i].byArc + stack[i].byShadow <= 1

\* The emitted code implements the meaning of the statements.
BlockOf(frame) ==
    [part |-> IF frame.at = "test" THEN IF frame.state = 1 THEN "search" ELSE "closing"
              ELSE IF frame.at = "drop" THEN "end" ELSE frame.at,
     catches |-> frame.catches,
     finally |-> frame.finally,
     pending |-> frame.at \in {"finally", "drop", "end"} /\ frame.state = 1]
BlocksOf(frames) == [i \in DOMAIN frames |-> BlockOf(frames[i])]
Meaning == INSTANCE StructuredExceptions WITH
    blocks <- BlocksOf(stack),
    exception <- value
ImplementsMeaning == Meaning!Spec
=============================================================================
