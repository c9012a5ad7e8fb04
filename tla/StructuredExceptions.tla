------------------------ MODULE StructuredExceptions ------------------------
(***************************************************************************)
(* What @try, @catch, @finally and @throw mean in nupa-lang, with no jump  *)
(* buffer, no saved copy of one and no state number: an exception goes to  *)
(* the innermost @try statement whose body or handler is running; the      *)
(* first clause that accepts it handles it; otherwise the statement runs   *)
(* its @finally block and passes the exception on.  An exception that no   *)
(* statement receives ends the program.                                    *)
(***************************************************************************)
EXTENDS Naturals, Sequences

CONSTANTS
    Class,       \* classes of exception objects
    Nil,         \* @throw nil
    AnyType,         \* a clause for id, or for a type that is no class
    Catches      \* the lists of clauses that @try statements have

VARIABLES
    blocks,      \* the open function calls and @try statements, outermost first
    exception,   \* the last exception thrown
    dead         \* the program has ended with an error

vars == <<blocks, exception, dead>>

Depth == Len(blocks)
Top == blocks[Depth]

Begin == /\ blocks = <<>>
         /\ exception = Nil
         /\ dead = FALSE

\* The program's own code runs: outside of any block, in a called function, or
\* in one of the blocks of a @try statement.
ProgramRuns ==
    ~dead /\ (blocks # <<>> => Top.part \in {"call", "body", "handler", "finally"})

Block(part, catches, finally) ==
    [part |-> part, catches |-> catches, finally |-> finally, pending |-> FALSE]

SetTop(block) == blocks' = [blocks EXCEPT ![Depth] = block]
Set(part) == SetTop([Top EXCEPT !.part = part])

Call ==
    /\ ProgramRuns
    /\ blocks' = Append(blocks, Block("call", <<>>, FALSE))
    /\ UNCHANGED <<exception, dead>>

Return ==
    /\ ProgramRuns /\ blocks # <<>> /\ Top.part = "call"
    /\ blocks' = SubSeq(blocks, 1, Depth - 1)
    /\ UNCHANGED <<exception, dead>>

Try ==
    /\ ProgramRuns
    /\ \E catches \in Catches, finally \in BOOLEAN :
          blocks' = Append(blocks, Block("body", catches, finally))
    /\ UNCHANGED <<exception, dead>>

\* The innermost statement that receives an exception thrown now.
Receives(i) ==
    /\ i \in DOMAIN blocks /\ blocks[i].part \in {"body", "handler"}
    /\ \A j \in DOMAIN blocks : blocks[j].part \in {"body", "handler"} => j <= i

Unwind ==
    \/ \E i \in DOMAIN blocks :
          /\ Receives(i)
          /\ blocks' = Append(SubSeq(blocks, 1, i - 1), [blocks[i] EXCEPT !.part = "search"])
          /\ UNCHANGED dead
    \/ /\ \A i \in DOMAIN blocks : ~Receives(i)
       /\ dead' = TRUE
       /\ UNCHANGED blocks

\* Of a new exception, or of the last one again.
Throw ==
    /\ ProgramRuns
    /\ exception' \in Class \cup {Nil}
    /\ Unwind

\* A clause for a class looks at the class of the exception, which nil has not.
StopsAt(c) == c \in {AnyType, exception} \/ exception = Nil

Catch ==
    /\ ~dead /\ blocks # <<>> /\ Top.part = "search"
    /\ \E i \in DOMAIN Top.catches :
          /\ StopsAt(Top.catches[i])
          /\ \A j \in 1 .. i - 1 : ~StopsAt(Top.catches[j])
          /\ IF Top.catches[i] \in {AnyType, exception}
             THEN Set("handler") /\ UNCHANGED dead
             ELSE dead' = TRUE /\ UNCHANGED blocks
    /\ UNCHANGED exception

\* Leaving the body or the handler, or finding no clause.
BlockEnds ==
    /\ ProgramRuns /\ blocks # <<>> /\ Top.part \in {"body", "handler"}
    /\ Set("closing")
    /\ UNCHANGED <<exception, dead>>

ToFinally ==
    /\ ~dead /\ blocks # <<>>
    /\ \/ Top.part = "closing"
       \/ Top.part = "search" /\ \A i \in DOMAIN Top.catches : ~StopsAt(Top.catches[i])
    /\ SetTop([Top EXCEPT !.part = IF Top.finally THEN "finally" ELSE "end",
                          !.pending = (Top.part = "search")])
    /\ UNCHANGED <<exception, dead>>

FinallyEnds ==
    /\ ProgramRuns /\ blocks # <<>> /\ Top.part = "finally"
    /\ Set("end")
    /\ UNCHANGED <<exception, dead>>

TryEnds ==
    /\ ~dead /\ blocks # <<>> /\ Top.part = "end"
    /\ IF Top.pending THEN Unwind
       ELSE blocks' = SubSeq(blocks, 1, Depth - 1) /\ UNCHANGED dead
    /\ UNCHANGED exception

Next == \/ Call \/ Return \/ Try \/ Throw \/ Catch
        \/ BlockEnds \/ ToFinally \/ FinallyEnds \/ TryEnds

Spec == Begin /\ [][Next]_vars
=============================================================================
