----------------------------- MODULE MCCompiler -----------------------------
(***************************************************************************)
(* Model checking of Compiler: the properties of its passes.               *)
(***************************************************************************)
EXTENDS Compiler

\* An imported file, under one path or under two, and the main file.
EachPath == [p \in PathName \cup {Main} |-> IF p = Main THEN "main" ELSE "header"]

\* Preprocessor: text is emitted in the branches that the code's conditions take.
ActiveIsReference == Pre!ActiveIsReference
\* Preprocessor: each active directive reaches the C file once.
DirectivesKept == Pre!DirectivesKept
\* Preprocessor: no line of a file known by one path is compiled twice, or out of
\* order.
LinesOnce == Pre!LinesOnce
\* Parser: no loop and no recursion of the parser goes on without a token.
Progress == Par!Progress
\* Parser: recovery in a block skips tokens only after an error.
DropsReported == Par!DropsReported
\* Binder: the elaborator finds the class that the binder meant.
SameClass == Bnd!SameClass
\* Binder: a class has a slot for every method its protocols declare themselves.
ConformersComplete == Bnd!ConformersComplete
\* Binder: a variable declared with one type has it wherever it is used.
DeclaredOnceTyped == Bnd!DeclaredOnceTyped
\* RefcountTrace: the counts of the trace are those of a run, until one of the
\* functions is left early.
TraceIsRun == Trc!TraceIsRun
\* RefcountTrace: an object that such a run never releases is reported.
LeaksReported == Trc!LeaksReported
=============================================================================
