--------------------------- MODULE CompilerProofs ---------------------------
(***************************************************************************)
(* Proofs about Compiler.  For what the driver keeps, it matters only that  *)
(* the passes do not touch it; what PreprocessorProofs, ParserProofs,      *)
(* BinderProofs and RefcountTraceProofs prove of one unit holds in the     *)
(* compiler, which starts each of these passes again for another.          *)
(***************************************************************************)
EXTENDS MCCompiler, TLAPS

\* Nothing has been made before the code is generated, and no file before it is
\* handed out.
Pass == {"preprocess", "parse", "bind", "elaborate", "trace", "check", "attributes", "generate"}
NothingYet ==
    /\ stage \in Pass => ~header
    /\ stage \in Pass \cup {"output"} => ~c_file /\ binary # "ours" /\ ran # "ours"

\* An error ends the compilation before anything is made.
ErrorsEnd == reported # {} => stage = "exit" /\ ~header /\ ~c_file /\ binary # "ours" /\ ran # "ours"

CleanInv == NothingYet /\ ErrorsEnd

LEMMA CleanInit == Init => CleanInv
BY DEF Init, CleanInv, NothingYet, ErrorsEnd, Pass

LEMMA CleanStep == CleanInv /\ [Next]_vars => CleanInv'
<1> SUFFICES ASSUME CleanInv, [Next]_vars PROVE CleanInv'
  OBVIOUS
<1> USE DEF CleanInv, NothingYet, ErrorsEnd, Pass
<1>1. CASE Preprocess
  BY <1>1 DEF Preprocess, driver
<1>2. CASE Preprocessed
  BY <1>2 DEF Preprocessed, driver, Go
<1>3. CASE Parse
  BY <1>3 DEF Parse, driver
<1>4. CASE Parsed
  BY <1>4 DEF Parsed, Parser_errors, Go
<1>5. CASE BindNames
  BY <1>5 DEF BindNames, driver
<1>6. CASE Bound
  BY <1>6 DEF Bound, Go
<1>7. CASE Elaborate
  BY <1>7 DEF Elaborate, Go
<1>8. CASE Trace \/ Traced
  BY <1>8 DEF Trace, Traced, driver, Go
<1>9. ASSUME NEW finds \in SUBSET {"checker", "warning"}, Check(finds) PROVE CleanInv'
  BY <1>9 DEF Check, Go
<1>10. ASSUME NEW class, ValidateAttributes(class) PROVE CleanInv'
  BY <1>10 DEF ValidateAttributes, Go
<1>11. ASSUME NEW written \in BOOLEAN, Generate(written) PROVE CleanInv'
  BY <1>11 DEF Generate, Go
<1>12. ASSUME NEW written \in BOOLEAN, Rewrite(written) PROVE CleanInv'
  BY <1>12 DEF Rewrite, Go
<1>13. ASSUME NEW written \in BOOLEAN, Link(written) PROVE CleanInv'
  BY <1>13 DEF Link, Go
<1>14. CASE Run
  BY <1>14 DEF Run, Go
<1>15. CASE Remove
  BY <1>15 DEF Remove, Go
<1>16. ASSUME NEW file \in {"none", "theirs"}, Other(file) PROVE CleanInv'
  BY <1>16 DEF Other
<1>17. CASE UNCHANGED vars
  BY <1>17 DEF vars, driver
<1> QED
  BY <1>1, <1>2, <1>3, <1>4, <1>5, <1>6, <1>7, <1>8, <1>9, <1>10, <1>11, <1>12, <1>13,
     <1>14, <1>15, <1>16, <1>17 DEF Next

\* Safety: whatever the inputs of the passes and the options are, nothing is
\* written or run once a pass has reported an error.
THEOREM CleanSafety == Spec => []CleanOutput
<1>1. CleanInv => CleanOutput
  BY DEF CleanInv, ErrorsEnd, CleanOutput
<1> QED
  BY CleanInit, CleanStep, <1>1, PTL DEF Spec

-----------------------------------------------------------------------------
LEMMA PreStep == [Next]_vars => [Pre!Next]_(Pre!vars) \/ Pre!Init'
<1> SUFFICES ASSUME [Next]_vars, ~UNCHANGED Pre!vars PROVE Pre!Next \/ Pre!Init'
  OBVIOUS
<1>1. UNCHANGED pre <=> UNCHANGED Pre!vars
  BY DEF pre, Pre!vars
<1>2. CASE Preprocess
  BY <1>2 DEF Preprocess
<1>3. CASE Preprocessed
  BY <1>3 DEF Preprocessed, Pre!Restart, Pre!Init
<1>4. CASE Parse \/ Parsed \/ BindNames \/ Bound \/ Trace \/ Traced
  BY <1>1, <1>4 DEF Parse, Parsed, BindNames, Bound, Trace, Traced
<1>5. CASE Elaborate \/ Run \/ Remove
  BY <1>1, <1>5 DEF Elaborate, Run, Remove, passes
<1>6. ASSUME NEW finds, Check(finds) PROVE FALSE
  BY <1>1, <1>6 DEF Check, passes
<1>7. ASSUME NEW class, ValidateAttributes(class) PROVE FALSE
  BY <1>1, <1>7 DEF ValidateAttributes, passes
<1>8. ASSUME NEW written, Generate(written) \/ Rewrite(written) \/ Link(written) PROVE FALSE
  BY <1>1, <1>8 DEF Generate, Rewrite, Link, passes
<1>9. ASSUME NEW file, Other(file) PROVE FALSE
  BY <1>1, <1>9 DEF Other, passes
<1>10. CASE UNCHANGED vars
  BY <1>1, <1>10 DEF vars, passes
<1> QED
  BY <1>2, <1>3, <1>4, <1>5, <1>6, <1>7, <1>8, <1>9, <1>10 DEF Next

LEMMA PreInit == Init => Pre!Init
BY DEF Init

\* Safety: in every unit, text is active exactly where the nesting of its
\* conditions says so, given the outcomes that the code finds for them.
THEOREM ConditionalsInUnit == Spec => []ActiveIsReference
<1>1. Pre!Init => Pre!ChainInv
  BY Pre!TypeInit, Pre!ChainInit DEF Pre!ChainInv
<1>2. Pre!ChainInv /\ [Pre!Next]_(Pre!vars) => Pre!ChainInv'
  BY Pre!TypeStep, Pre!ChainStep DEF Pre!ChainInv, Pre!ChainFits
<1>3. Pre!ChainInv => ActiveIsReference
  BY Pre!ChainImplies DEF ActiveIsReference
<1> QED
  BY PreInit, PreStep, <1>1, <1>2, <1>3, PTL DEF Spec

\* Safety: in every unit, the lines of a file that the unit knows by one path are
\* compiled once and in order, however the files import each other.
THEOREM ImportsInUnit == Spec => []LinesOnce
<1>1. Pre!Init => Pre!LineInv
  BY Pre!TypeInit, Pre!LineInit DEF Pre!LineInv
<1>2. Pre!LineInv /\ [Pre!Next]_(Pre!vars) => Pre!LineInv'
  BY Pre!TypeStep, Pre!LineStep DEF Pre!LineInv
<1>3. Pre!LineInv => LinesOnce
  BY Pre!LineImplies DEF LinesOnce
<1> QED
  BY PreInit, PreStep, <1>1, <1>2, <1>3, PTL DEF Spec

\* Safety: in every unit, each active directive is in the C file once, or held
\* back once.
THEOREM DirectivesInUnit == Spec => []DirectivesKept
<1>1. Pre!Init => Pre!KeptInv
  BY Pre!TypeInit, Pre!KeptInit DEF Pre!KeptInv
<1>2. Pre!KeptInv /\ [Pre!Next]_(Pre!vars) => Pre!KeptInv'
  BY Pre!TypeStep, Pre!KeptStep DEF Pre!KeptInv
<1>3. Pre!KeptInv => DirectivesKept
  BY Pre!KeptImplies DEF DirectivesKept
<1> QED
  BY PreInit, PreStep, <1>1, <1>2, <1>3, PTL DEF Spec

-----------------------------------------------------------------------------
LEMMA ParStep == [Next]_vars => [Par!Next]_(Par!vars) \/ Par!New \/ Par!Drop_parser
<1> SUFFICES ASSUME [Next]_vars, ~UNCHANGED Par!vars PROVE Par!Next \/ Par!New \/ Par!Drop_parser
  OBVIOUS
<1>1. UNCHANGED par <=> UNCHANGED Par!vars
  BY DEF par, Par!vars
<1>2. CASE Parse
  BY <1>2 DEF Parse
<1>3. CASE Preprocessed
  BY <1>1, <1>3 DEF Preprocessed
<1>4. CASE Parsed
  BY <1>4 DEF Parsed
<1>5. CASE Preprocess \/ BindNames \/ Bound \/ Trace \/ Traced
  BY <1>1, <1>5 DEF Preprocess, BindNames, Bound, Trace, Traced
<1>6. CASE Elaborate \/ Run \/ Remove
  BY <1>1, <1>6 DEF Elaborate, Run, Remove, passes
<1>7. ASSUME NEW finds, Check(finds) PROVE FALSE
  BY <1>1, <1>7 DEF Check, passes
<1>8. ASSUME NEW class, ValidateAttributes(class) PROVE FALSE
  BY <1>1, <1>8 DEF ValidateAttributes, passes
<1>9. ASSUME NEW written, Generate(written) \/ Rewrite(written) \/ Link(written) PROVE FALSE
  BY <1>1, <1>9 DEF Generate, Rewrite, Link, passes
<1>10. ASSUME NEW file, Other(file) PROVE FALSE
  BY <1>1, <1>10 DEF Other, passes
<1>11. CASE UNCHANGED vars
  BY <1>1, <1>11 DEF vars, passes
<1> QED
  BY <1>2, <1>3, <1>4, <1>5, <1>6, <1>7, <1>8, <1>9, <1>10, <1>11 DEF Next

LEMMA ParserInUnit == Spec => []Par!IInv
<1>1. Init => Par!IInv
  BY Par!ParserNone DEF Init
<1>2. Par!IInv /\ [Next]_vars => Par!IInv'
  BY ParStep, ParserEntries, Par!ParserStep, Par!ParserNew, Par!ParserNone
<1> QED
  BY <1>1, <1>2, PTL DEF Spec

\* Safety: in every unit, the parser comes to no loop and no recursion that goes on
\* without a token.
THEOREM ProgressInUnit == Spec => []Progress
<1>1. Par!IInv => Progress
  BY Par!ParserImplies DEF Progress
<1> QED
  BY ParserInUnit, <1>1, PTL

\* Safety: in every unit, recovery in a block drops a token only after an error.
THEOREM DropsInUnit == Spec => []DropsReported
<1>1. Par!IInv => DropsReported
  BY Par!ParserImplies DEF DropsReported
<1> QED
  BY ParserInUnit, <1>1, PTL

-----------------------------------------------------------------------------
LEMMA BndStep == [Next]_vars => [Bnd!Next]_(Bnd!vars) \/ Bnd!Init'
<1> SUFFICES ASSUME [Next]_vars, ~UNCHANGED Bnd!vars PROVE Bnd!Next \/ Bnd!Init'
  OBVIOUS
<1>1. UNCHANGED bnd <=> UNCHANGED Bnd!vars
  BY DEF bnd, Bnd!vars
<1>2. CASE BindNames
  BY <1>2 DEF BindNames
<1>3. CASE Bound
  BY <1>3 DEF Bound, Bnd!NewBinder, Bnd!Init
<1>4. CASE Preprocess \/ Preprocessed \/ Parse \/ Parsed \/ Trace \/ Traced
  BY <1>1, <1>4 DEF Preprocess, Preprocessed, Parse, Parsed, Trace, Traced
<1>5. CASE Elaborate \/ Run \/ Remove
  BY <1>1, <1>5 DEF Elaborate, Run, Remove, passes
<1>6. ASSUME NEW finds, Check(finds) PROVE FALSE
  BY <1>1, <1>6 DEF Check, passes
<1>7. ASSUME NEW class, ValidateAttributes(class) PROVE FALSE
  BY <1>1, <1>7 DEF ValidateAttributes, passes
<1>8. ASSUME NEW written, Generate(written) \/ Rewrite(written) \/ Link(written) PROVE FALSE
  BY <1>1, <1>8 DEF Generate, Rewrite, Link, passes
<1>9. ASSUME NEW file, Other(file) PROVE FALSE
  BY <1>1, <1>9 DEF Other, passes
<1>10. CASE UNCHANGED vars
  BY <1>1, <1>10 DEF vars, passes
<1> QED
  BY <1>2, <1>3, <1>4, <1>5, <1>6, <1>7, <1>8, <1>9, <1>10 DEF Next

LEMMA BndInit == Init => Bnd!Init
BY DEF Init

\* Safety: in every unit, the elaborator finds each class declaration under the
\* class that the binder bound it to.
THEOREM SameClassInUnit == Spec => []SameClass
<1> DEFINE Inv == Bnd!TypeInv /\ Bnd!SameInv
<1>1. Bnd!Init => Inv
  BY Bnd!TypeInit, Bnd!SameInit
<1>2. Inv /\ [Bnd!Next]_(Bnd!vars) => Inv'
  BY Bnd!TypeStep, Bnd!SameStep
<1>3. Inv => SameClass
  BY Bnd!SameImplies DEF SameClass
<1> QED
  BY BndInit, BndStep, <1>1, <1>2, <1>3, PTL DEF Spec

\* Safety: in every unit, a class has a slot for every method that a protocol its
\* declarations name declares itself, if the class is first declared by an
\* @interface outside of namespaces and the protocol once, outside of namespaces
\* and without @optional methods.  (The methods of a protocol's ancestors are not
\* injected.)
THEOREM ConformersInUnit == Spec => []ConformersComplete
<1> DEFINE Inv == Bnd!TypeInv /\ Bnd!ConformInv
<1>1. Bnd!Init => Inv
  BY Bnd!TypeInit, Bnd!ConformInit
<1>2. Inv /\ [Bnd!Next]_(Bnd!vars) => Inv'
  BY Bnd!TypeStep, Bnd!ConformStep
<1>3. Inv => ConformersComplete
  BY DEF Bnd!ConformInv, ConformersComplete
<1> QED
  BY BndInit, BndStep, <1>1, <1>2, <1>3, PTL DEF Spec

\* Safety: in every unit, a name declared with one type only has it in the symbol
\* table, wherever it was used before.
THEOREM TypesInUnit == Spec => []DeclaredOnceTyped
<1>1. Bnd!Init => Bnd!TypedInv
  BY Bnd!TypedInit
<1>2. Bnd!TypedInv /\ [Bnd!Next]_(Bnd!vars) => Bnd!TypedInv'
  BY BinderMarks, Bnd!TypedStep
<1>3. Bnd!TypedInv => DeclaredOnceTyped
  BY Bnd!TypedImplies DEF DeclaredOnceTyped
<1> QED
  BY BndInit, BndStep, <1>1, <1>2, <1>3, PTL DEF Spec

-----------------------------------------------------------------------------
LEMMA TrcStep == [Next]_vars => [Trc!Next]_(Trc!vars) \/ Trc!Init'
<1> SUFFICES ASSUME [Next]_vars, ~UNCHANGED Trc!vars PROVE Trc!Next \/ Trc!Init'
  OBVIOUS
<1>1. UNCHANGED trc <=> UNCHANGED Trc!vars
  BY DEF trc, Trc!vars
<1>2. CASE Trace
  BY <1>2 DEF Trace
<1>3. CASE Traced
  BY <1>3 DEF Traced, Trc!NewTracer, Trc!Init
<1>4. CASE Preprocess \/ Preprocessed \/ Parse \/ Parsed \/ BindNames \/ Bound
  BY <1>1, <1>4 DEF Preprocess, Preprocessed, Parse, Parsed, BindNames, Bound
<1>5. CASE Elaborate \/ Run \/ Remove
  BY <1>1, <1>5 DEF Elaborate, Run, Remove, passes
<1>6. ASSUME NEW finds, Check(finds) PROVE FALSE
  BY <1>1, <1>6 DEF Check, passes
<1>7. ASSUME NEW class, ValidateAttributes(class) PROVE FALSE
  BY <1>1, <1>7 DEF ValidateAttributes, passes
<1>8. ASSUME NEW written, Generate(written) \/ Rewrite(written) \/ Link(written) PROVE FALSE
  BY <1>1, <1>8 DEF Generate, Rewrite, Link, passes
<1>9. ASSUME NEW file, Other(file) PROVE FALSE
  BY <1>1, <1>9 DEF Other, passes
<1>10. CASE UNCHANGED vars
  BY <1>1, <1>10 DEF vars, passes
<1> QED
  BY <1>2, <1>3, <1>4, <1>5, <1>6, <1>7, <1>8, <1>9, <1>10 DEF Next

LEMMA TrcInit == Init => Trc!Init
BY DEF Init

LEMMA TraceInUnit == Spec => []Trc!TraceInv
<1>1. Trc!Init => Trc!TraceInv
  BY Trc!TraceInit
<1>2. Trc!TraceInv /\ [Trc!Next]_(Trc!vars) => Trc!TraceInv'
  BY TracerNames, Trc!TraceStep
<1> QED
  BY TrcInit, TrcStep, <1>1, <1>2, PTL DEF Spec

\* Safety: in every unit, however its blocks nest, the counts of the trace are
\* those that a run taking the traced branches has, until one of its functions is
\* left early.
THEOREM CountsInUnit == Spec => []TraceIsRun
<1>1. Trc!TraceInv => TraceIsRun
  BY Trc!TraceImpliesRun DEF TraceIsRun
<1> QED
  BY TraceInUnit, <1>1, PTL

\* Safety: in every unit, an object that such a run never releases is reported as
\* a leak, unless one of its functions was left early.
THEOREM LeaksInUnit == Spec => []LeaksReported
<1>1. Trc!TraceInv => LeaksReported
  BY Trc!TraceImpliesLeaks DEF LeaksReported
<1> QED
  BY TraceInUnit, <1>1, PTL
=============================================================================
