------------------------------ MODULE Compiler ------------------------------
(***************************************************************************)
(* src/crates/nupac/src/pipeline.rs and main.rs: the passes in their       *)
(* order, what stops them, and what becomes of the C code.                 *)
(*                                                                         *)
(* The passes with a state of their own are instances of their modules.    *)
(* Each starts on an input of its own making (any tokens, any              *)
(* declarations), and its state goes when the pass ends, as in the code.   *)
(***************************************************************************)
EXTENDS Naturals, Sequences

CONSTANTS
    Macro, PathName, Main, FileOf, NoMacro, MaxLines, MaxNest,  \* Preprocessor
    Entry, MaxTokens,                                           \* Parser
    Class, Protocol, Space, Var, Sel, Type, Nil, MaxDecls,      \* Binder
    Local, Fresh, MaxIters, MaxOpen, MaxStmts                   \* RefcountTrace

VARIABLES
    reading, resolved, defined, cond_stack, c_out, line_map, count, due, status,
    todo, input, at, trying, position, previous, ok, panic_mode, has_error, excused, silent,
    phase, cst, classes, protocols, symbols, using_list, ns_prefix, current_class,
    bind_error, size, declared,
    st, frames, run, stmts

VARIABLES
    stage,      \* what is done next; at last "exit"
    options,    \* options of the command line, once they matter
    reported,   \* ghost: what the passes have reported, and "warning" if it is an error
    header,     \* the bridge header was written
    c_file,     \* the C file was written
    binary,     \* whose program is at bin_path: "none", "ours" or "theirs"
    ran         \* whose program was run

\* The passes with their proofs, which CompilerProofs needs.
Pre == INSTANCE PreprocessorProofs
Par == INSTANCE ParserProofs
Bnd == INSTANCE BinderProofs
Trc == INSTANCE RefcountTraceProofs

ASSUME ParserEntries == Par!EntryPrograms
ASSUME BinderMarks == Bnd!MarksDiffer
ASSUME TracerNames == Trc!FreshDiffers

pre == <<reading, resolved, defined, cond_stack, c_out, line_map, count, due, status>>
par == <<todo, input, at, trying, position, previous, ok, panic_mode, has_error, excused, silent>>
bnd == <<phase, cst, classes, protocols, symbols, using_list, ns_prefix, current_class,
         bind_error, size, declared>>
trc == <<st, frames, run, stmts>>
driver == <<options, reported, header, c_file, binary, ran>>
passes == <<pre, par, bnd, trc>>
vars == <<passes, stage, driver>>

Mode == {"compile", "rewrite", "run"}
Backend == {"clang", "gcc", "portable"}
Options == [mode : Mode, backend : Backend, no_checker : BOOLEAN,
            werror : BOOLEAN, trace_refcount : BOOLEAN, bridge_header : BOOLEAN]
NoOptions == [o \in {} |-> FALSE]

Init ==
    /\ Pre!Init /\ Par!NoParser /\ Bnd!Init /\ Trc!Init
    /\ stage = "preprocess" /\ options = NoOptions
    /\ reported = {} /\ header = FALSE /\ c_file = FALSE
    /\ binary = "none" /\ ran = "none"

Go(next) == stage' = next

-----------------------------------------------------------------------------
(* transpile.                                                                *)

Preprocess == stage = "preprocess" /\ Pre!Next /\ UNCHANGED <<par, bnd, trc, stage, driver>>
\* A panic ends the process as an error does.
Preprocessed ==
    /\ stage = "preprocess" /\ status # "reading"
    /\ IF status = "done" THEN Go("parse") /\ Par!New ELSE Go("exit") /\ UNCHANGED par
    /\ Pre!Restart /\ UNCHANGED <<bnd, trc, driver>>

Parse == stage = "parse" /\ Par!Next /\ UNCHANGED <<pre, bnd, trc, stage, driver>>
Parser_errors == IF has_error THEN {"parser"} ELSE {}

\* The parser returns a tree in any case.
Parsed_Tree ==
    /\ stage = "parse" /\ todo = <<>>
    /\ Go("bind")
    /\ reported' = Parser_errors
    /\ Par!Drop_parser /\ UNCHANGED <<pre, bnd, trc, options, header, c_file, binary, ran>>

Parsed ==
    /\ stage = "parse" /\ todo = <<>>
    /\ Go(IF has_error THEN "exit" ELSE "bind")
    /\ reported' = Parser_errors
    /\ Par!Drop_parser /\ UNCHANGED <<pre, bnd, trc, options, header, c_file, binary, ran>>

BindNames == stage = "bind" /\ Bnd!Next /\ UNCHANGED <<pre, par, trc, stage, driver>>
Bound ==
    /\ stage = "bind" /\ phase # "binding"
    /\ Go(IF bind_error THEN "exit" ELSE "elaborate")
    /\ reported' = reported \cup (IF bind_error THEN {"binder"} ELSE {})
    /\ Bnd!NewBinder /\ UNCHANGED <<pre, par, trc, options, header, c_file, binary, ran>>

\* The elaborator reports nothing, and neither does the ARC pass.  A trace of the
\* counts needs no other option.
Elaborate ==
    /\ stage = "elaborate"
    /\ \E given \in Options :
          IF given.trace_refcount THEN Go("trace") /\ UNCHANGED options
          ELSE options' = given /\ Go(IF given.no_checker THEN "attributes" ELSE "check")
    /\ UNCHANGED <<passes, reported, header, c_file, binary, ran>>

Trace == stage = "trace" /\ Trc!Next /\ UNCHANGED <<pre, par, bnd, stage, driver>>
\* The trace is printed, and nothing is compiled.
Traced ==
    /\ stage = "trace" /\ frames = <<>>
    /\ Go("exit")
    /\ Trc!NewTracer /\ UNCHANGED <<pre, par, bnd, driver>>

Check(finds) ==
    /\ stage = "check"
    /\ LET fatal == finds \cap (IF options.werror THEN {"checker", "warning"} ELSE {"checker"})
       IN  /\ Go(IF fatal # {} THEN "exit" ELSE "attributes")
           /\ reported' = reported \cup fatal
    /\ UNCHANGED <<passes, options, header, c_file, binary, ran>>

\* disposition: an attribute nobody knows is passed on.
Allowed(class) ==
    class \in {"common", "unknown"} \/ class = options.backend
ValidateAttributes(class) ==
    /\ stage = "attributes"
    /\ Go(IF Allowed(class) THEN "generate" ELSE "exit")
    /\ reported' = reported \cup (IF Allowed(class) THEN {} ELSE {"attribute"})
    /\ UNCHANGED <<passes, options, header, c_file, binary, ran>>

\* The code, and the header that lets C call it.
Generate(written) ==
    /\ stage = "generate"
    /\ IF options.bridge_header
       THEN header' = written /\ Go(IF written THEN "output" ELSE "exit")
       ELSE Go("output") /\ UNCHANGED header
    /\ UNCHANGED <<passes, options, reported, c_file, binary, ran>>

-----------------------------------------------------------------------------
(* main.                                                                     *)

Rewrite(written) ==
    /\ stage = "output" /\ options.mode = "rewrite"
    /\ c_file' = written /\ Go("exit")
    /\ UNCHANGED <<passes, options, reported, header, binary, ran>>

\* compile_to_binary; the C compiler may fail, and compile mode makes no *.c.
Link(succeeds) ==
    /\ stage = "output" /\ options.mode # "rewrite"
    /\ IF succeeds
       THEN binary' = "ours" /\ Go(IF options.mode = "run" THEN "run" ELSE "exit")
       ELSE UNCHANGED binary /\ Go("exit")
    /\ UNCHANGED <<passes, options, reported, header, c_file, ran>>

Run ==
    /\ stage = "run"
    /\ ran' = binary
    /\ Go(IF binary = "none" THEN "exit" ELSE "remove")
    /\ UNCHANGED <<passes, options, reported, header, c_file, binary>>
Remove ==
    /\ stage = "remove" /\ binary' = "none" /\ Go("exit")
    /\ UNCHANGED <<passes, options, reported, header, c_file, ran>>

\* In run mode bin_path is a file of the temporary directory, named after the
\* input, or the one that -o names: another nupac that is given the same name
\* links its program there, or removes it.
Other(file) ==
    /\ stage \in {"output", "run", "remove"} /\ options.mode = "run"
    /\ binary' = file
    /\ UNCHANGED <<passes, stage, options, reported, header, c_file, ran>>

Next ==
    \/ Preprocess \/ Preprocessed \/ Parse \/ Parsed \/ BindNames \/ Bound \/ Elaborate
    \/ Trace \/ Traced
    \/ \E finds \in SUBSET {"checker", "warning"} : Check(finds)
    \/ \E class \in {"common", "clang", "gcc", "unknown"} : ValidateAttributes(class)
    \/ \E written \in BOOLEAN : Generate(written) \/ Rewrite(written) \/ Link(written)
    \/ Run \/ Remove
    \/ \E file \in {"none", "theirs"} : Other(file)

Spec == Init /\ [][Next]_vars

-----------------------------------------------------------------------------
\* Safety.  Nothing is written or run if a pass reported an error, although the
\* parser returns a tree all the same and each pass is asked in its own way.
CleanOutput ==
    header \/ c_file \/ binary = "ours" \/ ran = "ours" => reported = {}
=============================================================================
