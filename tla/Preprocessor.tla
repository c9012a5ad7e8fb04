---------------------------- MODULE Preprocessor ----------------------------
(***************************************************************************)
(* src/crates/preprocessor/src/preprocessor.rs: conditionals, #define,     *)
(* #include and #import, one line at a time.  A line is made up when it is *)
(* read, and so is the end of a file.                                      *)
(*                                                                         *)
(* The lines of the C file are told apart by the line they come from.      *)
(* A file is known by the path it was found at, a directory and the name   *)
(* in the #import, as they are written: '../b.nh' from a subdirectory and  *)
(* 'b.nh' are two paths of one file.                                       *)
(*                                                                         *)
(* Inputs: #elif and #else are in a conditional and do not follow its      *)
(* #else.                                                                  *)
(***************************************************************************)
EXTENDS Naturals, Sequences

CONSTANTS
    Macro,      \* names of macros
    PathName,   \* paths that imports resolve to
    Main,       \* the path of the file that is compiled
    FileOf,     \* the file at each path
    NoMacro,    \* None
    MaxLines,   \* bound: lines read
    MaxNest     \* bound: nested conditionals

VARIABLES
    reading,    \* paths of the files being read, each with the number of lines read
    resolved,   \* paths of the files imported so far
    defined,    \* names that #ifdef finds
    cond_stack, \* open conditionals
    c_out,      \* directives for the C file, by ordinal, with their guards
    line_map,   \* path and line of each line of the output
    count,      \* ghost: ordinal of the last line read
    due,        \* ghost: ordinals of the directives that the C file must have
    status      \* "reading", "done", "failed" with an error, "panic" of the process

vars == <<reading, resolved, defined, cond_stack, c_out, line_map, count, due, status>>

\* pending_define is the ordinal of the stashed #define, or 0.  truth is a ghost:
\* what the conditions of the chain's branches were so far.
CondFrame(active, guard_name, truth) ==
    [active |-> active, any_met |-> active, guard_name |-> guard_name,
     pending_define |-> 0, dirty |-> FALSE, truth |-> <<truth>>, closed |-> FALSE]

Init ==
    /\ reading = <<[path |-> Main, line |-> 0]>>
    /\ resolved = {Main}
    /\ defined = {}
    /\ cond_stack = <<>>
    /\ c_out = <<>> /\ line_map = <<>>
    /\ count = 0 /\ due = {}
    /\ status = "reading"

\* process, for another unit.
Restart ==
    /\ reading' = <<[path |-> Main, line |-> 0]>>
    /\ resolved' = {Main}
    /\ defined' = {}
    /\ cond_stack' = <<>>
    /\ c_out' = <<>> /\ line_map' = <<>>
    /\ count' = 0 /\ due' = {}
    /\ status' = "reading"

-----------------------------------------------------------------------------
Nest == Len(cond_stack)
Inner == cond_stack[Nest]
AllActive(n) == \A i \in 1 .. n : cond_stack[i].active
active == AllActive(Nest)
parent_active == AllActive(IF Nest = 0 THEN 0 ELSE Nest - 1)
SetInner(frame) == cond_stack' = [cond_stack EXCEPT ![Nest] = frame]

Unguarded(n) == [line |-> n, guard |-> NoMacro]

\* poison_top_guard: the innermost conditional is no singleton self-guard.  The
\* #define it held back is emitted now.
Poisoned ==
    IF Nest > 0 /\ (Inner.guard_name # NoMacro \/ Inner.pending_define # 0)
    THEN [Inner EXCEPT !.dirty = TRUE, !.guard_name = NoMacro, !.pending_define = 0]
    ELSE Inner
Flushed == IF Nest > 0 /\ Inner.pending_define # 0
           THEN <<Unguarded(Inner.pending_define)>> ELSE <<>>
poison_top_guard == IF Nest > 0 THEN SetInner(Poisoned) ELSE UNCHANGED cond_stack

\* Every line counts; ReadLine is the part all kinds of line share.
ReadLine ==
    /\ status = "reading" /\ reading # <<>> /\ count < MaxLines
    /\ count' = count + 1
    /\ reading' = [reading EXCEPT ![Len(reading)].line = @ + 1]
    /\ UNCHANGED resolved

-----------------------------------------------------------------------------
(* Conditionals.                                                             *)

\* eval_if_expr: defined(X), !defined(X) and one-character operands.  Any other
\* expression reaches rfind_token, which slices past the end of the string.
Condition == [op : {"defined", "!defined"}, name : Macro]
                 \cup [op : {"digit", "other"}, name : {NoMacro}]
eval_if_expr(c, digit) ==
    CASE c.op = "defined" -> c.name \in defined
      [] c.op = "!defined" -> c.name \notin defined
      [] OTHER -> digit

Push(truthy, guard_name, truth) ==
    /\ Nest < MaxNest
    /\ cond_stack' = Append(cond_stack, CondFrame(truthy, guard_name, truth))
    /\ UNCHANGED <<defined, c_out, line_map, due, status>>

Ifdef(n) ==
    /\ ReadLine
    /\ Push(parent_active /\ n \in defined, NoMacro, n \in defined)

Ifndef(n) ==
    LET truthy == parent_active /\ n \notin defined
    IN  ReadLine /\ Push(truthy, IF truthy THEN n ELSE NoMacro, n \notin defined)

Panic == status' = "panic" /\ UNCHANGED <<defined, cond_stack, c_out, line_map, due>>

If(c, digit) ==
    /\ ReadLine
    /\ IF parent_active /\ c.op = "other" THEN Panic
       ELSE LET truth == eval_if_expr(c, digit)
            IN  Push(parent_active /\ truth, NoMacro, truth)

\* The branch that #elif or #else opens.
Branch_Reopens(truth, is_active) ==
    /\ SetInner([Poisoned EXCEPT !.dirty = TRUE, !.guard_name = NoMacro,
                                 !.truth = Append(@, truth), !.active = is_active])
    /\ c_out' = c_out \o Flushed
    /\ UNCHANGED <<defined, line_map, due, status>>

Branch(truth, is_active) ==
    /\ SetInner([Poisoned EXCEPT !.dirty = TRUE, !.guard_name = NoMacro,
                                 !.truth = Append(@, truth), !.active = is_active,
                                 !.any_met = @ \/ is_active])
    /\ c_out' = c_out \o Flushed
    /\ UNCHANGED <<defined, line_map, due, status>>

Elif(c, digit) ==
    /\ ReadLine /\ Nest > 0 /\ ~Inner.closed
    /\ IF ~Inner.any_met /\ parent_active /\ c.op = "other" THEN Panic
       ELSE LET truth == eval_if_expr(c, digit)
            IN  Branch(truth, ~Inner.any_met /\ parent_active /\ truth)

\* #else leaves any_met as it is; no other branch may follow it.
Else ==
    /\ ReadLine /\ Nest > 0 /\ ~Inner.closed
    /\ SetInner([Poisoned EXCEPT !.dirty = TRUE, !.guard_name = NoMacro,
                                 !.truth = Append(@, TRUE), !.active = ~Inner.any_met,
                                 !.closed = TRUE])
    /\ c_out' = c_out \o Flushed
    /\ UNCHANGED <<defined, line_map, due, status>>

\* A #define that is alone in its #ifndef keeps its guard.
Closing ==
    IF Inner.pending_define = 0 THEN <<>>
    ELSE <<[line |-> Inner.pending_define,
            guard |-> IF Inner.dirty THEN NoMacro ELSE Inner.guard_name]>>

Endif ==
    /\ ReadLine
    /\ IF Nest = 0 THEN UNCHANGED <<cond_stack, c_out>>
       ELSE /\ cond_stack' = SubSeq(cond_stack, 1, Nest - 1)
            /\ c_out' = c_out \o Closing
    /\ UNCHANGED <<defined, line_map, due, status>>

-----------------------------------------------------------------------------
(* Other lines.                                                              *)

\* A line that is skipped; a #define in it still counts as defined.
Skipped(n) ==
    /\ ReadLine /\ ~active
    /\ defined' = defined \cup ({n} \ {NoMacro})
    /\ UNCHANGED <<cond_stack, c_out, line_map, due, status>>

\* #define with a message send in its value, #include, #pragma, #undef, ...
Directive_NotFlushed ==
    /\ ReadLine /\ active
    /\ poison_top_guard
    /\ c_out' = Append(c_out, Unguarded(count + 1))
    /\ due' = due \cup {count + 1}
    /\ UNCHANGED <<defined, line_map, status>>

Directive ==
    /\ ReadLine /\ active
    /\ poison_top_guard
    /\ c_out' = Append(c_out \o Flushed, Unguarded(count + 1))
    /\ due' = due \cup {count + 1}
    /\ UNCHANGED <<defined, line_map, status>>

\* #include of a header that the C file includes already.
IncludeAgain ==
    /\ ReadLine /\ active /\ c_out # <<>>
    /\ poison_top_guard
    /\ c_out' = c_out \o Flushed
    /\ UNCHANGED <<defined, line_map, due, status>>

GuardsDefine(n) ==
    Nest > 0 /\ Inner.guard_name = n /\ Inner.pending_define = 0 /\ ~Inner.dirty

Define(n) ==
    /\ ReadLine /\ active
    /\ defined' = defined \cup {n}
    /\ due' = due \cup {count + 1}
    /\ IF GuardsDefine(n)
       THEN SetInner([Inner EXCEPT !.pending_define = count + 1]) /\ UNCHANGED c_out
       ELSE poison_top_guard /\ c_out' = Append(c_out \o Flushed, Unguarded(count + 1))
    /\ UNCHANGED <<line_map, status>>

Emit == line_map' = Append(line_map, <<reading[Len(reading)].path,
                                       reading[Len(reading)].line + 1>>)

\* Source text, or #pragma mark.
Text ==
    /\ ReadLine /\ active
    /\ poison_top_guard
    /\ c_out' = c_out \o Flushed
    /\ Emit
    /\ UNCHANGED <<defined, due, status>>

\* A blank line or a comment leaves a guard as it is.
Inert ==
    /\ ReadLine /\ active
    /\ Emit
    /\ UNCHANGED <<defined, cond_stack, c_out, due, status>>

\* #import of a .nh or .np file; resolve_imports skips a path it has seen.
Import_Again(p) ==
    /\ status = "reading" /\ reading # <<>> /\ count < MaxLines /\ active
    /\ count' = count + 1
    /\ poison_top_guard
    /\ c_out' = c_out \o Flushed
    /\ reading' = Append([reading EXCEPT ![Len(reading)].line = @ + 1],
                         [path |-> p, line |-> 0])
    /\ resolved' = resolved \cup {p}
    /\ UNCHANGED <<defined, line_map, due, status>>

Import(p) ==
    /\ status = "reading" /\ reading # <<>> /\ count < MaxLines /\ active
    /\ count' = count + 1
    /\ poison_top_guard
    /\ c_out' = c_out \o Flushed
    /\ LET here == [reading EXCEPT ![Len(reading)].line = @ + 1]
       IN  reading' = IF p \in resolved THEN here
                      ELSE Append(here, [path |-> p, line |-> 0])
    /\ resolved' = resolved \cup {p}
    /\ UNCHANGED <<defined, line_map, due, status>>

\* No directory has the file.
ImportMissing ==
    /\ ReadLine /\ active
    /\ poison_top_guard
    /\ c_out' = c_out \o Flushed
    /\ status' = "failed"
    /\ UNCHANGED <<defined, line_map, due>>

EndOfFile ==
    /\ status = "reading" /\ reading # <<>>
    /\ reading' = SubSeq(reading, 1, Len(reading) - 1)
    /\ status' = IF Len(reading) = 1 THEN "done" ELSE "reading"
    /\ UNCHANGED <<resolved, defined, cond_stack, c_out, line_map, count, due>>

Next ==
    \/ \E n \in Macro : Ifdef(n) \/ Ifndef(n) \/ Define(n)
    \/ \E c \in Condition, digit \in BOOLEAN : If(c, digit) \/ Elif(c, digit)
    \/ Else \/ Endif
    \/ \E n \in Macro \cup {NoMacro} : Skipped(n)
    \/ Directive \/ IncludeAgain \/ Text \/ Inert \/ ImportMissing
    \/ \E p \in PathName \cup {Main} : Import(p)
    \/ EndOfFile

Spec == Init /\ [][Next]_vars

-----------------------------------------------------------------------------
\* Safety.  Text is emitted exactly in the branches that are taken: those whose
\* condition held when it was read and none of whose predecessors' did, in every
\* open conditional, although the frames keep two flags instead of the chain,
\* leave the innermost frame out of parent_active, and files share one stack.
\* (Whether a condition holds is asked of the code's own set of names, which is
\* not always C's: it grows in skipped regions and does not shrink.)
ActiveIsReference ==
    active <=> \A i \in 1 .. Nest :
        LET truth == cond_stack[i].truth
            n == Len(truth)
        IN  truth[n] /\ \A j \in 1 .. n - 1 : ~truth[j]

\* Safety.  Each active directive reaches the C file once, or is held back once
\* as the candidate of an open self-guard, whatever lines, branches, imports
\* and nested conditionals come between.  (Its place in the C file is not
\* compared.)
DirectivesKept ==
    \A n \in due :
        LET out == {i \in DOMAIN c_out : c_out[i].line = n}
            held == {i \in DOMAIN cond_stack : cond_stack[i].pending_define = n}
        IN  \/ held = {} /\ \E i \in out : out = {i}
            \/ out = {} /\ \E i \in held : held = {i}

\* Safety.  A file that the unit knows by one path only is compiled once: none of
\* its lines comes twice, and they keep their order, however the imports form
\* cycles and diamonds and wherever other files come in between.
SpelledOnce(file) ==
    \A p, q \in resolved : FileOf[p] = file /\ FileOf[q] = file => p = q

LinesOnce ==
    \A i, j \in DOMAIN line_map :
        LET file == FileOf[line_map[i][1]]
        IN  i < j /\ FileOf[line_map[j][1]] = file /\ SpelledOnce(file)
                => line_map[i][2] < line_map[j][2]
=============================================================================
