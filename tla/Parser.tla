------------------------------- MODULE Parser -------------------------------
(***************************************************************************)
(* src/crates/parser/src/parser.rs: the state of the parser, and the steps *)
(* of its functions (ParserRules) over an input that is made up as it is   *)
(* looked at: a token is the set of the kinds it can still be.             *)
(***************************************************************************)
EXTENDS ParserRules

CONSTANTS
    Entry,      \* what the parser is in the middle of at the start
    MaxTokens   \* bound: tokens before the end of the file

VARIABLES
    todo,       \* the steps that are left, of all open calls and loops
    input,      \* tokens lexed: the current one, those ahead, and while a type
                \* is tried for, those before
    at,         \* index of the current token in the input
    trying,     \* a receiver is being read as a type
    position,   \* tokens consumed
    previous,   \* the previous token: ";", "other", or "unknown"
    ok,         \* whether the last call returned Some
    panic_mode, has_error,
    excused,    \* ghost: an error was pending when recovery began
    silent      \* ghost: recovery in a block dropped a token without an error

vars == <<todo, input, at, trying, position, previous, ok, panic_mode, has_error, excused, silent>>
flags == <<panic_mode, has_error, excused, silent>>
tape == <<input, at, trying, position, previous>>

End(f, p) == [op |-> "end", f |-> f, position |-> p]
Again(name, body, p) == [op |-> "again", name |-> name, body |-> body, position |-> p]
Token(n) == IF n > MaxTokens THEN {"eof"} ELSE Kind

\* What the proofs need of the entries: each has a program.
EntryPrograms == Entry \subseteq DOMAIN Program \cup {"translation_unit"}

\* In the middle of a unit, no error so far: a block is begun only at a "{".
Opening(e) == IF e = "compound_statement" THEN {"{"} ELSE Token(1)
Beginning(e) ==
    (IF e = "translation_unit" THEN <<>> ELSE Program[e] \o <<End(e, 0)>>) \o parse_translation_unit
Init ==
    /\ \E e \in Entry : todo = Beginning(e) /\ input = <<Opening(e)>>
    /\ at = 1 /\ trying = FALSE /\ position = 0 /\ previous = "other"
    /\ ok = TRUE /\ panic_mode = FALSE /\ has_error = FALSE /\ excused = FALSE /\ silent = FALSE

\* Parser::new, and the end of the parser.
New ==
    /\ \E e \in Entry : todo' = Beginning(e) /\ input' = <<Opening(e)>>
    /\ at' = 1 /\ trying' = FALSE /\ position' = 0 /\ previous' = "other"
    /\ ok' = TRUE /\ panic_mode' = FALSE /\ has_error' = FALSE /\ excused' = FALSE /\ silent' = FALSE
NoParser ==
    /\ todo = <<>> /\ input = <<>> /\ at = 1 /\ trying = FALSE /\ position = 0 /\ previous = "other"
    /\ ok = TRUE /\ panic_mode = FALSE /\ has_error = FALSE /\ excused = FALSE /\ silent = FALSE
Drop_parser ==
    /\ todo' = <<>> /\ input' = <<>> /\ at' = 1 /\ trying' = FALSE /\ position' = 0 /\ previous' = "other"
    /\ ok' = TRUE /\ panic_mode' = FALSE /\ has_error' = FALSE /\ excused' = FALSE /\ silent' = FALSE

-----------------------------------------------------------------------------
step == todo[1]
Doing(op) == todo # <<>> /\ step.op = op
Go(program) == todo' = program \o Tail(todo)
current == input[at]
Is(k) == current \cap k # {}
IsNot(k) == current \ k # {}
Learn(k) == input' = [input EXCEPT ![at] = @ \cap k] /\ UNCHANGED <<at, trying, position, previous>>

\* advance: the current token is one of the kinds k; at the end of the file the
\* parser stays where it is.
Advance(k) ==
    LET token == current \cap k
        known == IF at < Len(input) THEN input ELSE Append(input, Token(position + 2))
    IN  IF token = {"eof"} THEN Learn(k)
        ELSE /\ position' = position + 1
             /\ previous' = IF token = {";"} THEN ";" ELSE IF ";" \in token THEN "unknown" ELSE "other"
             /\ IF trying THEN input' = [known EXCEPT ![at] = token] /\ at' = at + 1
                ELSE input' = Tail(known) /\ at' = at
             /\ UNCHANGED trying

error == panic_mode' = TRUE /\ has_error' = TRUE /\ UNCHANGED <<excused, silent>>

NeedStep ==
    /\ Doing("need") /\ Go(<<>>) /\ UNCHANGED ok
    /\ \/ Is(step.kinds) /\ Advance(step.kinds) /\ UNCHANGED flags
       \/ IsNot(step.kinds) /\ Learn(Kind \ step.kinds) /\ error

CasesStep ==
    /\ Doing("cases") /\ UNCHANGED <<ok, flags>>
    /\ \/ \E i \in DOMAIN step.alternatives :
             LET a == step.alternatives[i]
             IN  Is(a.kinds) /\ Advance(a.kinds) /\ Go(a.body)
       \/ LET all == UNION {step.alternatives[i].kinds : i \in DOMAIN step.alternatives}
          IN  IsNot(all) /\ Learn(Kind \ all) /\ Go(step.no)

LookStep ==
    /\ Doing("look") /\ UNCHANGED <<ok, flags>>
    /\ \/ Is(step.kinds) /\ Learn(step.kinds) /\ Go(step.yes)
       \/ IsNot(step.kinds) /\ Learn(Kind \ step.kinds) /\ Go(step.no)

AheadStep ==
    /\ Doing("ahead") /\ UNCHANGED <<ok, at, trying, position, previous, flags>>
    /\ LET known == IF at < Len(input) THEN input ELSE Append(input, Token(position + 2))
           next == known[at + 1]
       IN  \/ /\ next \cap step.kinds # {}
              /\ input' = [known EXCEPT ![at + 1] = next \cap step.kinds] /\ Go(step.yes)
           \/ /\ next \ step.kinds # {}
              /\ input' = [known EXCEPT ![at + 1] = next \ step.kinds] /\ Go(step.no)

SkipStep ==
    /\ Doing("skip") /\ Go(<<>>) /\ UNCHANGED <<ok, flags>>
    /\ \/ Is({"eof"}) /\ Advance({"eof"})
       \/ IsNot({"eof"}) /\ Advance(Kind \ {"eof"})

DropStep ==
    /\ Doing("drop") /\ Go(<<>>) /\ Advance(Kind \ {"eof"})
    /\ silent' = (silent \/ ~excused)
    /\ UNCHANGED <<ok, panic_mode, has_error, excused>>

ErrorStep == Doing("error") /\ Go(<<>>) /\ error /\ UNCHANGED <<ok, tape>>
RecoverStep ==
    /\ Doing("recover") /\ Go(<<>>)
    /\ panic_mode' = FALSE /\ excused' = panic_mode
    /\ UNCHANGED <<ok, has_error, silent, tape>>

Branch(op, condition) ==
    Doing(op) /\ Go(IF condition THEN step.yes ELSE step.no) /\ UNCHANGED <<ok, flags, tape>>
Loops == {i \in DOMAIN todo : todo[i].op = "again"}
Calls == {i \in DOMAIN todo : todo[i].op = "end"}
First(S) == CHOOSE i \in S : \A j \in S : i <= j
From(i) == SubSeq(todo, i, Len(todo))

BranchStep ==
    \/ \E b \in BOOLEAN : Branch("choose", b)
    \/ Branch("ifok", ok)
    \/ Branch("ifpanic", panic_mode)
    \/ \E b \in BOOLEAN : previous \in {"unknown", IF b THEN ";" ELSE "other"} /\ Branch("aftersemi", b)
    \/ Doing("still") /\ Branch("still", todo[First(Loops)].position = position)

CallStep == Doing("call") /\ Go(Program[step.f] \o <<End(step.f, position)>>) /\ UNCHANGED <<ok, flags, tape>>
ReturnStep ==
    /\ Doing("return") /\ todo' = From(First(Calls) + 1) /\ ok' = step.ok /\ UNCHANGED <<flags, tape>>
LoopStep ==
    /\ \/ Doing("loop") /\ Go(step.body \o <<Again(step.name, step.body, position)>>)
       \/ Doing("again") /\ Go(step.body \o <<Again(step.name, step.body, position)>>)
       \/ Doing("break") /\ todo' = From(First(Loops) + 1)
       \/ Doing("continue") /\ todo' = From(First(Loops))
    /\ UNCHANGED <<ok, flags, tape>>

\* The receiver of a message is tried as a type.
TryStep ==
    /\ \/ Doing("speculate") /\ trying' = TRUE /\ UNCHANGED <<input, at, position>>
       \/ /\ Doing("commit") /\ trying' = FALSE
          /\ input' = SubSeq(input, at, Len(input)) /\ at' = 1 /\ UNCHANGED position
       \/ /\ Doing("rewind") /\ trying' = FALSE
          /\ at' = 1 /\ position' = position - (at - 1) /\ UNCHANGED input
    /\ Go(<<>>) /\ UNCHANGED <<ok, flags, previous>>

Next == NeedStep \/ CasesStep \/ LookStep \/ AheadStep \/ SkipStep \/ DropStep \/ ErrorStep
          \/ RecoverStep \/ BranchStep \/ CallStep \/ ReturnStep \/ LoopStep \/ TryStep

Spec == Init /\ [][Next]_vars

-----------------------------------------------------------------------------
\* Safety.  The parser cannot run forever: a turn of a loop consumes a token or
\* is the last, and no function calls itself where it was called, whatever the
\* input.  The list of instance variables is the exception: it does neither at
\* a token that starts no type (parser.rs:3463-3522).
Progress ==
    /\ Doing("again") /\ step.name # "ivars" => step.position < position
    /\ \A i, j \in Calls : i < j => todo[i].f # todo[j].f \/ todo[i].position # todo[j].position

\* Safety.  Recovery inside a block skips tokens only after an error was
\* reported, so no part of a function body disappears silently because of it.
DropsReported == ~silent
=============================================================================
