---------------------------- MODULE ParserProofs ----------------------------
(***************************************************************************)
(* Theorems about Parser, for every set of entries and any bound on the    *)
(* tokens: every turn of a loop and every recursive call comes after a     *)
(* token, and recovery in a block drops tokens only after an error.        *)
(*                                                                         *)
(* Both are about all functions at once, for each relies on what those it  *)
(* calls consume.  A function has a contract: what the token can be when   *)
(* it returns and none was consumed (Stays), how it answers and fails, and *)
(* a rank that calls without a token lower.  Known is what a contract, or  *)
(* a point of a program, says of the parser; Rule says what a step does to *)
(* it.  The proof has two halves.  The first: a parser whose steps left    *)
(* fit the rules goes on so, if the program of each function keeps its     *)
(* contract.  The second derives that, function by function.               *)
(***************************************************************************)
EXTENDS Parser, SequenceTheorems, WellFoundedInduction, TLAPS

-----------------------------------------------------------------------------
(* What is known of the parser at a point of a program.                      *)

\* trial, settled: a receiver is being read as a type, or none is.
\* past: a token was consumed since the function was called.
\* answered: a call that failed has reported an error, or has consumed a ";".
\* blamed: an error is pending, or a ";" was consumed last.
\* ended, gone: recovery has an error to excuse it, or follows a ";", and a
\* token was consumed since the statement began.  excused: it has an error.
Fact == {"trial", "settled", "past", "answered", "blamed", "ended", "gone", "excused"}
Known == [here : SUBSET Kind, some : SUBSET Kind, none : SUBSET Kind, facts : SUBSET Fact]

\* What the token can be if none was consumed; a token was surely consumed; all
\* that q knows, r knows of the same state.
Stayed(q) == q.some \cup q.none
Moved(q) == "past" \in q.facts \/ Stayed(q) = {}
Implies(q, r) ==
    /\ q.here \subseteq r.here /\ q.some \subseteq r.some /\ q.none \subseteq r.none
    /\ r.facts \ {"past"} \subseteq q.facts
    /\ "past" \in r.facts => Moved(q)

\* What of it is passed to a function, and what each kind of step makes of it.
Mood(q) == q.facts \cap {"trial", "settled"}
Pass(q) == IF Moved(q) THEN {"past"} ELSE {}
Blame == {"answered", "blamed"}
Excuse == {"excused", "ended", "gone"}

Consumed(q, k) ==
    [here |-> Kind, some |-> {}, none |-> {},
     facts |-> Mood(q) \cup {"past"} \cup (IF k = {";"} THEN Blame ELSE {})
                 \cup (IF "excused" \in q.facts THEN Excuse ELSE {})]
Among(q, k) == [here |-> q.here \cap k, some |-> q.some \cap k, none |-> q.none \cap k, facts |-> q.facts]
Without(q, k) == [here |-> q.here \ k, some |-> q.some \ k, none |-> q.none \ k, facts |-> q.facts]
With(q, f) == [here |-> q.here, some |-> q.some, none |-> q.none, facts |-> q.facts \cup f]
Reported(q) == With(q, Blame)
Succeeded(q) == [here |-> q.here, some |-> q.some, none |-> {}, facts |-> q.facts \cup {"answered"}]
Failed(q) ==
    [here |-> q.here, some |-> {}, none |-> q.none,
     facts |-> q.facts \cup (IF "answered" \in q.facts THEN {"blamed"} ELSE {})]
Recovering(q) ==
    [here |-> q.here, some |-> q.some, none |-> q.none,
     facts |-> (q.facts \cap {"trial", "settled", "past"})
                 \cup (IF "blamed" \in q.facts THEN {"ended", "gone"} ELSE {})]
NotEnded(q) == With(q, IF "ended" \in q.facts THEN {"excused"} ELSE {})
Still(q, name) == With(q, IF name = "statements" /\ "gone" \in q.facts THEN {"excused"} ELSE {})
Left(q) == [here |-> q.here, some |-> {}, none |-> {}, facts |-> q.facts]
Reset(f) == [here |-> Kind, some |-> {}, none |-> {}, facts |-> f]
Open(k, f) == [here |-> k, some |-> k, none |-> k, facts |-> f]

\* Contracts.  What the token can be if a function consumes none.
Takes == {"type_name", "type_full", "qualified_name", "qualified_name_with_keywords", "primary",
          "postfix", "unary", "binary", "conditional", "assignment", "expression", "statement",
          "asm_operand", "asm_body", "enum", "method", "property", "declaration",
          "declaration_inner", "compound_statement"}
Opener == {"raw_pragma_decl", "class_interface", "class_implementation", "protocol",
           "forward_class", "namespace", "using"}
Stays(g, answer) ==
    IF g \in Opener THEN {"eof"} ELSE IF g \in Takes /\ answer THEN {} ELSE Kind
Answers == {"statement", "asm_operand", "asm_body", "raw_pragma_decl", "compound_statement"}
TypeFunction == {"type_name", "type_full", "qualified_name"}
First_token(g) == IF g = "compound_statement" THEN {"{"} ELSE Kind
Function == DOMAIN Program
\* A function calls only functions of a smaller rank where it was called.
Rank(g) ==
    IF g \in {"type_name", "postfix", "class_implementation", "namespace"} THEN 1
    ELSE IF g \in {"type_full", "unary"} THEN 2
    ELSE IF g \in {"binary", "typedef", "struct_body", "property", "using", "block_literal",
                   "function_decl_or_definition"} THEN 3
    ELSE IF g \in {"conditional", "interface_body", "declaration_inner"} THEN 4
    ELSE IF g \in {"assignment", "declaration"} THEN 5
    ELSE IF g = "expression" THEN 6
    ELSE IF g = "statement" THEN 7
    ELSE IF g = "translation_unit" THEN 8
    ELSE 0

\* After a call; at the start and at the end of a turn of a loop; where a loop is left.
Returned(q, g) ==
    [here |-> Kind, some |-> Stayed(q) \cap Stays(g, TRUE), none |-> Stayed(q) \cap Stays(g, FALSE),
     facts |-> Mood(q) \cup Pass(q) \cup (IF g \in Answers THEN {"answered"} ELSE {})]
Turning(q, name) ==
    Mood(q) \cup Pass(q) \cup (IF name = "synchronize" THEN q.facts \cap {"ended", "gone"} ELSE {})
Turned(q, name) ==
    IF name = "ivars" THEN Open(Kind, Turning(q, name)) ELSE Reset(Turning(q, name))
Leaving(q, k) == [here |-> q.here, some |-> q.some \cap k, none |-> q.none \cap k, facts |-> q.facts]

\* Where a step stands: in which function, in which loop of it, and what is
\* known after the loop and before its next turn.
Anything == Open(Kind, {})
InFunction(g, mood) ==
    [f |-> g, mood |-> mood, loop |-> "none", keep |-> {}, exit |-> Anything, next |-> Anything]
InLoop(c, name, q, r) ==
    [f |-> c.f, mood |-> c.mood, loop |-> name, keep |-> Stayed(q), exit |-> r,
     next |-> Turned(q, name)]

Ops == {"need", "cases", "look", "ahead", "skip", "drop", "error", "recover", "choose", "ifok",
        "ifpanic", "aftersemi", "still", "call", "return", "loop", "break", "continue",
        "speculate", "commit", "rewind"}

\* A sequence of steps that takes q to r, each of whose steps is in R.
IsSeq(s) == \E S : s \in Seq(S)
Linked(v, n, q, r) ==
    IF n = 0 THEN Implies(q, r)
    ELSE Implies(q, v[1].q) /\ Implies(v[n].r, r) /\ \A i \in 1 .. n - 1 : Implies(v[i].r, v[i + 1].q)
In(R, c, p, q, r) ==
    /\ IsSeq(p)
    /\ \E v : Linked(v, Len(p), q, r) /\ \A i \in 1 .. Len(p) : <<c, p[i], v[i].q, v[i].r>> \in R

\* One step x at the place c: if q holds before it, r holds after it, and the
\* programs inside x are made of steps of R.  What a called function does is its
\* contract; a loop may go on to a turn only as Turned says.
Rule(R, c, x, q, r) ==
    /\ x.op \in Ops
    /\ x.op = "need" =>
          /\ "eof" \notin x.kinds
          /\ Implies(Consumed(q, x.kinds), r) /\ Implies(Reported(Without(q, x.kinds)), r)
    /\ x.op = "cases" =>
          /\ \A i \in DOMAIN x.alternatives :
                /\ "eof" \notin x.alternatives[i].kinds
                /\ In(R, c, x.alternatives[i].body, Consumed(q, x.alternatives[i].kinds), r)
          /\ In(R, c, x.no, Without(q, UNION {x.alternatives[i].kinds : i \in DOMAIN x.alternatives}), r)
    /\ x.op = "look" => In(R, c, x.yes, Among(q, x.kinds), r) /\ In(R, c, x.no, Without(q, x.kinds), r)
    /\ x.op \in {"ahead", "choose"} => In(R, c, x.yes, q, r) /\ In(R, c, x.no, q, r)
    /\ x.op = "skip" => Implies(Consumed(q, Kind), r) /\ Implies(Among(q, {"eof"}), r)
    /\ x.op = "drop" =>
          "eof" \notin q.here /\ "excused" \in q.facts /\ Implies(Consumed(q, Kind), r)
    /\ x.op = "error" => Implies(Reported(q), r)
    /\ x.op = "recover" => Implies(Recovering(q), r)
    /\ x.op = "ifok" => In(R, c, x.yes, Succeeded(q), r) /\ In(R, c, x.no, Failed(q), r)
    /\ x.op = "ifpanic" => In(R, c, x.yes, Reported(q), r) /\ In(R, c, x.no, q, r)
    /\ x.op = "aftersemi" => In(R, c, x.yes, q, r) /\ In(R, c, x.no, NotEnded(q), r)
    /\ x.op = "still" =>
          /\ c.loop # "none"
          /\ In(R, c, x.yes, Still(q, c.loop), r) /\ In(R, c, x.no, Left(q), r)
    /\ x.op = "call" =>
          /\ x.f \in Function /\ q.here \subseteq First_token(x.f)
          /\ Moved(q) \/ Rank(x.f) < Rank(c.f)
          /\ (Mood(q) = {"settled"} /\ c.mood = "settled") \/ (Mood(q) = {"trial"} /\ x.f \in TypeFunction)
          /\ Implies(Returned(q, x.f), r)
    /\ x.op = "return" =>
          /\ c.f \in Function /\ Mood(q) = {c.mood}
          /\ Moved(q) \/ Stayed(q) \subseteq Stays(c.f, x.ok)
          /\ ~x.ok /\ c.f \in Answers => "blamed" \in q.facts
    /\ x.op = "loop" =>
          /\ Mood(q) = {c.mood}
          /\ In(R, InLoop(c, x.name, q, r), x.body, Open(Kind, Turning(q, x.name)), Turned(q, x.name))
    /\ x.op = "break" => c.loop # "none" /\ Implies(Leaving(q, c.keep), c.exit)
    /\ x.op = "continue" => c.loop # "none" /\ Implies(q, c.next)
    /\ x.op = "speculate" =>
          Mood(q) = {"settled"} /\ Stayed(q) = {} /\ Implies(Reset({"trial", "past"}), r)
    /\ x.op \in {"commit", "rewind"} =>
          Mood(q) = {"trial"} /\ c.mood = "settled" /\ Implies(Reset({"settled", "past"}), r)

\* A step fits if it is in a set of steps that is closed under the rules: no
\* recursion over the programs is needed, however they nest.
Closed(R) == \A c, x, q, r : <<c, x, q, r>> \in R => Rule(R, c, x, q, r)
Fits(c, x, q, r) == \E R : Closed(R) /\ <<c, x, q, r>> \in R
Chain(c, p, q, r) ==
    /\ IsSeq(p)
    /\ \E v : Linked(v, Len(p), q, r) /\ \A i \in 1 .. Len(p) : Fits(c, p[i], v[i].q, v[i].r)

-----------------------------------------------------------------------------
LEMMA InMonotone ==
    ASSUME NEW R, NEW S, R \subseteq S, NEW c, NEW p, NEW q, NEW r, In(R, c, p, q, r)
    PROVE  In(S, c, p, q, r)
BY DEF In

LEMMA RuleMonotone ==
    ASSUME NEW R, NEW S, R \subseteq S, NEW c, NEW x, NEW q, NEW r, Rule(R, c, x, q, r)
    PROVE  Rule(S, c, x, q, r)
BY InMonotone DEF Rule

LEMMA ClosedUnion ==
    ASSUME NEW RR, \A R \in RR : Closed(R)
    PROVE  Closed(UNION RR)
<1> SUFFICES ASSUME NEW c, NEW x, NEW q, NEW r, <<c, x, q, r>> \in UNION RR
             PROVE  Rule(UNION RR, c, x, q, r)
  BY DEF Closed
<1>1. PICK R \in RR : <<c, x, q, r>> \in R
  OBVIOUS
<1>2. Rule(R, c, x, q, r)
  BY <1>1 DEF Closed
<1> QED
  BY <1>2, RuleMonotone

LEMMA ChainIn ==
    ASSUME NEW c, NEW p, NEW q, NEW r, Chain(c, p, q, r)
    PROVE  \E R : Closed(R) /\ In(R, c, p, q, r)
<1>1. PICK v : Linked(v, Len(p), q, r) /\ \A i \in 1 .. Len(p) : Fits(c, p[i], v[i].q, v[i].r)
  BY DEF Chain
<1> DEFINE G(i) == CHOOSE R : Closed(R) /\ <<c, p[i], v[i].q, v[i].r>> \in R
           RR == {G(i) : i \in 1 .. Len(p)}
<1>2. ASSUME NEW i \in 1 .. Len(p) PROVE Closed(G(i)) /\ <<c, p[i], v[i].q, v[i].r>> \in G(i)
  BY <1>1 DEF Fits
<1>3. Closed(UNION RR)
  BY <1>2, ClosedUnion
<1>4. \A i \in 1 .. Len(p) : <<c, p[i], v[i].q, v[i].r>> \in UNION RR
  BY <1>2
<1>5. In(UNION RR, c, p, q, r)
  BY <1>1, <1>4 DEF In, Chain
<1> QED
  BY <1>3, <1>5

LEMMA InChain ==
    ASSUME NEW R, Closed(R), NEW c, NEW p, NEW q, NEW r, In(R, c, p, q, r)
    PROVE  Chain(c, p, q, r)
BY DEF In, Chain, Fits

LEMMA Built ==
    ASSUME NEW R, Closed(R), NEW c, NEW x, NEW q, NEW r, Rule(R, c, x, q, r)
    PROVE  Fits(c, x, q, r)
<1> DEFINE S == R \cup {<<c, x, q, r>>}
<1>1. ASSUME NEW d, NEW y, NEW s, NEW t, <<d, y, s, t>> \in S PROVE Rule(S, d, y, s, t)
  <2>1. CASE <<d, y, s, t>> \in R
    BY <2>1, RuleMonotone DEF Closed
  <2>2. CASE <<d, y, s, t>> = <<c, x, q, r>>
    <3>1. d = c /\ y = x /\ s = q /\ t = r
      BY <2>2
    <3> QED
      BY <3>1, RuleMonotone
  <2> QED
    BY <1>1, <2>1, <2>2
<1>2. Closed(S)
  BY <1>1 DEF Closed
<1> QED
  BY <1>2 DEF Fits

\* Two chains are chains of one closed set.
LEMMA TwoChains ==
    ASSUME NEW c, NEW p, NEW q, NEW r, Chain(c, p, q, r),
           NEW d, NEW s, NEW t, NEW u, Chain(d, s, t, u)
    PROVE  \E R : Closed(R) /\ In(R, c, p, q, r) /\ In(R, d, s, t, u)
<1>1. PICK R : Closed(R) /\ In(R, c, p, q, r)
  BY ChainIn
<1>2. PICK S : Closed(S) /\ In(S, d, s, t, u)
  BY ChainIn
<1>3. Closed(UNION {R, S})
  <2>1. \A X \in {R, S} : Closed(X)
    BY <1>1, <1>2
  <2> QED
    BY <2>1, ClosedUnion
<1>4. In(UNION {R, S}, c, p, q, r) /\ In(UNION {R, S}, d, s, t, u)
  BY <1>1, <1>2, InMonotone
<1> QED
  BY <1>3, <1>4

LEMMA FitsLook ==
    ASSUME NEW c, NEW k, NEW yes, NEW no, NEW q, NEW r,
           Chain(c, yes, Among(q, k), r), Chain(c, no, Without(q, k), r)
    PROVE  Fits(c, Look(k, yes, no), q, r)
<1>1. PICK R : Closed(R) /\ In(R, c, yes, Among(q, k), r) /\ In(R, c, no, Without(q, k), r)
  BY TwoChains
<1>2. Rule(R, c, Look(k, yes, no), q, r)
  BY <1>1 DEF Rule, Look, Ops
<1> QED
  BY <1>1, <1>2, Built

LEMMA FitsFork ==
    ASSUME NEW c, NEW k, NEW yes, NEW no, NEW q, NEW r, Chain(c, yes, q, r), Chain(c, no, q, r)
    PROVE  Fits(c, Ahead(k, yes, no), q, r) /\ Fits(c, Choose(yes, no), q, r)
<1>1. PICK R : Closed(R) /\ In(R, c, yes, q, r) /\ In(R, c, no, q, r)
  BY TwoChains
<1>2. Rule(R, c, Ahead(k, yes, no), q, r) /\ Rule(R, c, Choose(yes, no), q, r)
  BY <1>1 DEF Rule, Ahead, Choose, Ops
<1> QED
  BY <1>1, <1>2, Built

LEMMA FitsIfOk ==
    ASSUME NEW c, NEW yes, NEW no, NEW q, NEW r,
           Chain(c, yes, Succeeded(q), r), Chain(c, no, Failed(q), r)
    PROVE  Fits(c, IfOk(yes, no), q, r)
<1>1. PICK R : Closed(R) /\ In(R, c, yes, Succeeded(q), r) /\ In(R, c, no, Failed(q), r)
  BY TwoChains
<1>2. Rule(R, c, IfOk(yes, no), q, r)
  BY <1>1 DEF Rule, IfOk, Ops
<1> QED
  BY <1>1, <1>2, Built

LEMMA FitsNeed ==
    ASSUME NEW c, NEW k, "eof" \notin k, NEW q, NEW r,
           Implies(Consumed(q, k), r), Implies(Reported(Without(q, k)), r)
    PROVE  Fits(c, Need(k), q, r)
<1>1. Rule({}, c, Need(k), q, r) /\ Closed({})
  BY DEF Rule, Need, Ops, Closed
<1> QED
  BY <1>1, Built

LEMMA FitsCall ==
    ASSUME NEW c, NEW g \in Function, NEW q, NEW r,
           q.here \subseteq First_token(g),
           Moved(q) \/ Rank(g) < Rank(c.f),
           (Mood(q) = {"settled"} /\ c.mood = "settled") \/ (Mood(q) = {"trial"} /\ g \in TypeFunction),
           Implies(Returned(q, g), r)
    PROVE  Fits(c, Call(g), q, r)
<1>1. Rule({}, c, Call(g), q, r) /\ Closed({})
  BY DEF Rule, Call, Ops, Closed
<1> QED
  BY <1>1, Built

LEMMA FitsCases ==
    ASSUME NEW c, NEW a, NEW no, NEW q, NEW r,
           \A i \in DOMAIN a : "eof" \notin a[i].kinds /\ Chain(c, a[i].body, Consumed(q, a[i].kinds), r),
           Chain(c, no, Without(q, UNION {a[i].kinds : i \in DOMAIN a}), r)
    PROVE  Fits(c, Cases(a, no), q, r)
<1> DEFINE all == UNION {a[i].kinds : i \in DOMAIN a}
           Good(i, R) == Closed(R) /\ In(R, c, a[i].body, Consumed(q, a[i].kinds), r)
           G(i) == CHOOSE R : Good(i, R)
           RR == {G(i) : i \in DOMAIN a}
<1>1. ASSUME NEW i \in DOMAIN a PROVE Good(i, G(i))
  <2>1. \E R : Good(i, R)
    BY ChainIn
  <2> QED
    BY <2>1
<1>2. PICK S : Closed(S) /\ In(S, c, no, Without(q, all), r)
  BY ChainIn
<1> DEFINE T == UNION (RR \cup {S})
<1>3. Closed(T)
  <2>1. \A R \in RR \cup {S} : Closed(R)
    BY <1>1, <1>2
  <2> QED
    BY <2>1, ClosedUnion
<1>4. \A i \in DOMAIN a : In(T, c, a[i].body, Consumed(q, a[i].kinds), r)
  BY <1>1, InMonotone
<1>5. In(T, c, no, Without(q, all), r)
  BY <1>2, InMonotone
<1>6. Rule(T, c, Cases(a, no), q, r)
  BY <1>4, <1>5 DEF Rule, Cases, Ops
<1> QED
  BY <1>3, <1>6, Built

LEMMA FitsLoop ==
    ASSUME NEW c, NEW name, NEW body, NEW q, NEW r,
           Mood(q) = {c.mood},
           Chain(InLoop(c, name, q, r), body, Open(Kind, Turning(q, name)), Turned(q, name))
    PROVE  Fits(c, Loop(name, body), q, r)
<1>1. PICK R : Closed(R) /\ In(R, InLoop(c, name, q, r), body, Open(Kind, Turning(q, name)), Turned(q, name))
  BY ChainIn
<1>2. Rule(R, c, Loop(name, body), q, r)
  BY <1>1 DEF Rule, Loop, Ops
<1> QED
  BY <1>1, <1>2, Built

LEMMA FitsBreak ==
    ASSUME NEW c, c.loop # "none", NEW q, NEW r, Implies(Leaving(q, c.keep), c.exit)
    PROVE  Fits(c, Break, q, r)
<1>1. Rule({}, c, Break, q, r) /\ Closed({})
  BY DEF Rule, Break, Ops, Closed
<1> QED
  BY <1>1, Built

\* A step or a program that keeps what is known: the token is one of K if none
\* was consumed, and p is {"past"} if one was consumed in the function.
At(m, K, p) == [here |-> Kind, some |-> K, none |-> K, facts |-> {m} \cup p]
Past == {"past"}
Keeps(c, K, p, x) == Fits(c, x, At(c.mood, K, p), At(c.mood, K, p))
AllKeep(c, K, p, s) == IsSeq(s) /\ \A i \in 1 .. Len(s) : Keeps(c, K, p, s[i])
Context(c) == c.mood \in {"trial", "settled"}
Case(K, p) == K \in SUBSET Kind /\ (p = Past \/ (p = {} /\ K # {}))

LEMMA SameOps ==
    ASSUME NEW q \in Known PROVE Implies(q, q)
BY DEF Implies, Known, Moved

LEMMA AllKeepChain ==
    ASSUME NEW c, Context(c), NEW K, NEW p, Case(K, p), NEW s, AllKeep(c, K, p, s)
    PROVE  Chain(c, s, At(c.mood, K, p), At(c.mood, K, p))
<1> DEFINE v == [i \in 1 .. Len(s) |-> [q |-> At(c.mood, K, p), r |-> At(c.mood, K, p)]]
<1>1. Implies(At(c.mood, K, p), At(c.mood, K, p))
  BY DEF Implies, At, Moved
<1>2. Len(s) \in Nat
  BY DEF AllKeep, IsSeq
<1>3. Linked(v, Len(s), At(c.mood, K, p), At(c.mood, K, p))
  BY <1>1, <1>2 DEF Linked
<1>4. \A i \in 1 .. Len(s) : Fits(c, s[i], v[i].q, v[i].r)
  BY DEF AllKeep, Keeps
<1> QED
  BY <1>3, <1>4 DEF Chain, AllKeep

LEMMA Weaken ==
    ASSUME NEW c, NEW s, NEW q, NEW r, NEW t, NEW u, Chain(c, s, q, r), Implies(t, q), Implies(r, u)
    PROVE  Chain(c, s, t, u)
<1>1. PICK v : Linked(v, Len(s), q, r) /\ \A i \in 1 .. Len(s) : Fits(c, s[i], v[i].q, v[i].r)
  BY DEF Chain
<1>2. \A a, b, d : Implies(a, b) /\ Implies(b, d) => Implies(a, d)
  BY DEF Implies, Moved, Stayed
<1>3. Linked(v, Len(s), t, u)
  BY <1>1, <1>2 DEF Linked
<1> QED
  BY <1>1, <1>3 DEF Chain

-----------------------------------------------------------------------------
(* The steps that are left, each with where it stands and what is known      *)
(* before and after it.                                                      *)
\* A frame is an open call or an open turn of a loop: its mark on the steps left
\* (x), where it stands (c), and what is known before and after it (q and r).
IsFrame(s) == s.x.op \in {"end", "again"}
Origin(x) == IF x.op = "end" THEN Call(x.f) ELSE IF x.op = "again" THEN Loop(x.name, x.body) ELSE x
MoodOf(q) == IF "settled" \in q.facts THEN "settled" ELSE "trial"
Around(s) ==
    IF s.x.op = "again" THEN InLoop(s.c, s.x.name, s.q, s.r)
    ELSE IF s.x.op = "end" THEN InFunction(s.x.f, MoodOf(s.q)) ELSE s.c

\* What must hold where the turn of a loop, or the function, ends.
Before(s) == IF s.x.op = "again" THEN Turned(s.q, s.x.name) ELSE s.q
Outermost == InFunction("translation_unit", "settled")
Where(z) == IF z = <<>> THEN Outermost ELSE Around(z[1])
Meets(r, z) == z = <<>> \/ z[1].x.op = "end" \/ Implies(r, Before(z[1]))

\* A stack z: its steps are those left to do, each known to fit.
Steps(z) == [i \in 1 .. Len(z) |-> z[i].x]
Stack(z) ==
    /\ IsSeq(z)
    /\ \A i \in 1 .. Len(z) :
          /\ Fits(z[i].c, Origin(z[i].x), z[i].q, z[i].r)
          /\ i = Len(z) => z[i].c = Outermost
          /\ i < Len(z) => /\ z[i].c = Around(z[i + 1])
                           /\ z[i + 1].x.op = "end" \/ Implies(z[i].r, Before(z[i + 1]))

\* Its frames, and which is above which.
Frames(z) == {z[i] : i \in {j \in 1 .. Len(z) : IsFrame(z[j])}}
Pairs(z) ==
    {<<z[p[1]], z[p[2]]>> : p \in {k \in (1 .. Len(z)) \X (1 .. Len(z)) :
                                      k[1] < k[2] /\ IsFrame(z[k[1]]) /\ IsFrame(z[k[2]])}}

LEMMA FramesAre ==
    ASSUME NEW z, NEW s
    PROVE  s \in Frames(z) <=> \E i \in 1 .. Len(z) : s = z[i] /\ IsFrame(z[i])
BY DEF Frames

LEMMA PairsAre ==
    ASSUME NEW z, NEW s, NEW t
    PROVE  <<s, t>> \in Pairs(z) <=> \E i, j \in 1 .. Len(z) : i < j /\ s = z[i] /\ t = z[j]
                                                               /\ IsFrame(z[i]) /\ IsFrame(z[j])
<1>1. ASSUME <<s, t>> \in Pairs(z)
      PROVE  \E i, j \in 1 .. Len(z) : i < j /\ s = z[i] /\ t = z[j] /\ IsFrame(z[i]) /\ IsFrame(z[j])
  <2>1. PICK p \in (1 .. Len(z)) \X (1 .. Len(z)) :
           p[1] < p[2] /\ IsFrame(z[p[1]]) /\ IsFrame(z[p[2]]) /\ <<s, t>> = <<z[p[1]], z[p[2]]>>
    BY <1>1 DEF Pairs
  <2> QED
    BY <2>1
<1>2. ASSUME NEW i \in 1 .. Len(z), NEW j \in 1 .. Len(z), i < j, s = z[i], t = z[j],
             IsFrame(z[i]), IsFrame(z[j])
      PROVE  <<s, t>> \in Pairs(z)
  <2> DEFINE p == <<i, j>>
  <2>1. p \in {k \in (1 .. Len(z)) \X (1 .. Len(z)) : k[1] < k[2] /\ IsFrame(z[k[1]]) /\ IsFrame(z[k[2]])}
    BY <1>2
  <2>2. <<s, t>> = <<z[p[1]], z[p[2]]>>
    BY <1>2
  <2> QED
    BY <2>1, <2>2 DEF Pairs
<1> QED
  BY <1>1, <1>2

LEMMA Concatenated ==
    ASSUME NEW s, NEW t, IsSeq(s), IsSeq(t)
    PROVE  /\ IsSeq(s \o t) /\ Len(s) \in Nat /\ Len(t) \in Nat /\ Len(s \o t) = Len(s) + Len(t)
           /\ \A i \in 1 .. Len(s) : (s \o t)[i] = s[i]
           /\ \A i \in 1 .. Len(t) : (s \o t)[Len(s) + i] = t[i]
<1>1. PICK S, T : s \in Seq(S) /\ t \in Seq(T)
  BY DEF IsSeq
<1>2. s \in Seq(S \cup T) /\ t \in Seq(S \cup T)
  BY <1>1
<1>3. s \o t \in Seq(S \cup T)
  BY <1>2
<1> QED
  BY <1>2, <1>3 DEF IsSeq

LEMMA Same ==
    ASSUME NEW s, NEW t, IsSeq(s), IsSeq(t), Len(s) = Len(t), \A i \in 1 .. Len(s) : s[i] = t[i]
    PROVE  s = t
<1>1. PICK S, T : s \in Seq(S) /\ t \in Seq(T)
  BY DEF IsSeq
<1>2. s \in Seq(S \cup T) /\ t \in Seq(S \cup T)
  BY <1>1
<1> QED
  BY <1>2, SeqEqual

LEMMA StepsAre ==
    ASSUME NEW z, IsSeq(z)
    PROVE  IsSeq(Steps(z)) /\ Len(Steps(z)) = Len(z) /\ \A i \in 1 .. Len(z) : Steps(z)[i] = z[i].x
<1>1. Len(z) \in Nat
  BY DEF IsSeq
<1>2. Steps(z) \in Seq({z[i].x : i \in 1 .. Len(z)})
  BY <1>1 DEF Steps
<1>3. DOMAIN Steps(z) = 1 .. Len(z)
  BY DEF Steps
<1>4. Len(Steps(z)) = Len(z)
  BY <1>1, <1>2, <1>3, LenProperties
<1> QED
  BY <1>2, <1>4 DEF Steps, IsSeq

LEMMA ImpliesTrans ==
    \A q, r, s : Implies(q, r) /\ Implies(r, s) => Implies(q, s)
<1> SUFFICES ASSUME NEW q, NEW r, NEW s, Implies(q, r), Implies(r, s)
             PROVE  Implies(q, s)
  OBVIOUS
<1>1. q.here \subseteq s.here /\ q.some \subseteq s.some /\ q.none \subseteq s.none
  BY DEF Implies
<1>2. s.facts \ {"past"} \subseteq q.facts
  BY DEF Implies
<1>3. Moved(r) => Moved(q)
  <2>1. Stayed(q) \subseteq Stayed(r)
    BY DEF Implies, Stayed
  <2> QED
    BY <2>1 DEF Implies, Moved
<1>4. "past" \in s.facts => Moved(q)
  BY <1>3 DEF Implies
<1> QED
  BY <1>1, <1>2, <1>4 DEF Implies

LEMMA FitsRule ==
    ASSUME NEW c, NEW x, NEW q, NEW r, Fits(c, x, q, r)
    PROVE  \E R : Closed(R) /\ Rule(R, c, x, q, r)
BY DEF Fits, Closed

LEMMA FitsOps ==
    ASSUME NEW c, NEW x, NEW q, NEW r, Fits(c, x, q, r)
    PROVE  x.op \in Ops /\ x.op # "end" /\ x.op # "again"
<1>1. x.op \in Ops
  BY FitsRule DEF Rule
<1> QED
  BY <1>1 DEF Ops

\* A program put above a stack.
LEMMA StackPush ==
    ASSUME NEW z, Stack(z), NEW s, NEW q, NEW r, Chain(Where(z), s, q, r), Meets(r, z)
    PROVE  \E y : /\ Stack(y) /\ Steps(y) = s \o Steps(z) /\ Meets(q, y)
                  /\ Frames(y) = Frames(z) /\ Pairs(y) = Pairs(z) /\ Where(y) = Where(z)
<1>1. PICK v : Linked(v, Len(s), q, r) /\ \A i \in 1 .. Len(s) : Fits(Where(z), s[i], v[i].q, v[i].r)
  BY DEF Chain
<1> DEFINE a == [i \in 1 .. Len(s) |-> [x |-> s[i], c |-> Where(z), q |-> v[i].q, r |-> v[i].r]]
           y == a \o z
<1>2. Len(s) \in Nat /\ IsSeq(s) /\ IsSeq(z) /\ Len(z) \in Nat
  BY DEF Chain, Stack, IsSeq
<1>3. IsSeq(a) /\ Len(a) = Len(s)
  <2>1. a \in Seq({a[i] : i \in 1 .. Len(s)})
    BY <1>2
  <2>2. DOMAIN a = 1 .. Len(s)
    OBVIOUS
  <2> HIDE DEF a
  <2>3. Len(a) = Len(s)
    BY <2>1, <2>2, <1>2, LenProperties
  <2> QED
    BY <2>1, <2>3 DEF IsSeq
<1>4. \A i \in 1 .. Len(s) :
         /\ a[i].x = s[i] /\ a[i].c = Where(z) /\ a[i].q = v[i].q /\ a[i].r = v[i].r
         /\ ~IsFrame(a[i]) /\ Origin(a[i].x) = s[i] /\ Around(a[i]) = Where(z) /\ Before(a[i]) = v[i].q
         /\ a[i].x.op # "end"
  <2> SUFFICES ASSUME NEW i \in 1 .. Len(s)
               PROVE  /\ a[i].x = s[i] /\ a[i].c = Where(z) /\ a[i].q = v[i].q /\ a[i].r = v[i].r
                      /\ ~IsFrame(a[i]) /\ Origin(a[i].x) = s[i] /\ Around(a[i]) = Where(z)
                      /\ Before(a[i]) = v[i].q /\ a[i].x.op # "end"
    OBVIOUS
  <2>1. a[i].x = s[i] /\ a[i].c = Where(z) /\ a[i].q = v[i].q /\ a[i].r = v[i].r
    OBVIOUS
  <2>2. s[i].op # "end" /\ s[i].op # "again"
    BY <1>1, FitsOps
  <2> HIDE DEF a
  <2> QED
    BY <2>1, <2>2 DEF IsFrame, Origin, Around, Before
<1> HIDE DEF a
<1>5. /\ IsSeq(y) /\ Len(y) = Len(s) + Len(z) /\ Len(y) \in Nat
      /\ \A i \in 1 .. Len(s) : y[i] = a[i]
      /\ \A i \in 1 .. Len(z) : y[Len(s) + i] = z[i]
  BY <1>2, <1>3, Concatenated
<1> HIDE DEF y
<1>6. ASSUME NEW i \in 1 .. Len(y), i > Len(s)
      PROVE  \E j \in 1 .. Len(z) : i = Len(s) + j /\ y[i] = z[j]
  <2>1. i - Len(s) \in 1 .. Len(z) /\ i = Len(s) + (i - Len(s))
    BY <1>2, <1>5, <1>6
  <2> QED
    BY <2>1, <1>5
<1>7. Steps(y) = s \o Steps(z)
  <2>1. /\ IsSeq(Steps(y)) /\ Len(Steps(y)) = Len(y) /\ IsSeq(Steps(z)) /\ Len(Steps(z)) = Len(z)
        /\ \A i \in 1 .. Len(y) : Steps(y)[i] = y[i].x
        /\ \A i \in 1 .. Len(z) : Steps(z)[i] = z[i].x
    BY <1>2, <1>5, StepsAre
  <2>2. /\ IsSeq(s \o Steps(z)) /\ Len(s \o Steps(z)) = Len(s) + Len(z)
        /\ \A i \in 1 .. Len(s) : (s \o Steps(z))[i] = s[i]
        /\ \A i \in 1 .. Len(z) : (s \o Steps(z))[Len(s) + i] = z[i].x
    <3> DEFINE u == Steps(z)
    <3>1. IsSeq(u) /\ Len(u) = Len(z) /\ \A i \in 1 .. Len(z) : u[i] = z[i].x
      BY <2>1
    <3> HIDE DEF u
    <3>2. /\ IsSeq(s \o u) /\ Len(s \o u) = Len(s) + Len(u)
          /\ \A i \in 1 .. Len(s) : (s \o u)[i] = s[i]
          /\ \A i \in 1 .. Len(u) : (s \o u)[Len(s) + i] = u[i]
      BY <1>2, <3>1, Concatenated
    <3>3. \A i \in 1 .. Len(z) : (s \o u)[Len(s) + i] = z[i].x
      BY <3>1, <3>2
    <3> QED
      BY <3>1, <3>2, <3>3 DEF u
  <2>3. ASSUME NEW i \in 1 .. Len(y) PROVE Steps(y)[i] = (s \o Steps(z))[i]
    <3>1. CASE i <= Len(s)
      BY <3>1, <1>2, <1>4, <1>5, <2>1, <2>2
    <3>2. CASE i > Len(s)
      <4>1. PICK j \in 1 .. Len(z) : i = Len(s) + j /\ y[i] = z[j]
        BY <3>2, <1>6
      <4> QED
        BY <4>1, <2>1, <2>2
    <3>3. i <= Len(s) \/ i > Len(s)
      BY <1>2, <1>5
    <3> QED
      BY <3>1, <3>2, <3>3
  <2> QED
    BY <2>1, <2>2, <2>3, <1>5, Same
<1>8. Meets(q, y) /\ Where(y) = Where(z)
  <2>1. CASE Len(s) = 0
    <3>1. Implies(q, r) /\ Len(y) = Len(z)
      BY <2>1, <1>1, <1>2, <1>5 DEF Linked
    <3>2. \A i \in 1 .. Len(z) : y[i] = z[i]
      BY <1>5, <1>2, <2>1
    <3>3. y = z
      BY <1>2, <1>5, <3>1, <3>2, Same
    <3> QED
      BY <3>1, <3>3, ImpliesTrans DEF Meets
  <2>2. CASE Len(s) # 0
    <3>1. 1 \in 1 .. Len(s) /\ Implies(q, v[1].q) /\ y # <<>>
      BY <2>2, <1>1, <1>2, <1>5 DEF Linked
    <3> QED
      BY <3>1, <1>4, <1>5 DEF Meets, Where
  <2> QED
    BY <2>1, <2>2
<1>9. Stack(y)
  <2> SUFFICES ASSUME NEW i \in 1 .. Len(y)
               PROVE  /\ Fits(y[i].c, Origin(y[i].x), y[i].q, y[i].r)
                      /\ i = Len(y) => y[i].c = Outermost
                      /\ i < Len(y) => /\ y[i].c = Around(y[i + 1])
                                       /\ y[i + 1].x.op = "end" \/ Implies(y[i].r, Before(y[i + 1]))
    BY <1>5 DEF Stack
  <2>1. CASE i > Len(s)
    <3>1. PICK j \in 1 .. Len(z) : i = Len(s) + j /\ y[i] = z[j]
      BY <2>1, <1>6
    <3>2. ASSUME j < Len(z) PROVE y[i + 1] = z[j + 1]
      <4>1. j + 1 \in 1 .. Len(z) /\ i + 1 = Len(s) + (j + 1)
        BY <3>1, <3>2, <1>2
      <4>2. y[Len(s) + (j + 1)] = z[j + 1]
        BY <4>1, <1>5
      <4> QED
        BY <4>1, <4>2
    <3>3. /\ Fits(z[j].c, Origin(z[j].x), z[j].q, z[j].r)
          /\ j = Len(z) => z[j].c = Outermost
          /\ j < Len(z) => /\ z[j].c = Around(z[j + 1])
                           /\ z[j + 1].x.op = "end" \/ Implies(z[j].r, Before(z[j + 1]))
      BY DEF Stack
    <3>4. (i = Len(y) => j = Len(z)) /\ (i < Len(y) => j < Len(z))
      BY <3>1, <1>2, <1>5
    <3> QED
      BY <3>1, <3>2, <3>3, <3>4
  <2>2. CASE i < Len(s)
    <3>1. i \in 1 .. Len(s) /\ i + 1 \in 1 .. Len(s) /\ i < Len(y) /\ y[i] = a[i] /\ y[i + 1] = a[i + 1]
      BY <2>2, <1>2, <1>5
    <3>2. Implies(v[i].r, v[i + 1].q)
      BY <3>1, <2>2, <1>1, <1>2 DEF Linked
    <3> QED
      BY <3>1, <3>2, <1>1, <1>4, <1>2, <1>5
  <2>3. CASE i = Len(s)
    <3>1. i \in 1 .. Len(s) /\ y[i] = a[i] /\ Implies(v[i].r, r)
      BY <2>3, <1>1, <1>2, <1>5 DEF Linked
    <3>2. Fits(y[i].c, Origin(y[i].x), y[i].q, y[i].r) /\ y[i].c = Where(z)
      BY <3>1, <1>1, <1>4
    <3>3. CASE Len(z) = 0
      <4>1. z = <<>>
        BY <3>3, <1>2 DEF IsSeq
      <4> QED
        BY <4>1, <3>2, <3>3, <2>3, <1>2, <1>5 DEF Where
    <3>4. CASE Len(z) # 0
      <4>1. 1 \in 1 .. Len(z) /\ y[i + 1] = z[1] /\ z # <<>> /\ i < Len(y)
        BY <3>4, <2>3, <1>2, <1>5
      <4>2. z[1].x.op = "end" \/ Implies(y[i].r, Before(z[1]))
        <5>1. y[i].r = v[i].r
          BY <3>1, <1>4
        <5> QED
          BY <5>1, <4>1, <3>1, ImpliesTrans DEF Meets
      <4> QED
        BY <4>1, <4>2, <3>2 DEF Where
    <3> QED
      BY <3>3, <3>4
  <2> QED
    BY <2>1, <2>2, <2>3, <1>2, <1>5
<1>10. ASSUME NEW i \in 1 .. Len(y), IsFrame(y[i])
       PROVE  \E j \in 1 .. Len(z) : i = Len(s) + j /\ y[i] = z[j]
  <2>1. ~(i \in 1 .. Len(s))
    BY <1>10, <1>4, <1>5
  <2>2. i > Len(s)
    BY   <2>1, <1>2, <1>5
  <2> QED
    BY   <2>2, <1>6
<1>11. Frames(y) = Frames(z)
  <2>1. ASSUME NEW t \in Frames(y) PROVE t \in Frames(z)
    <3>1. PICK i \in 1 .. Len(y) : t = y[i] /\ IsFrame(y[i])
      BY <2>1, FramesAre
    <3> QED
      BY <3>1, <1>10, FramesAre
  <2>2. ASSUME NEW t \in Frames(z) PROVE t \in Frames(y)
    <3>1. PICK i \in 1 .. Len(z) : t = z[i] /\ IsFrame(z[i])
      BY <2>2, FramesAre
    <3>2. Len(s) + i \in 1 .. Len(y) /\ y[Len(s) + i] = z[i]
      BY <1>2, <1>5
    <3> QED
      BY <3>1, <3>2, FramesAre
  <2> QED
    BY <2>1, <2>2
<1>12. Pairs(y) = Pairs(z)
  <2>1. ASSUME NEW p \in Pairs(y) PROVE p \in Pairs(z)
    <3>1. PICK i \in 1 .. Len(y), j \in 1 .. Len(y) :
             i < j /\ p = <<y[i], y[j]>> /\ IsFrame(y[i]) /\ IsFrame(y[j])
      BY <2>1 DEF Pairs
    <3>2. PICK k \in 1 .. Len(z) : i = Len(s) + k /\ y[i] = z[k]
      BY <3>1, <1>10
    <3>3. PICK l \in 1 .. Len(z) : j = Len(s) + l /\ y[j] = z[l]
      BY <3>1, <1>10
    <3>4. k < l
      BY <3>1, <3>2, <3>3, <1>2
    <3>5. <<z[k], z[l]>> \in Pairs(z)
      BY <3>1, <3>2, <3>3, <3>4, PairsAre
    <3> QED
      BY <3>1, <3>2, <3>3, <3>5
  <2>2. ASSUME NEW p \in Pairs(z) PROVE p \in Pairs(y)
    <3>1. PICK i \in 1 .. Len(z), j \in 1 .. Len(z) :
             i < j /\ p = <<z[i], z[j]>> /\ IsFrame(z[i]) /\ IsFrame(z[j])
      BY <2>2 DEF Pairs
    <3>2. /\ Len(s) + i \in 1 .. Len(y) /\ y[Len(s) + i] = z[i]
          /\ Len(s) + j \in 1 .. Len(y) /\ y[Len(s) + j] = z[j] /\ Len(s) + i < Len(s) + j
      BY <3>1, <1>2, <1>5
    <3> QED
      BY <3>1, <3>2, PairsAre
  <2> QED
    BY <2>1, <2>2
<1> QED
  BY <1>7, <1>8, <1>9, <1>11, <1>12

LEMMA Single ==
    ASSUME NEW a
    PROVE  IsSeq(<<a>>) /\ Len(<<a>>) = 1 /\ <<a>>[1] = a
<1>1. <<a>> \in Seq({a})
  OBVIOUS
<1> QED
  BY <1>1 DEF IsSeq

LEMMA Prefixed ==
    ASSUME NEW a, NEW t, IsSeq(t)
    PROVE  /\ IsSeq(<<a>> \o t) /\ Len(t) \in Nat /\ Len(<<a>> \o t) = 1 + Len(t)
           /\ (<<a>> \o t)[1] = a
           /\ \A i \in 1 .. Len(t) : (<<a>> \o t)[1 + i] = t[i]
<1> DEFINE s == <<a>>
<1>1. IsSeq(s) /\ Len(s) = 1 /\ s[1] = a
  BY Single
<1> HIDE DEF s
<1>2. 1 \in 1 .. Len(s)
  BY <1>1
<1>3. /\ IsSeq(s \o t) /\ Len(t) \in Nat /\ Len(s \o t) = Len(s) + Len(t)
      /\ \A i \in 1 .. Len(s) : (s \o t)[i] = s[i]
      /\ \A i \in 1 .. Len(t) : (s \o t)[Len(s) + i] = t[i]
  <2>1. IsSeq(s)
    BY <1>1
  <2> QED
    BY <2>1, Concatenated
<1>4. /\ IsSeq(s \o t) /\ Len(t) \in Nat /\ Len(s \o t) = 1 + Len(t) /\ (s \o t)[1] = a
      /\ \A i \in 1 .. Len(t) : (s \o t)[1 + i] = t[i]
  BY <1>1, <1>2, <1>3
<1> QED
  BY <1>4 DEF s

\* What is below a step.
LEMMA StackCut ==
    ASSUME NEW z, Stack(z), NEW n \in 1 .. Len(z) + 1
    PROVE  \E y : /\ Stack(y) /\ Steps(y) = SubSeq(Steps(z), n, Len(z))
                  /\ \A s : s \in Frames(y) <=> \E i \in n .. Len(z) : s = z[i] /\ IsFrame(z[i])
                  /\ Frames(y) \subseteq Frames(z) /\ Pairs(y) \subseteq Pairs(z)
                  /\ n > 1 => Where(y) = z[n - 1].c /\ Meets(z[n - 1].r, y)
                  /\ n <= Len(z) => y # <<>> /\ y[1] = z[n]
<1> DEFINE y == SubSeq(z, n, Len(z))
<1>1. PICK S : z \in Seq(S)
  BY DEF Stack, IsSeq
<1>2. Len(z) \in Nat /\ IsSeq(z) /\ n \in Nat
  BY <1>1 DEF IsSeq
<1>3. /\ IsSeq(y) /\ Len(y) = Len(z) + 1 - n /\ Len(y) \in Nat
      /\ \A i \in 1 .. Len(y) : y[i] = z[n - 1 + i] /\ n - 1 + i \in 1 .. Len(z)
  <2>1. y \in Seq(S) /\ Len(y) = Len(z) + 1 - n /\ \A i \in 1 .. Len(z) + 1 - n : y[i] = z[n + i - 1]
    BY <1>1, <1>2, SubSeqProperties
  <2> HIDE DEF y
  <2> QED
    BY <2>1, <1>2 DEF IsSeq
<1>4. Steps(y) = SubSeq(Steps(z), n, Len(z))
  <2> DEFINE u == Steps(z)
  <2>1. /\ IsSeq(u) /\ Len(u) = Len(z) /\ \A i \in 1 .. Len(z) : u[i] = z[i].x
    BY <1>2, StepsAre
  <2>2. IsSeq(Steps(y)) /\ Len(Steps(y)) = Len(y) /\ \A i \in 1 .. Len(y) : Steps(y)[i] = y[i].x
    BY <1>3, StepsAre
  <2> HIDE DEF u, y
  <2>3. PICK T : u \in Seq(T)
    BY <2>1 DEF IsSeq
  <2>4. /\ SubSeq(u, n, Len(z)) \in Seq(T) /\ Len(SubSeq(u, n, Len(z))) = Len(z) + 1 - n
        /\ \A i \in 1 .. Len(z) + 1 - n : SubSeq(u, n, Len(z))[i] = u[n + i - 1]
    BY <2>1, <2>3, <1>2, SubSeqProperties
  <2>5. ASSUME NEW i \in 1 .. Len(y)
        PROVE  Steps(y)[i] = SubSeq(u, n, Len(z))[i]
    <3>1. n - 1 + i \in 1 .. Len(z) /\ n + i - 1 = n - 1 + i /\ i \in 1 .. Len(z) + 1 - n
      BY <1>2, <1>3
    <3>2. Steps(y)[i] = y[i].x /\ y[i] = z[n - 1 + i]
      BY <1>3, <2>2
    <3>3. SubSeq(u, n, Len(z))[i] = u[n - 1 + i]
      BY <2>4, <3>1
    <3>4. u[n - 1 + i] = z[n - 1 + i].x
      BY <2>1, <3>1
    <3> QED
      BY <3>2, <3>3, <3>4
  <2>6. IsSeq(SubSeq(u, n, Len(z)))
    BY <2>4 DEF IsSeq
  <2>7. Steps(y) = SubSeq(u, n, Len(z))
    BY <1>3, <2>2, <2>4, <2>5, <2>6, Same
  <2> QED
    BY <2>7 DEF u, y
<1> HIDE DEF y
<1>5. ASSUME NEW i \in n .. Len(z) PROVE i + 1 - n \in 1 .. Len(y) /\ y[i + 1 - n] = z[i]
  <2>1. i + 1 - n \in 1 .. Len(y) /\ n - 1 + (i + 1 - n) = i
    BY <1>2, <1>3
  <2> QED
    BY <2>1, <1>3
<1>6. Stack(y)
  <2> SUFFICES ASSUME NEW i \in 1 .. Len(y)
               PROVE  /\ Fits(y[i].c, Origin(y[i].x), y[i].q, y[i].r)
                      /\ i = Len(y) => y[i].c = Outermost
                      /\ i < Len(y) => /\ y[i].c = Around(y[i + 1])
                                       /\ y[i + 1].x.op = "end" \/ Implies(y[i].r, Before(y[i + 1]))
    BY <1>3 DEF Stack
  <2> DEFINE j == n - 1 + i
  <2>1. j \in 1 .. Len(z) /\ y[i] = z[j]
    BY <1>3
  <2>2. (j = Len(z) <=> i = Len(y)) /\ (i < Len(y) => j < Len(z) /\ y[i + 1] = z[j + 1])
    <3>1. (j = Len(z) <=> i = Len(y)) /\ (i < Len(y) => j < Len(z) /\ i + 1 \in 1 .. Len(y))
      BY <1>2, <1>3
    <3>2. n - 1 + (i + 1) = j + 1
      BY <1>2
    <3> QED
      BY <3>1, <3>2, <1>3
  <2> HIDE DEF j
  <2>3. /\ Fits(z[j].c, Origin(z[j].x), z[j].q, z[j].r)
        /\ j = Len(z) => z[j].c = Outermost
        /\ j < Len(z) => /\ z[j].c = Around(z[j + 1])
                         /\ z[j + 1].x.op = "end" \/ Implies(z[j].r, Before(z[j + 1]))
    BY <2>1 DEF Stack
  <2> QED
    BY <2>1, <2>2, <2>3
<1>7. \A s : s \in Frames(y) <=> \E i \in n .. Len(z) : s = z[i] /\ IsFrame(z[i])
  <2>1. ASSUME NEW s, s \in Frames(y) PROVE \E i \in n .. Len(z) : s = z[i] /\ IsFrame(z[i])
    <3>1. PICK k \in 1 .. Len(y) : s = y[k] /\ IsFrame(y[k])
      BY <2>1, FramesAre
    <3>2. n - 1 + k \in n .. Len(z) /\ y[k] = z[n - 1 + k]
      BY <1>2, <1>3
    <3> QED
      BY <3>1, <3>2
  <2>2. ASSUME NEW s, NEW i \in n .. Len(z), s = z[i], IsFrame(z[i]) PROVE s \in Frames(y)
    BY <2>2, <1>5, FramesAre
  <2> QED
    BY <2>1, <2>2
<1>8. Frames(y) \subseteq Frames(z)
  <2>1. n .. Len(z) \subseteq 1 .. Len(z)
    BY <1>2
  <2> QED
    BY <2>1, <1>7, FramesAre
<1>9. ASSUME NEW p \in Pairs(y) PROVE p \in Pairs(z)
  <2>1. PICK i \in 1 .. Len(y), j \in 1 .. Len(y) :
           i < j /\ p = <<y[i], y[j]>> /\ IsFrame(y[i]) /\ IsFrame(y[j])
    BY <1>9 DEF Pairs
  <2>2. n - 1 + i \in 1 .. Len(z) /\ y[i] = z[n - 1 + i]
    BY <1>3
  <2>3. n - 1 + j \in 1 .. Len(z) /\ y[j] = z[n - 1 + j]
    BY <1>3
  <2>4. n - 1 + i < n - 1 + j
    BY <2>1, <1>2
  <2>5. PICK k, m : k = n - 1 + i /\ m = n - 1 + j
    OBVIOUS
  <2>6. k \in 1 .. Len(z) /\ m \in 1 .. Len(z) /\ k < m /\ p = <<z[k], z[m]>> /\ IsFrame(z[k]) /\ IsFrame(z[m])
    BY <2>1, <2>2, <2>3, <2>4, <2>5
  <2>7. <<z[k], z[m]>> \in Pairs(z)
    BY <2>6, PairsAre
  <2> QED
    BY <2>6, <2>7
<1>10. ASSUME n > 1 PROVE Where(y) = z[n - 1].c /\ Meets(z[n - 1].r, y)
  <2>1. n - 1 \in 1 .. Len(z)
    BY <1>10, <1>2
  <2>2. /\ n - 1 = Len(z) => z[n - 1].c = Outermost
        /\ n - 1 < Len(z) => /\ z[n - 1].c = Around(z[n - 1 + 1])
                             /\ z[n - 1 + 1].x.op = "end" \/ Implies(z[n - 1].r, Before(z[n - 1 + 1]))
    BY <2>1 DEF Stack
  <2>3. n - 1 + 1 = n
    BY <1>2
  <2>4. CASE n = Len(z) + 1
    <3>1. Len(y) = 0
      BY <2>4, <1>2, <1>3
    <3>2. y = <<>>
      BY <3>1, <1>3 DEF IsSeq
    <3> QED
      BY <3>2, <2>2, <2>4, <1>2 DEF Where, Meets
  <2>5. CASE n <= Len(z)
    <3>1. 1 \in 1 .. Len(y) /\ y[1] = z[n]
      <4>1. 1 \in 1 .. Len(y) /\ n - 1 + 1 = n
        BY <2>5, <1>2, <1>3
      <4> QED
        BY <4>1, <1>3
    <3>2. y # <<>>
      BY <3>1
    <3> QED
      BY <3>1, <3>2, <2>2, <2>3, <2>5, <1>2 DEF Where, Meets
  <2> QED
    BY <2>4, <2>5, <1>2
<1>11. ASSUME n <= Len(z) PROVE y # <<>> /\ y[1] = z[n]
  <2>1. 1 \in 1 .. Len(y) /\ n - 1 + 1 = n
    BY <1>11, <1>2, <1>3
  <2>2. y[1] = z[n]
    BY <2>1, <1>3
  <2> QED
    BY <2>1, <2>2
<1> QED
  BY <1>4, <1>6, <1>7, <1>8, <1>9, <1>10, <1>11

\* A frame put above a stack.
Over(s, F) == {<<s, t>> : t \in F}

LEMMA StackFrame ==
    ASSUME NEW z, Stack(z), NEW s, s.x.op \in {"end", "again"}, s.c = Where(z),
           Fits(s.c, Origin(s.x), s.q, s.r), Meets(s.r, z)
    PROVE  \E y : /\ y # <<>> /\ y[1] = s
                  /\ Stack(y) /\ Steps(y) = <<s.x>> \o Steps(z)
                  /\ Frames(y) = Frames(z) \cup {s}
                  /\ Pairs(y) = Pairs(z) \cup Over(s, Frames(z))
<1> DEFINE y == <<s>> \o z
<1>1. PICK x, r : x = s.x /\ r = s.r /\ IsFrame(s)
  BY DEF IsFrame
<1>2. IsSeq(z) /\ Len(z) \in Nat
  BY DEF IsSeq, Stack
<1>3. /\ IsSeq(y) /\ Len(y) = 1 + Len(z) /\ Len(y) \in Nat /\ y[1] = s
      /\ \A i \in 1 .. Len(z) : y[1 + i] = z[i]
  BY <1>2, Prefixed
<1> HIDE DEF y
<1>4. y # <<>>
  BY <1>2, <1>3
<1>5. ASSUME NEW i \in 1 .. Len(y), i # 1
      PROVE  \E j \in 1 .. Len(z) : i = 1 + j /\ y[i] = z[j]
  <2>1. i - 1 \in 1 .. Len(z) /\ i = 1 + (i - 1)
    BY <1>2, <1>3, <1>5
  <2> QED
    BY <2>1, <1>3
<1>6. Steps(y) = <<x>> \o Steps(z)
  <2> DEFINE u == Steps(z)
  <2>1. IsSeq(u) /\ Len(u) = Len(z) /\ \A i \in 1 .. Len(z) : u[i] = z[i].x
    BY <1>2, StepsAre
  <2>2. IsSeq(Steps(y)) /\ Len(Steps(y)) = Len(y) /\ \A i \in 1 .. Len(y) : Steps(y)[i] = y[i].x
    BY <1>3, StepsAre
  <2> HIDE DEF u
  <2>4. /\ IsSeq(<<x>> \o u) /\ Len(<<x>> \o u) = 1 + Len(z) /\ (<<x>> \o u)[1] = x
        /\ \A i \in 1 .. Len(z) : (<<x>> \o u)[1 + i] = u[i]
    BY <2>1, Prefixed
  <2>5. ASSUME NEW i \in 1 .. Len(y) PROVE Steps(y)[i] = (<<x>> \o u)[i]
    <3>1. CASE i = 1
      BY <3>1, <2>2, <2>4, <1>1, <1>3
    <3>2. CASE i # 1
      <4>1. PICK j \in 1 .. Len(z) : i = 1 + j /\ y[i] = z[j]
        BY <3>2, <1>5
      <4> QED
        BY <4>1, <2>1, <2>2, <2>4
    <3> QED
      BY <3>1, <3>2
  <2>6. Steps(y) = <<x>> \o u
    BY <1>3, <2>2, <2>4, <2>5, Same
  <2> QED
    BY <2>6 DEF u
<1>7. Stack(y)
  <2> SUFFICES ASSUME NEW i \in 1 .. Len(y)
               PROVE  /\ Fits(y[i].c, Origin(y[i].x), y[i].q, y[i].r)
                      /\ i = Len(y) => y[i].c = Outermost
                      /\ i < Len(y) => /\ y[i].c = Around(y[i + 1])
                                       /\ y[i + 1].x.op = "end" \/ Implies(y[i].r, Before(y[i + 1]))
    BY <1>3 DEF Stack
  <2>1. CASE i # 1
    <3>1. PICK j \in 1 .. Len(z) : i = 1 + j /\ y[i] = z[j]
      BY <2>1, <1>5
    <3>2. j < Len(z) => y[i + 1] = z[j + 1]
      BY <3>1, <1>2, <1>3
    <3>3. /\ Fits(z[j].c, Origin(z[j].x), z[j].q, z[j].r)
          /\ j = Len(z) => z[j].c = Outermost
          /\ j < Len(z) => /\ z[j].c = Around(z[j + 1])
                           /\ z[j + 1].x.op = "end" \/ Implies(z[j].r, Before(z[j + 1]))
      BY DEF Stack
    <3> QED
      BY <3>1, <3>2, <3>3, <1>2, <1>3
  <2>2. CASE i = 1
    <3>1. CASE Len(z) = 0
      <4>1. z = <<>>
        BY <3>1, <1>2 DEF IsSeq
      <4> QED
        BY <4>1, <3>1, <2>2, <1>1, <1>2, <1>3 DEF Where
    <3>2. CASE Len(z) # 0
      <4>1. 1 \in 1 .. Len(z) /\ y[1 + 1] = z[1] /\ z # <<>> /\ i < Len(y)
        BY <3>2, <2>2, <1>2, <1>3
      <4>2. Around(z[1]) = Where(z) /\ (z[1].x.op = "end" \/ Implies(r, Before(z[1])))
        BY <4>1, <1>1 DEF Where, Meets
      <4> QED
        BY <4>1, <4>2, <2>2, <1>1, <1>3
    <3> QED
      BY <3>1, <3>2
  <2> QED
    BY <2>1, <2>2
<1>8. Frames(y) = Frames(z) \cup {s}
  <2>1. ASSUME NEW t \in Frames(y) PROVE t \in Frames(z) \cup {s}
    <3>1. PICK i \in 1 .. Len(y) : t = y[i] /\ IsFrame(y[i])
      BY <2>1, FramesAre
    <3> QED
      BY <3>1, <1>3, <1>5, FramesAre
  <2>2. s \in Frames(y)
    <3>1. 1 \in 1 .. Len(y)
      BY <1>2, <1>3
    <3> QED
      BY <3>1, <1>1, <1>3, FramesAre
  <2>3. ASSUME NEW t \in Frames(z) PROVE t \in Frames(y)
    <3>1. PICK i \in 1 .. Len(z) : t = z[i] /\ IsFrame(z[i])
      BY <2>3, FramesAre
    <3>2. 1 + i \in 1 .. Len(y) /\ y[1 + i] = z[i]
      BY <1>2, <1>3
    <3> QED
      BY <3>1, <3>2, FramesAre
  <2> QED
    BY <2>1, <2>2, <2>3
<1>9. Pairs(y) = Pairs(z) \cup Over(s, Frames(z))
  <2>1. ASSUME NEW p \in Pairs(y) PROVE p \in Pairs(z) \cup Over(s, Frames(z))
    <3>1. PICK i \in 1 .. Len(y), j \in 1 .. Len(y) :
             i < j /\ p = <<y[i], y[j]>> /\ IsFrame(y[i]) /\ IsFrame(y[j])
      BY <2>1 DEF Pairs
    <3>2. PICK l \in 1 .. Len(z) : j = 1 + l /\ y[j] = z[l]
      <4>1. j # 1
        BY <3>1
      <4> QED
        BY <4>1, <1>5
    <3>3. CASE i = 1
      <4>1. y[j] \in Frames(z)
        BY <3>1, <3>2, FramesAre
      <4> QED
        BY <4>1, <3>1, <3>3, <1>3 DEF Over
    <3>4. CASE i # 1
      <4>1. PICK k \in 1 .. Len(z) : i = 1 + k /\ y[i] = z[k]
        BY <3>4, <1>5
      <4>2. k < l
        BY <3>1, <3>2, <4>1, <1>2
      <4>3. <<z[k], z[l]>> \in Pairs(z)
        BY <3>1, <3>2, <4>1, <4>2, PairsAre
      <4> QED
        BY <4>1, <4>3, <3>1, <3>2
    <3> QED
      BY <3>3, <3>4
  <2>2. ASSUME NEW p \in Pairs(z) PROVE p \in Pairs(y)
    <3>1. PICK i \in 1 .. Len(z), j \in 1 .. Len(z) :
             i < j /\ p = <<z[i], z[j]>> /\ IsFrame(z[i]) /\ IsFrame(z[j])
      BY <2>2 DEF Pairs
    <3>2. /\ 1 + i \in 1 .. Len(y) /\ y[1 + i] = z[i]
          /\ 1 + j \in 1 .. Len(y) /\ y[1 + j] = z[j] /\ 1 + i < 1 + j
      BY <3>1, <1>2, <1>3
    <3> QED
      BY <3>1, <3>2, PairsAre
  <2>3. ASSUME NEW t \in Frames(z) PROVE <<s, t>> \in Pairs(y)
    <3>1. PICK i \in 1 .. Len(z) : t = z[i] /\ IsFrame(z[i])
      BY <2>3, FramesAre
    <3> DEFINE j == 1 + i
    <3>2. j \in 1 .. Len(y) /\ y[j] = z[i] /\ 1 \in 1 .. Len(y) /\ 1 < j
      BY <1>2, <1>3
    <3> HIDE DEF j
    <3>3. s = y[1] /\ t = y[j] /\ IsFrame(y[1]) /\ IsFrame(y[j])
      BY <3>1, <3>2, <1>1, <1>3
    <3> QED
      BY <3>2, <3>3, PairsAre
  <2> QED
    BY <2>1, <2>2, <2>3 DEF Over
<1>10. /\ y # <<>> /\ y[1] = s /\ Stack(y) /\ Steps(y) = <<x>> \o Steps(z)
       /\ Frames(y) = Frames(z) \cup {s}
       /\ Pairs(y) = Pairs(z) \cup Over(s, Frames(z))
  BY <1>3, <1>4, <1>6, <1>7, <1>8, <1>9
<1> QED
  BY <1>1, <1>10

LEMMA LeastElement ==
    ASSUME NEW S \in SUBSET Nat, S # {}
    PROVE  \E m \in S : \A n \in S : m <= n
<1>1. PICK m \in S : \A n \in S : ~(<<n, m>> \in OpToRel(<, Nat))
  BY NatLessThanWellFounded, WFMin
<1>2. ASSUME NEW n \in S PROVE m <= n
  <2>1. m \in Nat /\ n \in Nat /\ ~(n < m)
    BY <1>1 DEF OpToRel
  <2> QED
    BY <2>1
<1> QED
  BY <1>2

\* What holds at l and is inherited by the step above holds down to k.
LEMMA Descent ==
    ASSUME NEW k \in Nat, NEW l \in Nat, NEW S, l \in S, \A i \in k .. l - 1 : i + 1 \in S => i \in S
    PROVE  \A i \in k .. l : i \in S
<1> DEFINE bad == {d \in Nat : \E i \in k .. l : d = l - i /\ i \notin S}
<1>1. CASE bad # {}
  <2>1. PICK d \in bad : \A e \in bad : d <= e
    BY <1>1, LeastElement
  <2>2. PICK i \in k .. l : d = l - i /\ i \notin S
    BY <2>1
  <2>3. i # l /\ i \in k .. l - 1 /\ i + 1 \in k .. l
    BY <2>2
  <2>4. l - (i + 1) \in Nat /\ ~(d <= l - (i + 1))
    BY <2>2, <2>3
  <2>5. i + 1 \in S
    BY <2>1, <2>3, <2>4
  <2> QED
    BY <2>2, <2>3, <2>5
<1>2. CASE bad = {}
  <2>1. ASSUME NEW i \in k .. l, i \notin S PROVE FALSE
    <3>1. l - i \in Nat
      BY <2>1
    <3>2. l - i \in bad
      BY <2>1, <3>1
    <3> QED
      BY <3>2, <1>2
  <2> QED
    BY <2>1
<1> QED
  BY <1>1, <1>2

\* The steps above a frame stand in it.
LEMMA Enclosing ==
    ASSUME NEW z, Stack(z), z # <<>>, NEW l \in 1 .. Len(z),
           IsFrame(z[l]) \/ l = Len(z), \A m \in 1 .. l - 1 : ~IsFrame(z[m])
    PROVE  Where(z) = Around(z[l])
<1> DEFINE S == {i \in 1 .. l : Around(z[i]) = Around(z[l])}
<1>1. Len(z) \in Nat /\ l \in Nat /\ l \in S
  BY DEF Stack, IsSeq
<1>2. ASSUME NEW i \in 1 .. l - 1, i + 1 \in S PROVE i \in S
  <2>1. i \in 1 .. Len(z) /\ i < Len(z) /\ ~IsFrame(z[i]) /\ i \in 1 .. l
    BY <1>1, <1>2
  <2>2. z[i].c = Around(z[i + 1])
    BY <2>1 DEF Stack
  <2>3. Around(z[i]) = z[i].c
    BY <2>1 DEF Around, IsFrame
  <2> QED
    BY <2>1, <2>2, <2>3, <1>2
<1> HIDE DEF S
<1>3. \A i \in 1 .. l : i \in S
  BY <1>1, <1>2, Descent
<1>4. 1 \in S
  BY <1>1, <1>3
<1> QED
  BY <1>4 DEF S, Where

\* The function of a step is that of the first call below it.
LEMMA Calling ==
    ASSUME NEW z, Stack(z), z # <<>>, NEW l \in 1 .. Len(z),
           z[l].x.op = "end" \/ l = Len(z), \A m \in 1 .. l - 1 : z[m].x.op # "end"
    PROVE  Where(z).f = Around(z[l]).f /\ Where(z).mood = Around(z[l]).mood
<1> DEFINE S == {i \in 1 .. l : Around(z[i]).f = Around(z[l]).f /\ Around(z[i]).mood = Around(z[l]).mood}
<1>1. Len(z) \in Nat /\ l \in Nat /\ l \in S
  BY DEF Stack, IsSeq
<1>2. ASSUME NEW i \in 1 .. l - 1, i + 1 \in S PROVE i \in S
  <2>1. i \in 1 .. Len(z) /\ i < Len(z) /\ z[i].x.op # "end" /\ i \in 1 .. l
    BY <1>1, <1>2
  <2>2. z[i].c = Around(z[i + 1])
    BY <2>1 DEF Stack
  <2>3. Around(z[i]).f = z[i].c.f /\ Around(z[i]).mood = z[i].c.mood
    BY <2>1 DEF Around, InLoop
  <2> QED
    BY <2>1, <2>2, <2>3, <1>2
<1> HIDE DEF S
<1>3. \A i \in 1 .. l : i \in S
  BY <1>1, <1>2, Descent
<1>4. 1 \in S
  BY <1>1, <1>3
<1> QED
  BY <1>4 DEF S, Where

-----------------------------------------------------------------------------
(* What is known of the parser in a state, and what its frames remember.     *)
\* The tokens read; recovery has an error to blame, or a consumed ";".
Tape ==
    /\ input \in Seq((SUBSET Kind) \ {{}}) /\ at \in 1 .. Len(input)
    /\ position \in Nat /\ at <= position + 1
    /\ trying \in BOOLEAN /\ (~trying => at = 1)

Blamed(F) == panic_mode \/ (previous = ";" /\ \A s \in F : s.x.position < position)

\* That q is true of the parser now.
Holds(q, F) ==
    /\ current \subseteq q.here
    /\ \A s \in F : s.x.position = position => current \subseteq (IF ok THEN q.some ELSE q.none)
    /\ "trial" \in q.facts => trying
    /\ "settled" \in q.facts => ~trying
    /\ "past" \in q.facts => \A s \in F : s.x.op = "end" => s.x.position < position
    /\ "answered" \in q.facts => ok \/ Blamed(F)
    /\ "blamed" \in q.facts => Blamed(F)
    /\ "ended" \in q.facts => excused \/ previous = ";"
    /\ "gone" \in q.facts => \/ excused
                             \/ \A s \in F : s.x.op = "again" /\ s.x.name = "statements"
                                                => s.x.position < position
    /\ "excused" \in q.facts => excused

\* What is still true of the state in which a frame was opened, and of two frames
\* one of which was opened inside the other without a token.
FrameOK(s) ==
    /\ s.x.position \in Nat /\ s.x.position <= position
    /\ ~trying => "settled" \in s.q.facts
    /\ trying /\ "settled" \in s.q.facts => s.x.position < position - (at - 1)
PairOK(s, t) ==
    /\ t.x.position <= s.x.position
    /\ s.c.mood = "settled" => "settled" \in t.q.facts
    /\ t.x.op = "end" /\ Moved(s.q) => t.x.position < s.x.position
    /\ t.x.op = "end" /\ s.x.op = "end" /\ t.x.position = s.x.position => Rank(s.x.f) < Rank(t.x.f)
    /\ t.x.position = position => current \subseteq Stayed(s.q)
Sound(F, P) == (\A s \in F : FrameOK(s)) /\ \A s, t : <<s, t>> \in P => PairOK(s, t)

\* The next step may be taken.
Ready(z) == z # <<>> /\ z[1].x.op # "end" => Holds(Before(z[1]), Frames(z))
Safe(z) == Stack(z) /\ Sound(Frames(z), Pairs(z)) /\ Ready(z)

\* The invariant: what is left to do is a stack that fits.
IInv == ~silent /\ (todo # <<>> => Tape /\ \E z : Safe(z) /\ todo = Steps(z))

LEMMA CurrentToken ==
    /\ Tape => current \subseteq Kind /\ current # {}
    /\ Tape' => current' \subseteq Kind /\ current' # {}
<1>1. ASSUME Tape PROVE current \subseteq Kind /\ current # {}
  <2>1. input[at] \in (SUBSET Kind) \ {{}}
    BY <1>1 DEF Tape
  <2> QED
    BY <2>1 DEF current
<1>2. ASSUME Tape' PROVE current' \subseteq Kind /\ current' # {}
  <2>1. input'[at'] \in (SUBSET Kind) \ {{}}
    BY <1>2 DEF Tape
  <2> QED
    BY <2>1 DEF current
<1> QED
  BY <1>1, <1>2

LEMMA HoldsImplies ==
    ASSUME Tape', NEW F, \A s \in F : FrameOK(s)', NEW q, NEW r, Implies(q, r), Holds(q, F)'
    PROVE  Holds(r, F)'
<1>1. current' # {} /\ position' \in Nat
  BY CurrentToken DEF Tape
<1>2. r.facts \ {"past"} \subseteq q.facts
  BY DEF Implies
<1>3. "past" \in r.facts => \A s \in F : s.x.op = "end" => s.x.position < position'
  <2>1. CASE "past" \in q.facts
    BY <2>1 DEF Holds
  <2>2. CASE Stayed(q) = {}
    <3>1. ASSUME NEW s \in F PROVE s.x.position < position'
      <4>1. s.x.position # position'
        BY <2>2, <1>1 DEF Holds, Stayed
      <4> QED
        BY <4>1, <1>1 DEF FrameOK
    <3> QED
      BY <3>1
  <2> QED
    BY <2>1, <2>2 DEF Implies, Moved
<1>4. \A s \in F : s.x.position = position' => current' \subseteq (IF ok' THEN r.some ELSE r.none)
  BY DEF Holds, Implies
<1>5. current' \subseteq r.here
  BY DEF Holds, Implies
<1> QED
  BY <1>2, <1>3, <1>4, <1>5 DEF Holds, Blamed

LEMMA NowReady ==
    ASSUME Tape', NEW z, Sound(Frames(z), Pairs(z))', NEW q, Meets(q, z), Holds(q, Frames(z))'
    PROVE  Ready(z)'
<1>1. \A s \in Frames(z) : FrameOK(s)'
  BY DEF Sound
<1> QED
  BY <1>1, HoldsImplies DEF Ready, Meets

\* The frames stay as they are while the parser reads on.
LEMMA SoundKept ==
    ASSUME Tape, Tape', NEW F, NEW P, Sound(F, P), position <= position',
           position' = position => current' \subseteq current,
           trying' = trying, trying => position' - (at' - 1) = position - (at - 1),
           \A s, t : <<s, t>> \in P => s \in F /\ t \in F
    PROVE  Sound(F, P)'
<1>1. position \in Nat /\ position' \in Nat /\ at \in Nat /\ at' \in Nat
  BY DEF Tape
<1>2. ASSUME NEW s \in F PROVE FrameOK(s)'
  <2>1. FrameOK(s)
    BY DEF Sound
  <2>3. s.x.position \in Nat /\ s.x.position <= position'
    BY <2>1, <1>1 DEF FrameOK
  <2> QED
    BY <2>1, <2>3 DEF FrameOK
<1>3. ASSUME NEW s, NEW t, <<s, t>> \in P PROVE PairOK(s, t)'
  <2>1. PairOK(s, t) /\ FrameOK(t)
    BY <1>3 DEF Sound
  <2>2. t.x.position = position' => position' = position
    BY <2>1, <1>1 DEF FrameOK
  <2> QED
    BY <2>1, <2>2 DEF PairOK
<1> QED
  BY <1>2, <1>3 DEF Sound

LEMMA Fewer ==
    ASSUME NEW F, NEW P, Sound(F, P)', NEW G, G \subseteq F, NEW Q, Q \subseteq P
    PROVE  Sound(G, Q)'
BY DEF Sound

LEMMA PairFrames ==
    ASSUME NEW z, NEW s, NEW t, <<s, t>> \in Pairs(z)
    PROVE  s \in Frames(z) /\ t \in Frames(z)
BY PairsAre, FramesAre

\* The top step is replaced by a program.
LEMMA Perform ==
    ASSUME NEW z, Stack(z), z # <<>>, ~IsFrame(z[1]),
           NEW s, NEW q, Chain(z[1].c, s, q, z[1].r)
    PROVE  \E y : /\ Stack(y) /\ Steps(y) = s \o Tail(Steps(z)) /\ Meets(q, y)
                  /\ Frames(y) = Frames(z) /\ Pairs(y) \subseteq Pairs(z) /\ Where(y) = z[1].c
<1>1. Len(z) \in Nat /\ 2 \in 1 .. Len(z) + 1 /\ 1 \in 1 .. Len(z)
  <2>1. PICK S : z \in Seq(S)
    BY DEF Stack, IsSeq
  <2> QED
    BY <2>1
<1>2. PICK y : /\ Stack(y) /\ Steps(y) = SubSeq(Steps(z), 2, Len(z))
               /\ \A t : t \in Frames(y) <=> \E i \in 2 .. Len(z) : t = z[i] /\ IsFrame(z[i])
               /\ Frames(y) \subseteq Frames(z) /\ Pairs(y) \subseteq Pairs(z)
               /\ Where(y) = z[1].c /\ Meets(z[1].r, y)
  <2>1. PICK n : n = 2
    OBVIOUS
  <2>2. n > 1 /\ n - 1 = 1 /\ n \in 1 .. Len(z) + 1
    BY <2>1, <1>1
  <2>3. PICK y : /\ Stack(y) /\ Steps(y) = SubSeq(Steps(z), n, Len(z))
                 /\ \A t : t \in Frames(y) <=> \E i \in n .. Len(z) : t = z[i] /\ IsFrame(z[i])
                 /\ Frames(y) \subseteq Frames(z) /\ Pairs(y) \subseteq Pairs(z)
                 /\ n > 1 => Where(y) = z[n - 1].c /\ Meets(z[n - 1].r, y)
    BY <2>2, StackCut
  <2> QED
    BY <2>1, <2>2, <2>3
<1>3. Frames(y) = Frames(z)
  <2>1. ASSUME NEW t \in Frames(z) PROVE t \in Frames(y)
    <3>1. PICK i \in 1 .. Len(z) : t = z[i] /\ IsFrame(z[i])
      BY <2>1, FramesAre
    <3>2. i \in 2 .. Len(z)
      BY <3>1, <1>1
    <3> QED
      BY <3>1, <3>2, <1>2
  <2> QED
    BY <2>1, <1>2
<1>4. Steps(y) = Tail(Steps(z))
  <2>1. IsSeq(Steps(z)) /\ Len(Steps(z)) = Len(z)
    BY StepsAre DEF Stack
  <2> QED
    BY <2>1, <1>2
<1>5. PICK w : /\ Stack(w) /\ Steps(w) = s \o Steps(y) /\ Meets(q, w)
               /\ Frames(w) = Frames(y) /\ Pairs(w) = Pairs(y) /\ Where(w) = Where(y)
  <2>1. Chain(Where(y), s, q, z[1].r)
    BY <1>2
  <2>2. Stack(y) /\ Meets(z[1].r, y)
    BY <1>2
  <2> QED
    BY <2>1, <2>2, StackPush
<1> QED
  BY <1>2, <1>3, <1>4, <1>5

LEMMA Stepped ==
    ASSUME NEW z, Safe(z), Tape', z # <<>>, ~IsFrame(z[1]),
           NEW s, NEW q, Chain(z[1].c, s, q, z[1].r),
           Sound(Frames(z), Pairs(z))', Holds(q, Frames(z))'
    PROVE  \E y : Safe(y)' /\ Steps(y) = s \o Tail(Steps(z))
<1>1. PICK y : /\ Stack(y) /\ Steps(y) = s \o Tail(Steps(z)) /\ Meets(q, y)
               /\ Frames(y) = Frames(z) /\ Pairs(y) \subseteq Pairs(z) /\ Where(y) = z[1].c
  BY Perform DEF Safe
<1>2. Sound(Frames(y), Pairs(y))'
  BY <1>1, Fewer
<1>3. Ready(y)'
  BY <1>1, <1>2, NowReady
<1> QED
  BY <1>1, <1>2, <1>3 DEF Safe

-----------------------------------------------------------------------------
(* What reading does.                                                        *)
LEMMA Tokens ==
    \A n : Token(n) \in (SUBSET Kind) \ {{}}
<1>1. "eof" \in Kind
  BY DEF Kind
<1> QED
  BY <1>1 DEF Token

LEMMA Learned ==
    ASSUME Tape, NEW k, current \cap k # {}, Learn(k)
    PROVE  /\ Tape' /\ current' = current \cap k /\ position' = position /\ at' = at
           /\ trying' = trying /\ previous' = previous
<1>1. input[at] \in (SUBSET Kind) \ {{}} /\ input \in Seq((SUBSET Kind) \ {{}}) /\ at \in 1 .. Len(input)
  BY DEF Tape
<1>2. current \cap k \in (SUBSET Kind) \ {{}}
  BY <1>1 DEF current
<1>3. /\ input' = [input EXCEPT ![at] = current \cap k] /\ at' = at /\ position' = position
      /\ trying' = trying /\ previous' = previous
  BY DEF Learn, current
<1>4. /\ input' \in Seq((SUBSET Kind) \ {{}}) /\ Len(input') = Len(input)
      /\ input'[at] = current \cap k
  BY <1>1, <1>2, <1>3, ExceptSeq
<1> QED
  BY <1>3, <1>4 DEF Tape, current

LEMMA Advanced ==
    ASSUME Tape, NEW k, current \cap k # {}, current \cap k # {"eof"}, Advance(k)
    PROVE  /\ Tape' /\ position' = position + 1 /\ trying' = trying
           /\ trying => position' - (at' - 1) = position - (at - 1)
           /\ previous' = IF current \cap k = {";"} THEN ";"
                          ELSE IF ";" \in current \cap k THEN "unknown" ELSE "other"
<1> DEFINE token == current \cap k
           known == IF at < Len(input) THEN input ELSE Append(input, Token(position + 2))
           S == (SUBSET Kind) \ {{}}
<1>1. /\ input \in Seq(S) /\ at \in 1 .. Len(input) /\ position \in Nat /\ at <= position + 1
      /\ trying \in BOOLEAN /\ (~trying => at = 1) /\ Len(input) \in Nat /\ at \in Nat /\ at >= 1
  BY DEF Tape
<1>2. token \in S
  <2>1. input[at] \in S
    BY <1>1
  <2> QED
    BY <2>1 DEF current
<1>3. /\ position' = position + 1 /\ trying' = trying
      /\ previous' = IF token = {";"} THEN ";" ELSE IF ";" \in token THEN "unknown" ELSE "other"
      /\ IF trying THEN input' = [known EXCEPT ![at] = token] /\ at' = at + 1
         ELSE input' = Tail(known) /\ at' = at
  BY DEF Advance
<1>4. known \in Seq(S) /\ Len(known) >= at + 1 /\ Len(known) \in Nat
  <2>1. CASE at < Len(input)
    BY <2>1, <1>1
  <2>2. CASE ~(at < Len(input))
    <3>1. Token(position + 2) \in S
      BY Tokens
    <3>2. Append(input, Token(position + 2)) \in Seq(S) /\ Len(Append(input, Token(position + 2))) = Len(input) + 1
      BY <3>1, <1>1, AppendProperties
    <3> QED
      BY <3>2, <2>2, <1>1
  <2> QED
    BY <2>1, <2>2
<1> HIDE DEF known, S, token
<1>5. CASE trying
  <2>1. input' = [known EXCEPT ![at] = token] /\ at' = at + 1
    BY <1>3, <1>5
  <2>2. at \in 1 .. Len(known)
    BY <1>1, <1>4
  <2>3. input' \in Seq(S) /\ Len(input') = Len(known)
    BY <2>1, <2>2, <1>2, <1>4, ExceptSeq
  <2>4. at + 1 \in 1 .. Len(known) /\ at + 1 <= position + 1 + 1
    BY <1>1, <1>4
  <2>5. position + 1 - (at + 1 - 1) = position - (at - 1) /\ position + 1 \in Nat
    BY <1>1
  <2>6. at' \in 1 .. Len(input') /\ at' <= position' + 1 /\ position' \in Nat
    BY <2>1, <2>3, <2>4, <2>5, <1>3
  <2>7. position' - (at' - 1) = position - (at - 1)
    <3>1. position' = position + 1 /\ at' = at + 1
      BY <2>1, <1>3
    <3>2. \A a, b, c, d \in Nat : c = a + 1 /\ d = b + 1 => c - (d - 1) = a - (b - 1)
      OBVIOUS
    <3>3. position \in Nat /\ at \in Nat /\ position' \in Nat /\ at' \in Nat
      BY <3>1, <1>1
    <3> QED
      BY <3>1, <3>2, <3>3
  <2> QED
    BY <2>3, <2>6, <2>7, <1>1, <1>3, <1>5 DEF Tape, S, token
<1>6. CASE ~trying
  <2>1. known # <<>>
    BY <1>1, <1>4
  <2>2. Tail(known) \in Seq(S) /\ Len(Tail(known)) = Len(known) - 1
    BY <2>1, <1>4, HeadTailProperties
  <2>3. input' = Tail(known) /\ at' = 1 /\ at = 1
    BY <1>1, <1>3, <1>6
  <2>4. 1 \in 1 .. Len(Tail(known)) /\ 1 <= position + 1 + 1 /\ position + 1 \in Nat
    BY <2>2, <2>3, <1>1, <1>4
  <2> QED
    BY <2>2, <2>3, <2>4, <1>1, <1>3, <1>6 DEF Tape, S, token
<1> QED
  BY <1>5, <1>6, <1>1

LEMMA Later ==
    /\ \A a, b \in Nat : a <= b => a < b + 1 /\ a # b + 1
    /\ \A a, b : a \in Nat /\ b = a + 1 => a <= b /\ b # a
OBVIOUS

LEMMA HoldsConsumed ==
    ASSUME Tape, Tape', NEW F, \A s \in F : FrameOK(s), NEW q, Holds(q, F), NEW k,
           current \cap k # {}, position' = position + 1, trying' = trying, excused' = excused,
           previous' = IF current \cap k = {";"} THEN ";"
                       ELSE IF ";" \in current \cap k THEN "unknown" ELSE "other"
    PROVE  Holds(Consumed(q, k), F)'
<1>1. \A s \in F : s.x.position < position' /\ s.x.position # position'
  <2>1. position \in Nat
    BY DEF Tape
  <2> SUFFICES ASSUME NEW s \in F PROVE s.x.position < position + 1 /\ s.x.position # position + 1
    OBVIOUS
  <2>2. s.x.position \in Nat /\ s.x.position <= position
    BY DEF FrameOK
  <2> QED
    BY <2>1, <2>2, Later
<1>2. k = {";"} => previous' = ";"
  OBVIOUS
<1>3. current' \subseteq Kind
  BY CurrentToken
<1> QED
  BY <1>1, <1>2, <1>3 DEF Holds, Consumed, Blamed, Mood, Blame, Excuse

\* Nothing was consumed: the token is one of K.
LEMMA HoldsStill ==
    ASSUME NEW F, NEW q, Holds(q, F), NEW r, position' = position, trying' = trying, excused' = excused,
           previous' = previous, panic_mode' = panic_mode, ok' = ok,
           current' \subseteq r.here,
           current' \subseteq q.some => current' \subseteq r.some,
           current' \subseteq q.none => current' \subseteq r.none,
           current' \subseteq current, r.facts = q.facts
    PROVE  Holds(r, F)'
BY DEF Holds, Blamed

-----------------------------------------------------------------------------
(* The steps of the parser.                                                  *)
\* x is the next step of the stack z, and what is known before it holds.
Top(z, x, c, q, r) ==
    /\ Tape /\ Safe(z) /\ todo = Steps(z) /\ todo # <<>> /\ ~silent
    /\ z # <<>> /\ z[1].x = step /\ ~IsFrame(z[1]) /\ Holds(z[1].q, Frames(z))
    /\ x = step /\ c = z[1].c /\ q = z[1].q /\ r = z[1].r
    /\ \A s \in Frames(z) : FrameOK(s)

LEMMA StackTop ==
    ASSUME NEW z, Stack(z), Steps(z) # <<>>
    PROVE  z # <<>> /\ Len(z) \in Nat /\ 1 \in 1 .. Len(z) /\ Steps(z)[1] = z[1].x
           /\ Len(Steps(z)) = Len(z) /\ Fits(z[1].c, Origin(z[1].x), z[1].q, z[1].r)
<1>1. IsSeq(Steps(z)) /\ Len(Steps(z)) = Len(z) /\ \A i \in 1 .. Len(z) : Steps(z)[i] = z[i].x
  BY StepsAre DEF Stack
<1>2. Len(z) # 0
  BY <1>1 DEF IsSeq
<1>3. Len(z) \in Nat
  BY DEF Stack, IsSeq
<1>4. 1 \in 1 .. Len(z)
  BY <1>2, <1>3
<1>5. z # <<>>
  BY <1>2
<1> QED
  BY <1>1, <1>3, <1>4, <1>5 DEF Stack

LEMMA Topmost ==
    ASSUME IInv, NEW op \in Ops, Doing(op)
    PROVE  \E z, x, c, q, r, R :
              Top(z, x, c, q, r) /\ x.op = op /\ Closed(R) /\ Rule(R, c, x, q, r)
<1>1. PICK z : Tape /\ Safe(z) /\ todo = Steps(z) /\ todo # <<>> /\ ~silent
  BY DEF IInv, Doing
<1>2. z # <<>> /\ z[1].x = step /\ Fits(z[1].c, Origin(z[1].x), z[1].q, z[1].r)
  BY <1>1, StackTop DEF Safe, step
<1>3. step.op = op /\ op # "end" /\ op # "again"
  BY DEF Doing, Ops
<1>4. ~IsFrame(z[1]) /\ Origin(z[1].x) = step /\ Before(z[1]) = z[1].q
  BY <1>2, <1>3 DEF IsFrame, Origin, Before
<1>5. Holds(z[1].q, Frames(z)) /\ \A s \in Frames(z) : FrameOK(s)
  BY <1>1, <1>2, <1>3, <1>4 DEF Safe, Ready, Sound
<1>6. PICK R : Closed(R) /\ Rule(R, z[1].c, step, z[1].q, z[1].r)
  BY <1>2, <1>4, FitsRule
<1> QED
  BY <1>1, <1>2, <1>3, <1>4, <1>5, <1>6 DEF Top

LEMMA Performed ==
    ASSUME NEW z, NEW x, NEW c, NEW q, NEW r, Top(z, x, c, q, r),
           Tape', NEW s, Go(s), NEW t, Chain(c, s, t, r),
           Sound(Frames(z), Pairs(z))', Holds(t, Frames(z))', ~silent'
    PROVE  IInv'
<1>1. PICK y : Safe(y)' /\ Steps(y) = s \o Tail(Steps(z))
  BY Stepped DEF Top
<1>2. todo' = Steps(y)
  BY <1>1 DEF Go, Top
<1> QED
  BY <1>1, <1>2 DEF IInv

LEMMA Nothing ==
    ASSUME NEW c, NEW q, NEW r, Implies(q, r)
    PROVE  Chain(c, <<>>, q, r)
<1>1. IsSeq(<<>>)
  <2>1. <<>> \in Seq({})
    OBVIOUS
  <2> QED
    BY <2>1 DEF IsSeq
<1> QED
  BY <1>1 DEF Chain, Linked

LEMMA TopSound ==
    ASSUME NEW z, NEW x, NEW c, NEW q, NEW r, Top(z, x, c, q, r), Tape', position <= position', position' = position => current' \subseteq current,
           trying' = trying, trying => position' - (at' - 1) = position - (at - 1)
    PROVE  Sound(Frames(z), Pairs(z))'
<1>1. Tape /\ Sound(Frames(z), Pairs(z))
  BY DEF Top, Safe
<1>2. \A s, t : <<s, t>> \in Pairs(z) => s \in Frames(z) /\ t \in Frames(z)
  BY PairFrames
<1> QED
  BY <1>1, <1>2, SoundKept

\* A token was consumed, or what the current one can be is known.
LEMMA TopAdvanced ==
    ASSUME NEW z, NEW x, NEW c, NEW q, NEW r, Top(z, x, c, q, r), NEW k, current \cap k # {}, current \cap k # {"eof"}, Advance(k),
           excused' = excused
    PROVE  Tape' /\ Sound(Frames(z), Pairs(z))' /\ Holds(Consumed(q, k), Frames(z))'
<1>1. Tape /\ \A s \in Frames(z) : FrameOK(s)
  BY DEF Top
<1>2. /\ Tape' /\ position' = position + 1 /\ trying' = trying
      /\ trying => position' - (at' - 1) = position - (at - 1)
      /\ previous' = IF current \cap k = {";"} THEN ";"
                     ELSE IF ";" \in current \cap k THEN "unknown" ELSE "other"
  BY <1>1, Advanced
<1>3. position <= position' /\ position' # position
  <2>1. position \in Nat
    BY <1>1 DEF Tape
  <2> QED
    BY <2>1, <1>2, Later
<1>4. Sound(Frames(z), Pairs(z))'
  BY <1>2, <1>3, TopSound
<1>5. Holds(Consumed(q, k), Frames(z))'
  BY <1>1, <1>2, HoldsConsumed DEF Top
<1> QED
  BY <1>2, <1>4, <1>5

LEMMA TopLearned ==
    ASSUME NEW z, NEW x, NEW c, NEW q, NEW r, Top(z, x, c, q, r), NEW k, current \cap k # {}, Learn(k)
    PROVE  /\ Tape' /\ Sound(Frames(z), Pairs(z))' /\ current' = current \cap k
           /\ position' = position /\ trying' = trying /\ previous' = previous
<1>1. /\ Tape' /\ current' = current \cap k /\ position' = position /\ at' = at
      /\ trying' = trying /\ previous' = previous
  BY Learned DEF Top
<1>2. position <= position'
  BY <1>1 DEF Tape
<1> QED
  BY <1>1, <1>2, TopSound

LEMMA HoldsAmong ==
    ASSUME NEW z, NEW x, NEW c, NEW q, NEW r, Top(z, x, c, q, r), NEW k, current' = current \cap k, position' = position, trying' = trying,
           previous' = previous, UNCHANGED <<ok, flags>>
    PROVE  Holds(Among(q, k), Frames(z))'
<1>1. Holds(q, Frames(z))
  BY DEF Top
<1>2. current' \subseteq Among(q, k).here
  BY <1>1 DEF Among, Holds
<1> QED
  BY <1>1, <1>2, HoldsStill DEF Among, flags

LEMMA HoldsWithout ==
    ASSUME NEW z, NEW x, NEW c, NEW q, NEW r, Top(z, x, c, q, r), NEW k, current' = current \cap (Kind \ k), position' = position,
           trying' = trying, previous' = previous, UNCHANGED <<ok, flags>>
    PROVE  Holds(Without(q, k), Frames(z))'
<1>1. Holds(q, Frames(z))
  BY DEF Top
<1>2. current' \subseteq Without(q, k).here
  BY <1>1 DEF Without, Holds
<1> QED
  BY <1>1, <1>2, HoldsStill DEF Without, flags

LEMMA KindOnly ==
    ASSUME Tape, NEW k
    PROVE  IsNot(k) => current \cap (Kind \ k) # {}
BY CurrentToken DEF IsNot

LEMMA NeedKeeps ==
    ASSUME IInv, NeedStep
    PROVE  IInv'
<1>1. Doing("need") /\ "need" \in Ops
  BY DEF NeedStep, Ops
<1>2. PICK z, x, c, q, r, R :
       Top(z, x, c, q, r) /\ x.op = "need" /\ Closed(R) /\ Rule(R, c, x, q, r)
  BY <1>1, Topmost
<1> DEFINE k == x.kinds
<1>3. "eof" \notin k /\ Implies(Consumed(q, k), r) /\ Implies(Reported(Without(q, k)), r)
  BY <1>2 DEF Rule
<1>4. Go(<<>>) /\ ok' = ok /\ ~silent
  BY <1>2 DEF NeedStep, Top
<1>5. CASE Is(k) /\ Advance(k) /\ UNCHANGED flags
  <2>1. current \cap k # {} /\ current \cap k # {"eof"} /\ excused' = excused /\ silent' = silent
    BY <1>5, <1>3 DEF Is, flags
  <2>2. Tape' /\ Sound(Frames(z), Pairs(z))' /\ Holds(Consumed(q, k), Frames(z))'
    BY <2>1, <1>2, <1>5, TopAdvanced
  <2>3. Chain(c, <<>>, Consumed(q, k), r)
    BY <1>3, Nothing
  <2> QED
    BY <2>1, <2>2, <2>3, <1>2, <1>4, Performed
<1>6. CASE IsNot(k) /\ Learn(Kind \ k) /\ error
  <2>1. current \cap (Kind \ k) # {} /\ panic_mode' = TRUE /\ excused' = excused /\ silent' = silent
    BY <1>2, <1>6, KindOnly DEF Top, error
  <2>2. /\ Tape' /\ Sound(Frames(z), Pairs(z))' /\ current' = current \cap (Kind \ k)
        /\ position' = position /\ trying' = trying /\ previous' = previous
    BY <2>1, <1>2, <1>6, TopLearned
  <2>3. Holds(Reported(Without(q, k)), Frames(z))'
    <3>1. Holds(q, Frames(z))
      BY <1>2 DEF Top
    <3> QED
      BY <3>1, <2>1, <2>2, <1>4 DEF Holds, Without, Reported, With, Blamed, Blame
  <2>4. Chain(c, <<>>, Reported(Without(q, k)), r)
    BY <1>3, Nothing
  <2> QED
    BY <2>1, <2>2, <2>3, <2>4, <1>2, <1>4, Performed
<1> QED
  BY <1>2, <1>5, <1>6 DEF NeedStep, Top

LEMMA CasesKeeps ==
    ASSUME IInv, CasesStep
    PROVE  IInv'
<1>1. Doing("cases") /\ "cases" \in Ops
  BY DEF CasesStep, Ops
<1>2. PICK z, x, c, q, r, R :
       Top(z, x, c, q, r) /\ x.op = "cases" /\ Closed(R) /\ Rule(R, c, x, q, r)
  BY <1>1, Topmost
<1> DEFINE all == UNION {x.alternatives[i].kinds : i \in DOMAIN x.alternatives}
<1>3. /\ \A i \in DOMAIN x.alternatives :
            /\ "eof" \notin x.alternatives[i].kinds
            /\ Chain(c, x.alternatives[i].body, Consumed(q, x.alternatives[i].kinds), r)
      /\ Chain(c, x.no, Without(q, all), r)
  BY <1>2, InChain DEF Rule
<1>4. UNCHANGED <<ok, flags>> /\ ~silent /\ ~silent' /\ excused' = excused
  BY <1>2 DEF CasesStep, Top, flags
<1>5. ASSUME NEW i \in DOMAIN x.alternatives,
             Is(x.alternatives[i].kinds) /\ Advance(x.alternatives[i].kinds)
               /\ Go(x.alternatives[i].body)
      PROVE  IInv'
  <2> DEFINE k == x.alternatives[i].kinds
  <2>1. current \cap k # {} /\ current \cap k # {"eof"}
    BY <1>5, <1>3 DEF Is
  <2>2. Tape' /\ Sound(Frames(z), Pairs(z))' /\ Holds(Consumed(q, k), Frames(z))'
    BY <2>1, <1>2, <1>4, <1>5, TopAdvanced
  <2> QED
    BY <2>2, <1>2, <1>3, <1>4, <1>5, Performed
<1>6. CASE IsNot(all) /\ Learn(Kind \ all) /\ Go(x.no)
  <2>1. current \cap (Kind \ all) # {}
    BY <1>2, <1>6, KindOnly DEF Top
  <2>2. /\ Tape' /\ Sound(Frames(z), Pairs(z))' /\ current' = current \cap (Kind \ all)
        /\ position' = position /\ trying' = trying /\ previous' = previous
    BY <2>1, <1>2, <1>6, TopLearned
  <2>3. Holds(Without(q, all), Frames(z))'
    BY <2>2, <1>2, <1>4, HoldsWithout
  <2> QED
    BY <2>2, <2>3, <1>2, <1>3, <1>4, <1>6, Performed
<1> QED
  BY <1>2, <1>5, <1>6 DEF CasesStep, Top

LEMMA LookKeeps ==
    ASSUME IInv, LookStep
    PROVE  IInv'
<1>1. Doing("look") /\ "look" \in Ops
  BY DEF LookStep, Ops
<1>2. PICK z, x, c, q, r, R :
       Top(z, x, c, q, r) /\ x.op = "look" /\ Closed(R) /\ Rule(R, c, x, q, r)
  BY <1>1, Topmost
<1> DEFINE k == x.kinds
<1>3. Chain(c, x.yes, Among(q, k), r) /\ Chain(c, x.no, Without(q, k), r)
  BY <1>2, InChain DEF Rule
<1>4. UNCHANGED <<ok, flags>> /\ ~silent'
  BY <1>2 DEF LookStep, Top, flags
<1>5. CASE Is(k) /\ Learn(k) /\ Go(x.yes)
  <2>1. current \cap k # {}
    BY <1>5 DEF Is
  <2>2. /\ Tape' /\ Sound(Frames(z), Pairs(z))' /\ current' = current \cap k
        /\ position' = position /\ trying' = trying /\ previous' = previous
    BY <2>1, <1>2, <1>5, TopLearned
  <2>3. Holds(Among(q, k), Frames(z))'
    BY <2>2, <1>2, <1>4, HoldsAmong
  <2> QED
    BY <2>2, <2>3, <1>2, <1>3, <1>4, <1>5, Performed
<1>6. CASE IsNot(k) /\ Learn(Kind \ k) /\ Go(x.no)
  <2>1. current \cap (Kind \ k) # {}
    BY <1>2, <1>6, KindOnly DEF Top
  <2>2. /\ Tape' /\ Sound(Frames(z), Pairs(z))' /\ current' = current \cap (Kind \ k)
        /\ position' = position /\ trying' = trying /\ previous' = previous
    BY <2>1, <1>2, <1>6, TopLearned
  <2>3. Holds(Without(q, k), Frames(z))'
    BY <2>2, <1>2, <1>4, HoldsWithout
  <2> QED
    BY <2>2, <2>3, <1>2, <1>3, <1>4, <1>6, Performed
<1> QED
  BY <1>2, <1>5, <1>6 DEF LookStep, Top

LEMMA AheadKeeps ==
    ASSUME IInv, AheadStep
    PROVE  IInv'
<1>1. Doing("ahead") /\ "ahead" \in Ops
  BY DEF AheadStep, Ops
<1>2. PICK z, x, c, q, r, R :
       Top(z, x, c, q, r) /\ x.op = "ahead" /\ Closed(R) /\ Rule(R, c, x, q, r)
  BY <1>1, Topmost
<1> DEFINE S == (SUBSET Kind) \ {{}}
           known == IF at < Len(input) THEN input ELSE Append(input, Token(position + 2))
           next == known[at + 1]
<1>3. Chain(c, x.yes, q, r) /\ Chain(c, x.no, q, r)
  BY <1>2, InChain DEF Rule
<1>4. /\ UNCHANGED <<ok, flags>> /\ ~silent' /\ at' = at /\ trying' = trying /\ position' = position
      /\ previous' = previous
  BY <1>2 DEF AheadStep, Top, flags
<1>5. input \in Seq(S) /\ at \in 1 .. Len(input) /\ Len(input) \in Nat /\ at \in Nat /\ at >= 1 /\ Tape
  BY <1>2 DEF Top, Tape
<1>6. known \in Seq(S) /\ at + 1 \in 1 .. Len(known) /\ known[at] = input[at] /\ Len(known) \in Nat
  <2>1. CASE at < Len(input)
    BY <2>1, <1>5
  <2>2. CASE ~(at < Len(input))
    <3>1. Token(position + 2) \in S
      BY Tokens
    <3>2. /\ Append(input, Token(position + 2)) \in Seq(S)
          /\ Len(Append(input, Token(position + 2))) = Len(input) + 1
          /\ \A i \in 1 .. Len(input) : Append(input, Token(position + 2))[i] = input[i]
      BY <3>1, <1>5, AppendProperties
    <3> QED
      BY <3>2, <2>2, <1>5
  <2> QED
    BY <2>1, <2>2
<1> HIDE DEF known
<1>7. ASSUME NEW k \in S, input' = [known EXCEPT ![at + 1] = k]
      PROVE  Tape' /\ current' = current
  <2>1. input' \in Seq(S) /\ Len(input') = Len(known) /\ \A i \in 1 .. Len(known) : i # at + 1 => input'[i] = known[i]
    BY <1>6, <1>7, ExceptSeq
  <2>2. at \in 1 .. Len(known) /\ at # at + 1
    BY <1>5, <1>6
  <2> HIDE DEF S
  <2>3. input'[at] = input[at] /\ at \in 1 .. Len(input')
    BY <2>1, <2>2, <1>6
  <2> QED
    BY <2>1, <2>3, <1>4, <1>5 DEF Tape, current, S
<1>8. ASSUME Tape', current' = current
      PROVE  Sound(Frames(z), Pairs(z))' /\ Holds(q, Frames(z))'
  <2>1. position <= position'
    BY <1>4, <1>5 DEF Tape
  <2>2. Sound(Frames(z), Pairs(z))'
    BY <2>1, <1>2, <1>4, <1>8, TopSound
  <2>3. Holds(q, Frames(z))
    BY <1>2 DEF Top
  <2>4. Holds(q, Frames(z))'
    BY <2>3, <1>4, <1>8 DEF Holds, Blamed, flags
  <2> QED
    BY <2>2, <2>4
<1>9. next \in SUBSET Kind
  <2>1. next \in S
    BY <1>6
  <2> QED
    BY <2>1
<1>10. CASE /\ next \cap x.kinds # {}
            /\ input' = [known EXCEPT ![at + 1] = next \cap x.kinds] /\ Go(x.yes)
  <2>1. next \cap x.kinds \in S
    BY <1>9, <1>10
  <2>2. Tape' /\ current' = current
    BY <2>1, <1>7, <1>10
  <2> QED
    BY <2>2, <1>8, <1>2, <1>3, <1>4, <1>10, Performed
<1>11. CASE /\ next \ x.kinds # {}
            /\ input' = [known EXCEPT ![at + 1] = next \ x.kinds] /\ Go(x.no)
  <2>1. next \ x.kinds \in S
    BY <1>9, <1>11
  <2>2. Tape' /\ current' = current
    BY <2>1, <1>7, <1>11
  <2> QED
    BY <2>2, <1>8, <1>2, <1>3, <1>4, <1>11, Performed
<1> QED
  BY <1>2, <1>10, <1>11 DEF AheadStep, known, Top

LEMMA ManyKinds ==
    Kind # {";"} /\ Kind \ {"eof"} # {";"}
<1>1. "?" \in Kind \ {"eof"} /\ "?" \in Kind
  BY DEF Kind
<1>2. "?" \notin {";"}
  OBVIOUS
<1> QED
  BY <1>1, <1>2

LEMMA SkipKeeps ==
    ASSUME IInv, SkipStep
    PROVE  IInv'
<1>1. Doing("skip") /\ "skip" \in Ops
  BY DEF SkipStep, Ops
<1>2. PICK z, x, c, q, r, R : Top(z, x, c, q, r) /\ x.op = "skip" /\ Closed(R) /\ Rule(R, c, x, q, r)
  BY <1>1, Topmost
<1>3. Implies(Consumed(q, Kind), r) /\ Implies(Among(q, {"eof"}), r)
  BY <1>2 DEF Rule
<1>4. Go(<<>>) /\ UNCHANGED <<ok, flags>> /\ ~silent' /\ excused' = excused /\ Tape
  BY <1>2 DEF SkipStep, Top, flags
<1>5. CASE Is({"eof"}) /\ Advance({"eof"})
  <2>1. current \cap {"eof"} = {"eof"} /\ current \cap {"eof"} # {} /\ Learn({"eof"})
    BY <1>5 DEF Is, Advance
  <2>2. /\ Tape' /\ Sound(Frames(z), Pairs(z))' /\ current' = current \cap {"eof"}
        /\ position' = position /\ trying' = trying /\ previous' = previous
    BY <2>1, <1>2, TopLearned
  <2>3. Holds(Among(q, {"eof"}), Frames(z))'
    BY <2>2, <1>2, <1>4, HoldsAmong
  <2>4. Chain(c, <<>>, Among(q, {"eof"}), r)
    BY <1>3, Nothing
  <2> QED
    BY <2>2, <2>3, <2>4, <1>2, <1>4, Performed
<1>6. CASE IsNot({"eof"}) /\ Advance(Kind \ {"eof"})
  <2> DEFINE k == Kind \ {"eof"}
  <2>1. current \cap k # {} /\ current \cap k # {"eof"}
    BY <1>4, <1>6, KindOnly
  <2>2. Tape' /\ Sound(Frames(z), Pairs(z))' /\ Holds(Consumed(q, k), Frames(z))'
    BY <2>1, <1>2, <1>4, <1>6, TopAdvanced
  <2>3. Implies(Consumed(q, k), Consumed(q, Kind))
    <3>1. k # {";"} /\ Kind # {";"}
      BY ManyKinds
    <3> QED
      BY <3>1 DEF Implies, Consumed, Moved
  <2>4. Chain(c, <<>>, Consumed(q, k), r)
    BY <2>3, <1>3, Nothing, ImpliesTrans
  <2> QED
    BY <2>2, <2>4, <1>2, <1>4, Performed
<1> QED
  BY <1>5, <1>6 DEF SkipStep

LEMMA DropKeeps ==
    ASSUME IInv, DropStep
    PROVE  IInv'
<1>1. Doing("drop") /\ "drop" \in Ops
  BY DEF DropStep, Ops
<1>2. PICK z, x, c, q, r, R : Top(z, x, c, q, r) /\ x.op = "drop" /\ Closed(R) /\ Rule(R, c, x, q, r)
  BY <1>1, Topmost
<1>3. "eof" \notin q.here /\ "excused" \in q.facts /\ Implies(Consumed(q, Kind), r)
  BY <1>2 DEF Rule
<1>4. excused /\ current \subseteq q.here
  BY <1>2, <1>3 DEF Top, Holds
<1> DEFINE k == Kind \ {"eof"}
<1>5. Go(<<>>) /\ Advance(k) /\ ~silent' /\ excused' = excused /\ Tape
  BY <1>2, <1>4 DEF DropStep, Top
<1>6. current \cap k # {} /\ current \cap k # {"eof"}
  BY <1>3, <1>4, <1>5, CurrentToken
<1>7. Tape' /\ Sound(Frames(z), Pairs(z))' /\ Holds(Consumed(q, k), Frames(z))'
  BY <1>2, <1>5, <1>6, TopAdvanced
<1>8. Implies(Consumed(q, k), Consumed(q, Kind))
  <2>1. k # {";"} /\ Kind # {";"}
    BY ManyKinds
  <2> QED
    BY <2>1 DEF Implies, Consumed, Moved
<1>9. Chain(c, <<>>, Consumed(q, k), r)
  BY <1>3, <1>8, Nothing, ImpliesTrans
<1> QED
  BY <1>2, <1>5, <1>7, <1>9, Performed

\* The steps that read nothing.
LEMMA TopUnread ==
    ASSUME NEW z, NEW x, NEW c, NEW q, NEW r, Top(z, x, c, q, r), UNCHANGED tape
    PROVE  /\ Tape' /\ Sound(Frames(z), Pairs(z))' /\ current' = current /\ position' = position
           /\ trying' = trying /\ previous' = previous
<1>1. /\ input' = input /\ at' = at /\ trying' = trying /\ position' = position /\ previous' = previous
  BY DEF tape
<1>2. Tape
  BY DEF Top
<1>3. Tape' /\ current' = current
  BY <1>1, <1>2 DEF Tape, current
<1>4. position <= position'
  BY <1>1, <1>2 DEF Tape
<1> QED
  BY <1>1, <1>3, <1>4, TopSound

LEMMA ErrorKeeps ==
    ASSUME IInv, ErrorStep
    PROVE  IInv'
<1>1. Doing("error") /\ "error" \in Ops
  BY DEF ErrorStep, Ops
<1>2. PICK z, x, c, q, r, R : Top(z, x, c, q, r) /\ x.op = "error" /\ Closed(R) /\ Rule(R, c, x, q, r)
  BY <1>1, Topmost
<1>3. Chain(c, <<>>, Reported(q), r)
  BY <1>2, Nothing DEF Rule
<1>4. /\ Go(<<>>) /\ ok' = ok /\ UNCHANGED tape /\ ~silent' /\ excused' = excused /\ panic_mode' = TRUE
  BY <1>2 DEF ErrorStep, Top, error
<1>5. /\ Tape' /\ Sound(Frames(z), Pairs(z))' /\ current' = current /\ position' = position
      /\ trying' = trying /\ previous' = previous
  BY <1>2, <1>4, TopUnread
<1>6. Holds(Reported(q), Frames(z))'
  <2>1. Holds(q, Frames(z))
    BY <1>2 DEF Top
  <2> QED
    BY <2>1, <1>4, <1>5 DEF Holds, Reported, With, Blame, Blamed
<1> QED
  BY <1>2, <1>3, <1>4, <1>5, <1>6, Performed

LEMMA RecoverKeeps ==
    ASSUME IInv, RecoverStep
    PROVE  IInv'
<1>1. Doing("recover") /\ "recover" \in Ops
  BY DEF RecoverStep, Ops
<1>2. PICK z, x, c, q, r, R : Top(z, x, c, q, r) /\ x.op = "recover" /\ Closed(R) /\ Rule(R, c, x, q, r)
  BY <1>1, Topmost
<1>3. Chain(c, <<>>, Recovering(q), r)
  BY <1>2, Nothing DEF Rule
<1>4. /\ Go(<<>>) /\ ok' = ok /\ UNCHANGED tape /\ ~silent' /\ excused' = panic_mode /\ panic_mode' = FALSE
  BY <1>2 DEF RecoverStep, Top
<1>5. /\ Tape' /\ Sound(Frames(z), Pairs(z))' /\ current' = current /\ position' = position
      /\ trying' = trying /\ previous' = previous
  BY <1>2, <1>4, TopUnread
<1>6. Holds(Recovering(q), Frames(z))'
  <2>1. Holds(q, Frames(z))
    BY <1>2 DEF Top
  <2>2. "blamed" \in q.facts => excused' \/ (previous' = ";" /\ \A s \in Frames(z) : s.x.position < position')
    BY <2>1, <1>4, <1>5 DEF Holds, Blamed
  <2>3. \A f \in {"trial", "settled", "past"} : f \in Recovering(q).facts <=> f \in q.facts
    BY DEF Recovering
  <2>4. /\ "answered" \notin Recovering(q).facts /\ "blamed" \notin Recovering(q).facts
        /\ "excused" \notin Recovering(q).facts
        /\ "ended" \in Recovering(q).facts => "blamed" \in q.facts
        /\ "gone" \in Recovering(q).facts => "blamed" \in q.facts
    BY DEF Recovering
  <2>5. Recovering(q).here = q.here /\ Recovering(q).some = q.some /\ Recovering(q).none = q.none
    BY DEF Recovering
  <2> QED
    BY <2>1, <2>2, <2>3, <2>4, <2>5, <1>4, <1>5 DEF Holds
<1> QED
  BY <1>2, <1>3, <1>4, <1>5, <1>6, Performed

\* A branch, whose condition says more of what is known.
LEMMA Branched ==
    ASSUME NEW z, NEW x, NEW c, NEW q, NEW r, Top(z, x, c, q, r),
           NEW s, NEW t, Go(s), UNCHANGED <<ok, flags, tape>>, Chain(c, s, t, r),
           Holds(q, Frames(z)) => Holds(t, Frames(z))
    PROVE  IInv'
<1>1. /\ Tape' /\ Sound(Frames(z), Pairs(z))' /\ current' = current /\ position' = position
      /\ trying' = trying /\ previous' = previous
  BY TopUnread
<1>2. Holds(t, Frames(z)) /\ ~silent
  BY DEF Top
<1>3. Holds(t, Frames(z))' /\ ~silent'
  BY <1>1, <1>2 DEF Holds, Blamed, flags
<1> QED
  BY <1>1, <1>3, Performed

-----------------------------------------------------------------------------
(* The frames below a step.                                                  *)
LEMMA NoUnitFunction ==
    "translation_unit" \notin Function
BY DEF Function, Program

LEMMA TopIndices ==
    ASSUME NEW z, NEW x, NEW c, NEW q, NEW r, Top(z, x, c, q, r)
    PROVE  /\ Stack(z) /\ z # <<>> /\ Len(z) \in Nat /\ 1 \in 1 .. Len(z) /\ Len(z) \in 1 .. Len(z)
           /\ Where(z) = c /\ DOMAIN todo = 1 .. Len(z) /\ \A i \in 1 .. Len(z) : todo[i] = z[i].x
<1>1. Stack(z) /\ todo = Steps(z) /\ Steps(z) # <<>> /\ z # <<>> /\ ~IsFrame(z[1]) /\ c = z[1].c
  BY DEF Top, Safe
<1>2. Len(z) \in Nat /\ 1 \in 1 .. Len(z)
  BY <1>1, StackTop
<1>3. Where(z) = c
  BY <1>1 DEF Where, Around, IsFrame
<1>4. DOMAIN todo = 1 .. Len(z) /\ \A i \in 1 .. Len(z) : todo[i] = z[i].x
  BY <1>1 DEF Steps
<1> QED
  BY <1>1, <1>2, <1>3, <1>4

\* The first frame, if there is one.
LEMMA FirstFrame ==
    ASSUME NEW z, NEW x, NEW c, NEW q, NEW r, Top(z, x, c, q, r)
    PROVE  \/ Frames(z) = {} /\ c = Outermost
           \/ \E l \in 1 .. Len(z) : /\ IsFrame(z[l]) /\ c = Around(z[l])
                                     /\ \A m \in 1 .. Len(z) : IsFrame(z[m]) => l <= m
<1>1. /\ Stack(z) /\ z # <<>> /\ Len(z) \in Nat /\ Len(z) \in 1 .. Len(z) /\ Where(z) = c
  BY TopIndices
<1> DEFINE D == {i \in 1 .. Len(z) : IsFrame(z[i])}
<1>2. CASE D = {}
  <2>1. Frames(z) = {}
    BY <1>2, FramesAre
  <2>2. \A m \in 1 .. Len(z) - 1 : ~IsFrame(z[m])
    BY <1>1, <1>2
  <2>3. c = Around(z[Len(z)])
    BY <1>1, <2>2, Enclosing
  <2>4. z[Len(z)].c = Outermost /\ ~IsFrame(z[Len(z)])
    BY <1>1, <1>2 DEF Stack
  <2> QED
    BY <2>1, <2>3, <2>4 DEF Around, IsFrame
<1>3. CASE D # {}
  <2>1. PICK l \in D : \A m \in D : l <= m
    <3>1. D \in SUBSET Nat
      BY <1>1
    <3> HIDE DEF D
    <3> QED
      BY <3>1, <1>3, LeastElement
  <2>2. l \in 1 .. Len(z) /\ IsFrame(z[l])
    BY <2>1
  <2>3. \A m \in 1 .. l - 1 : ~IsFrame(z[m])
    BY <1>1, <2>1
  <2>4. c = Around(z[l])
    BY <1>1, <2>2, <2>3, Enclosing
  <2> QED
    BY <2>1, <2>2, <2>4
<1> QED
  BY <1>2, <1>3

LEMMA InnerLoop ==
    ASSUME NEW z, NEW x, NEW c, NEW q, NEW r, Top(z, x, c, q, r), c.loop # "none"
    PROVE  \E l \in 1 .. Len(z) : /\ l = First(Loops) /\ l > 1 /\ IsFrame(z[l]) /\ z[l].x.op = "again"
                                  /\ c = InLoop(z[l].c, z[l].x.name, z[l].q, z[l].r)
                                  /\ \A m \in 1 .. Len(z) : IsFrame(z[m]) => l <= m
<1>1. c # Outermost
  BY DEF Outermost, InFunction
<1>2. PICK l \in 1 .. Len(z) : /\ IsFrame(z[l]) /\ c = Around(z[l])
                               /\ \A m \in 1 .. Len(z) : IsFrame(z[m]) => l <= m
  BY <1>1, FirstFrame
<1>3. z[l].x.op = "again"
  BY <1>2 DEF IsFrame, Around, InFunction
<1>4. c = InLoop(z[l].c, z[l].x.name, z[l].q, z[l].r)
  BY <1>2, <1>3 DEF Around
<1>5. /\ DOMAIN todo = 1 .. Len(z) /\ \A i \in 1 .. Len(z) : todo[i] = z[i].x
      /\ Len(z) \in Nat /\ ~IsFrame(z[1])
  BY TopIndices DEF Top
<1>6. l \in Loops /\ \A j \in Loops : l <= j
  BY <1>2, <1>3, <1>5 DEF Loops, IsFrame
<1>7. \A i \in Loops : (\A j \in Loops : i <= j) => i = l
  <2>1. \A i \in Loops : i \in Nat
    BY <1>5 DEF Loops
  <2> QED
    BY <1>6, <2>1
<1>8. l = First(Loops)
  BY <1>6, <1>7 DEF First
<1>9. l > 1
  BY <1>2, <1>5
<1> QED
  BY <1>2, <1>3, <1>4, <1>8, <1>9

LEMMA InnerCall ==
    ASSUME NEW z, NEW x, NEW c, NEW q, NEW r, Top(z, x, c, q, r)
    PROVE  \/ c.f = "translation_unit" /\ \A i \in 1 .. Len(z) : z[i].x.op # "end"
           \/ \E l \in 1 .. Len(z) : /\ l = First(Calls) /\ l > 1 /\ z[l].x.op = "end"
                                     /\ c.f = z[l].x.f /\ c.mood = MoodOf(z[l].q)
                                     /\ \A m \in 1 .. Len(z) : z[m].x.op = "end" => l <= m
<1>1. /\ Stack(z) /\ z # <<>> /\ Len(z) \in Nat /\ Len(z) \in 1 .. Len(z) /\ Where(z) = c
      /\ DOMAIN todo = 1 .. Len(z) /\ \A i \in 1 .. Len(z) : todo[i] = z[i].x
  BY TopIndices
<1> DEFINE D == {i \in 1 .. Len(z) : z[i].x.op = "end"}
<1>2. CASE D = {}
  <2>1. \A m \in 1 .. Len(z) - 1 : z[m].x.op # "end"
    BY <1>1, <1>2
  <2>2. c.f = Around(z[Len(z)]).f
    BY <1>1, <2>1, Calling
  <2>3. z[Len(z)].c = Outermost /\ z[Len(z)].x.op # "end"
    BY <1>1, <1>2 DEF Stack
  <2>4. c.f = "translation_unit"
    BY <2>2, <2>3 DEF Around, InLoop, Outermost, InFunction
  <2> QED
    BY <2>4, <1>2
<1>3. CASE D # {}
  <2>1. PICK l \in D : \A m \in D : l <= m
    <3>1. D \in SUBSET Nat
      BY <1>1
    <3> HIDE DEF D
    <3> QED
      BY <3>1, <1>3, LeastElement
  <2>2. l \in 1 .. Len(z) /\ z[l].x.op = "end"
    BY <2>1
  <2>3. \A m \in 1 .. l - 1 : z[m].x.op # "end"
    BY <1>1, <2>1
  <2>4. c.f = Around(z[l]).f /\ c.mood = Around(z[l]).mood
    BY <1>1, <2>2, <2>3, Calling
  <2>5. c.f = z[l].x.f /\ c.mood = MoodOf(z[l].q)
    BY <2>2, <2>4 DEF Around, InFunction
  <2>6. l \in Calls /\ \A j \in Calls : l <= j
    BY <1>1, <2>1, <2>2 DEF Calls
  <2>7. \A i \in Calls : (\A j \in Calls : i <= j) => i = l
    <3>1. \A i \in Calls : i \in Nat
      BY <1>1 DEF Calls
    <3> QED
      BY <2>6, <3>1
  <2>8. l = First(Calls)
    BY <2>6, <2>7 DEF First
  <2>9. l > 1
    <3>1. ~IsFrame(z[1])
      BY DEF Top
    <3> QED
      BY <3>1, <2>2, <1>1 DEF IsFrame
  <2> QED
    BY <2>1, <2>2, <2>5, <2>8, <2>9
<1> QED
  BY <1>2, <1>3

\* Where no type is tried for, none is below either.
LEMMA TopSettled ==
    ASSUME NEW z, NEW x, NEW c, NEW q, NEW r, Top(z, x, c, q, r), c.mood = "settled"
    PROVE  \A s \in Frames(z) : "settled" \in s.q.facts
<1>1. CASE Frames(z) = {}
  BY <1>1
<1>2. ASSUME NEW l \in 1 .. Len(z), IsFrame(z[l]), c = Around(z[l]),
             \A m \in 1 .. Len(z) : IsFrame(z[m]) => l <= m
      PROVE  \A s \in Frames(z) : "settled" \in s.q.facts
  <2> DEFINE f == z[l]
  <2>1. Fits(f.c, Origin(f.x), f.q, f.r)
    BY TopIndices DEF Stack
  <2>2. PICK R : Rule(R, f.c, Origin(f.x), f.q, f.r)
    BY <2>1, FitsRule
  <2>3. f.c.mood = "settled" /\ "settled" \in f.q.facts
    <3>1. CASE f.x.op = "again"
      <4>1. Mood(f.q) = {f.c.mood} /\ f.c.mood = c.mood
        BY <3>1, <2>2, <1>2 DEF Rule, Origin, Loop, Around, InLoop
      <4> QED
        BY <4>1 DEF Mood
    <3>2. CASE f.x.op = "end"
      <4>1. MoodOf(f.q) = "settled"
        BY <3>2, <1>2 DEF Around, InFunction
      <4>2. "settled" \in f.q.facts
        BY <4>1 DEF MoodOf
      <4>3. (Mood(f.q) = {"settled"} /\ f.c.mood = "settled") \/ Mood(f.q) = {"trial"}
        BY <3>2, <2>2 DEF Rule, Origin, Call
      <4> QED
        BY <4>2, <4>3 DEF Mood
    <3> QED
      BY <3>1, <3>2, <1>2 DEF IsFrame
  <2>4. ASSUME NEW s \in Frames(z) PROVE "settled" \in s.q.facts
    <3>1. PICK m \in 1 .. Len(z) : s = z[m] /\ IsFrame(z[m])
      BY <2>4, FramesAre
    <3>2. CASE m = l
      BY <3>1, <3>2, <2>3
    <3>3. CASE m # l
      <4>1. l < m
        BY <3>1, <3>3, <1>2, TopIndices
      <4>2. <<f, s>> \in Pairs(z)
        BY <3>1, <4>1, <1>2, PairsAre
      <4>3. PairOK(f, s)
        BY <4>2 DEF Top, Safe, Sound
      <4> QED
        BY <4>3, <2>3 DEF PairOK
    <3> QED
      BY <3>2, <3>3
  <2> QED
    BY <2>4
<1> QED
  BY <1>1, <1>2, FirstFrame

LEMMA ChooseKeeps ==
    ASSUME IInv, NEW b \in BOOLEAN, Branch("choose", b)
    PROVE  IInv'
<1>1. Doing("choose") /\ "choose" \in Ops
  BY DEF Branch, Ops
<1>2. PICK z, x, c, q, r, R : Top(z, x, c, q, r) /\ x.op = "choose" /\ Closed(R) /\ Rule(R, c, x, q, r)
  BY <1>1, Topmost
<1>3. Chain(c, x.yes, q, r) /\ Chain(c, x.no, q, r)
  BY <1>2, InChain DEF Rule
<1>4. UNCHANGED <<ok, flags, tape>> /\ (Go(x.yes) \/ Go(x.no))
  BY <1>2 DEF Branch, Top
<1> QED
  BY <1>2, <1>3, <1>4, Branched

LEMMA IfOkKeeps ==
    ASSUME IInv, Branch("ifok", ok)
    PROVE  IInv'
<1>1. Doing("ifok") /\ "ifok" \in Ops
  BY DEF Branch, Ops
<1>2. PICK z, x, c, q, r, R : Top(z, x, c, q, r) /\ x.op = "ifok" /\ Closed(R) /\ Rule(R, c, x, q, r)
  BY <1>1, Topmost
<1>3. Chain(c, x.yes, Succeeded(q), r) /\ Chain(c, x.no, Failed(q), r)
  BY <1>2, InChain DEF Rule
<1>4. UNCHANGED <<ok, flags, tape>> /\ (ok => Go(x.yes)) /\ (~ok => Go(x.no))
  BY <1>2 DEF Branch, Top
<1>5. CASE ok
  <2>1. Holds(q, Frames(z)) => Holds(Succeeded(q), Frames(z))
    BY <1>5 DEF Holds, Succeeded
  <2> QED
    BY <2>1, <1>2, <1>3, <1>4, <1>5, Branched
<1>6. CASE ~ok
  <2>1. Holds(q, Frames(z)) => Holds(Failed(q), Frames(z))
    BY <1>6 DEF Holds, Failed
  <2> QED
    BY <2>1, <1>2, <1>3, <1>4, <1>6, Branched
<1> QED
  BY <1>5, <1>6

LEMMA IfPanicKeeps ==
    ASSUME IInv, Branch("ifpanic", panic_mode)
    PROVE  IInv'
<1>1. Doing("ifpanic") /\ "ifpanic" \in Ops
  BY DEF Branch, Ops
<1>2. PICK z, x, c, q, r, R : Top(z, x, c, q, r) /\ x.op = "ifpanic" /\ Closed(R) /\ Rule(R, c, x, q, r)
  BY <1>1, Topmost
<1>3. Chain(c, x.yes, Reported(q), r) /\ Chain(c, x.no, q, r)
  BY <1>2, InChain DEF Rule
<1>4. UNCHANGED <<ok, flags, tape>> /\ (panic_mode => Go(x.yes)) /\ (~panic_mode => Go(x.no))
  BY <1>2 DEF Branch, Top
<1>5. CASE panic_mode
  <2>1. Holds(q, Frames(z)) => Holds(Reported(q), Frames(z))
    BY <1>5 DEF Holds, Reported, With, Blame, Blamed
  <2> QED
    BY <2>1, <1>2, <1>3, <1>4, <1>5, Branched
<1>6. CASE ~panic_mode
  BY <1>2, <1>3, <1>4, <1>6, Branched
<1> QED
  BY <1>5, <1>6

LEMMA AfterSemicolonKeeps ==
    ASSUME IInv, NEW b \in BOOLEAN, previous \in {"unknown", IF b THEN ";" ELSE "other"},
           Branch("aftersemi", b)
    PROVE  IInv'
<1>1. Doing("aftersemi") /\ "aftersemi" \in Ops
  BY DEF Branch, Ops
<1>2. PICK z, x, c, q, r, R : Top(z, x, c, q, r) /\ x.op = "aftersemi" /\ Closed(R) /\ Rule(R, c, x, q, r)
  BY <1>1, Topmost
<1>3. Chain(c, x.yes, q, r) /\ Chain(c, x.no, NotEnded(q), r)
  BY <1>2, InChain DEF Rule
<1>4. UNCHANGED <<ok, flags, tape>> /\ (b => Go(x.yes)) /\ (~b => Go(x.no))
  BY <1>2 DEF Branch, Top
<1>5. CASE b
  BY <1>2, <1>3, <1>4, <1>5, Branched
<1>6. CASE ~b
  <2>1. previous # ";"
    BY <1>6
  <2>2. Holds(q, Frames(z)) => Holds(NotEnded(q), Frames(z))
    BY <2>1 DEF Holds, NotEnded, With
  <2> QED
    BY <2>2, <1>2, <1>3, <1>4, <1>6, Branched
<1> QED
  BY <1>5, <1>6

\* The innermost loop is the frame most recently opened.
LEMMA LoopPositions ==
    ASSUME NEW z, NEW x, NEW c, NEW q, NEW r, Top(z, x, c, q, r), NEW l \in 1 .. Len(z), IsFrame(z[l]),
           \A m \in 1 .. Len(z) : IsFrame(z[m]) => l <= m
    PROVE  /\ z[l] \in Frames(z) /\ z[l].x.position \in Nat /\ z[l].x.position <= position
           /\ \A s \in Frames(z) : s.x.position \in Nat /\ s.x.position <= z[l].x.position
<1>1. z[l] \in Frames(z)
  BY FramesAre
<1>2. \A s \in Frames(z) : s.x.position \in Nat /\ s.x.position <= position
  BY DEF Top, FrameOK
<1>3. ASSUME NEW s \in Frames(z) PROVE s.x.position <= z[l].x.position
  <2>1. PICK m \in 1 .. Len(z) : s = z[m] /\ IsFrame(z[m])
    BY FramesAre
  <2>2. CASE m = l
    BY <2>1, <2>2, <1>1, <1>2
  <2>3. CASE m # l
    <3>1. l < m
      BY <2>1, <2>3, TopIndices
    <3>2. <<z[l], s>> \in Pairs(z)
      BY <2>1, <3>1, PairsAre
    <3> QED
      BY <3>2 DEF Top, Safe, Sound, PairOK
  <2> QED
    BY <2>2, <2>3
<1> QED
  BY <1>1, <1>2, <1>3

LEMMA StillKeeps ==
    ASSUME IInv, Doing("still"), Branch("still", todo[First(Loops)].position = position)
    PROVE  IInv'
<1>1. "still" \in Ops
  BY DEF Ops
<1>2. PICK z, x, c, q, r, R : Top(z, x, c, q, r) /\ x.op = "still" /\ Closed(R) /\ Rule(R, c, x, q, r)
  BY <1>1, Topmost
<1>3. c.loop # "none" /\ Chain(c, x.yes, Still(q, c.loop), r) /\ Chain(c, x.no, Left(q), r)
  BY <1>2, InChain DEF Rule
<1>4. PICK l \in 1 .. Len(z) : /\ l = First(Loops) /\ l > 1 /\ IsFrame(z[l]) /\ z[l].x.op = "again"
                               /\ c = InLoop(z[l].c, z[l].x.name, z[l].q, z[l].r)
                               /\ \A m \in 1 .. Len(z) : IsFrame(z[m]) => l <= m
  BY <1>2, <1>3, InnerLoop
<1> DEFINE p == z[l].x.position
<1>5. todo[First(Loops)].position = p
  BY <1>2, <1>4, TopIndices
<1>6. /\ z[l] \in Frames(z) /\ p \in Nat /\ p <= position
      /\ \A s \in Frames(z) : s.x.position \in Nat /\ s.x.position <= p
  BY <1>2, <1>4, LoopPositions
<1>7. UNCHANGED <<ok, flags, tape>> /\ (p = position => Go(x.yes)) /\ (p # position => Go(x.no))
  BY <1>2, <1>5 DEF Branch, Top
<1>8. position \in Nat
  BY <1>2 DEF Top, Tape
<1>9. CASE p = position
  <2>1. Holds(q, Frames(z)) => Holds(Still(q, c.loop), Frames(z))
    <3>1. CASE c.loop = "statements" /\ "gone" \in q.facts
      <4>1. z[l].x.name = "statements"
        BY <3>1, <1>4 DEF InLoop
      <4>2. ~(z[l].x.position < position) /\ z[l] \in Frames(z) /\ z[l].x.op = "again"
        BY <1>4, <1>6, <1>8, <1>9
      <4>3. Holds(q, Frames(z)) => excused
        BY <4>1, <4>2, <3>1 DEF Holds
      <4> QED
        BY <4>3, <3>1 DEF Holds, Still, With
    <3>2. CASE ~(c.loop = "statements" /\ "gone" \in q.facts)
      BY <3>2 DEF Holds, Still, With
    <3> QED
      BY <3>1, <3>2
  <2> QED
    BY <2>1, <1>2, <1>3, <1>7, <1>9, Branched
<1>10. CASE p # position
  <2>1. \A s \in Frames(z) : s.x.position # position
    BY <1>6, <1>8, <1>10
  <2>2. Holds(q, Frames(z)) => Holds(Left(q), Frames(z))
    BY <2>1 DEF Holds, Left
  <2> QED
    BY <2>2, <1>2, <1>3, <1>7, <1>10, Branched
<1> QED
  BY <1>9, <1>10

LEMMA BranchKeeps ==
    ASSUME IInv, BranchStep
    PROVE  IInv'
BY ChooseKeeps, IfOkKeeps, IfPanicKeeps, AfterSemicolonKeeps, StillKeeps DEF BranchStep

-----------------------------------------------------------------------------
(* Calls and loops open a frame.                                             *)
LEMMA MovedMeans ==
    ASSUME NEW z, NEW x, NEW c, NEW q, NEW r, Top(z, x, c, q, r), Moved(q)
    PROVE  \A s \in Frames(z) : s.x.op = "end" => s.x.position < position
<1>1. current # {} /\ position \in Nat /\ Holds(q, Frames(z)) /\ \A s \in Frames(z) : FrameOK(s)
  BY CurrentToken DEF Top, Tape
<1>2. CASE "past" \in q.facts
  BY <1>1, <1>2 DEF Holds
<1>3. CASE Stayed(q) = {}
  <2>1. ASSUME NEW s \in Frames(z) PROVE s.x.position < position
    <3>1. s.x.position # position
      BY <1>1, <1>3 DEF Holds, Stayed
    <3>2. s.x.position \in Nat /\ s.x.position <= position
      BY <1>1 DEF FrameOK
    <3> QED
      BY <3>1, <3>2, <1>1
  <2> QED
    BY <2>1
<1> QED
  BY <1>2, <1>3 DEF Moved

\* The stack without its first step.
LEMMA TopBelow ==
    ASSUME NEW z, NEW x, NEW c, NEW q, NEW r, Top(z, x, c, q, r)
    PROVE  \E y : /\ Stack(y) /\ Steps(y) = Tail(todo) /\ Where(y) = c /\ Meets(r, y)
                  /\ Frames(y) = Frames(z) /\ Pairs(y) \subseteq Pairs(z)
<1>1. Stack(z) /\ Len(z) \in Nat /\ 1 \in 1 .. Len(z) /\ todo = Steps(z) /\ ~IsFrame(z[1])
      /\ c = z[1].c /\ r = z[1].r
  BY TopIndices DEF Top
<1>2. PICK n : n = 2
  OBVIOUS
<1>3. n > 1 /\ n - 1 = 1 /\ n \in 1 .. Len(z) + 1
  BY <1>1, <1>2
<1>4. PICK y : /\ Stack(y) /\ Steps(y) = SubSeq(Steps(z), n, Len(z))
               /\ \A t : t \in Frames(y) <=> \E i \in n .. Len(z) : t = z[i] /\ IsFrame(z[i])
               /\ Frames(y) \subseteq Frames(z) /\ Pairs(y) \subseteq Pairs(z)
               /\ n > 1 => Where(y) = z[n - 1].c /\ Meets(z[n - 1].r, y)
  BY <1>1, <1>3, StackCut
<1>5. Frames(y) = Frames(z)
  <2>1. ASSUME NEW t \in Frames(z) PROVE t \in Frames(y)
    <3>1. PICK i \in 1 .. Len(z) : t = z[i] /\ IsFrame(z[i])
      BY <2>1, FramesAre
    <3>2. i # 1
      BY <3>1, <1>1
    <3>3. i \in n .. Len(z)
      BY <3>1, <3>2, <1>1, <1>2
    <3> QED
      BY <3>1, <3>3, <1>4
  <2> QED
    BY <2>1, <1>4
<1>6. Steps(y) = Tail(todo)
  <2>1. IsSeq(Steps(z)) /\ Len(Steps(z)) = Len(z)
    BY <1>1, StepsAre DEF Stack
  <2> QED
    BY <2>1, <1>1, <1>2, <1>4
<1> QED
  BY <1>1, <1>3, <1>4, <1>5, <1>6

\* A frame with what was known where it was opened.
LEMMA FrameEntered ==
    ASSUME NEW z, NEW x, NEW c, NEW q, NEW r, Top(z, x, c, q, r), UNCHANGED <<ok, flags, tape>>,
           Mood(q) \in {{"settled"}, {"trial"}}, NEW f, IsFrame(f), f.c = c, f.q = q,
           f.x.position = position,
           f.x.op = "end" => Moved(q) \/ Rank(f.x.f) < Rank(c.f)
    PROVE  Sound(Frames(z) \cup {f}, Pairs(z) \cup Over(f, Frames(z)))'
<1>1. /\ Tape' /\ Sound(Frames(z), Pairs(z))' /\ current' = current /\ position' = position
      /\ trying' = trying /\ previous' = previous
  BY TopUnread
<1>2. Holds(q, Frames(z)) /\ position \in Nat /\ \A s \in Frames(z) : FrameOK(s)
  BY DEF Top, Tape
<1>3. FrameOK(f)'
  <2>1. ~trying => "settled" \in q.facts
    BY <1>2 DEF Holds, Mood
  <2>2. "settled" \in q.facts => ~trying
    BY <1>2 DEF Holds
  <2> QED
    BY <2>1, <2>2, <1>1, <1>2 DEF FrameOK
<1>4. ASSUME NEW t \in Frames(z) PROVE PairOK(f, t)'
  <2>1. t.x.position \in Nat /\ t.x.position <= position
    BY <1>2 DEF FrameOK
  <2>2. c.mood = "settled" => "settled" \in t.q.facts
    BY TopSettled
  <2>3. t.x.op = "end" /\ Moved(q) => t.x.position < position
    BY MovedMeans
  <2>4. t.x.op = "end" /\ f.x.op = "end" /\ t.x.position = position => Rank(f.x.f) < Rank(t.x.f)
    <3> SUFFICES ASSUME t.x.op = "end", f.x.op = "end", t.x.position = position
                 PROVE  Rank(f.x.f) < Rank(t.x.f)
      OBVIOUS
    <3>1. ~Moved(q) /\ Rank(f.x.f) < Rank(c.f)
      BY <2>3, <1>2
    <3>2. PICK i \in 1 .. Len(z) : t = z[i] /\ IsFrame(z[i])
      BY FramesAre
    <3>3. PICK l \in 1 .. Len(z) : /\ z[l].x.op = "end" /\ c.f = z[l].x.f
                                   /\ \A m \in 1 .. Len(z) : z[m].x.op = "end" => l <= m
      BY <3>2, InnerCall
    <3>4. CASE l = i
      BY <3>1, <3>2, <3>3, <3>4
    <3>5. CASE l # i
      <4>1. l < i /\ IsFrame(z[l])
        BY <3>2, <3>3, <3>5, TopIndices DEF IsFrame
      <4>2. <<z[l], t>> \in Pairs(z) /\ z[l] \in Frames(z)
        BY <3>2, <4>1, PairsAre, FramesAre
      <4>3. PairOK(z[l], t)
        BY <4>2 DEF Top, Safe, Sound
      <4>4. z[l].x.position \in Nat /\ z[l].x.position <= position /\ t.x.position <= z[l].x.position
        BY <4>2, <4>3, <1>2 DEF FrameOK, PairOK
      <4>5. z[l].x.position = position
        BY <4>4, <1>2
      <4>6. Rank(z[l].x.f) < Rank(t.x.f)
        BY <4>3, <4>5, <3>3 DEF PairOK
      <4>7. Rank(f.x.f) \in Nat /\ Rank(c.f) \in Nat /\ Rank(t.x.f) \in Nat
        BY DEF Rank
      <4> QED
        BY <3>1, <3>3, <4>6, <4>7
    <3> QED
      BY <3>4, <3>5
  <2>5. t.x.position = position => current \subseteq Stayed(q)
    BY <1>2 DEF Holds, Stayed
  <2> QED
    BY <2>1, <2>2, <2>3, <2>4, <2>5, <1>1 DEF PairOK
<1>5. \A s \in Frames(z) \cup {f} : FrameOK(s)'
  BY <1>1, <1>3 DEF Sound
<1>6. ASSUME NEW s, NEW t, <<s, t>> \in Pairs(z) \cup Over(f, Frames(z)) PROVE PairOK(s, t)'
  <2>1. CASE <<s, t>> \in Pairs(z)
    BY <2>1, <1>1 DEF Sound
  <2>2. CASE <<s, t>> \in Over(f, Frames(z))
    <3>1. s = f /\ t \in Frames(z)
      BY <2>2 DEF Over
    <3> QED
      BY <3>1, <1>4
  <2> QED
    BY <2>1, <2>2, <1>6
<1> QED
  BY <1>5, <1>6 DEF Sound

\* Every function keeps its contract.
Start(g, m) == Open(First_token(g), {m})
Obeyed ==
    \A g \in Function : \A m : m = "settled" \/ (m = "trial" /\ g \in TypeFunction)
        => Chain(InFunction(g, m), Program[g], Start(g, m), Anything)

LEMMA Associative ==
    ASSUME NEW s, NEW t, NEW u, IsSeq(s), IsSeq(t), IsSeq(u)
    PROVE  (s \o t) \o u = s \o (t \o u)
<1>1. PICK A, B, D : s \in Seq(A) /\ t \in Seq(B) /\ u \in Seq(D)
  BY DEF IsSeq
<1> DEFINE S == A \cup B \cup D
<1>2. s \in Seq(S) /\ t \in Seq(S) /\ u \in Seq(S)
  BY <1>1
<1> QED
  BY <1>2, ConcatAssociative

\* A frame put above a stack, and a program above the frame.
Framed(f, b) ==
    /\ Stack(b) /\ f.x.op \in {"end", "again"} /\ f.c = Where(b) /\ Meets(f.r, b)
    /\ Fits(f.c, Origin(f.x), f.q, f.r)
Opens(w, s, t, f, b) ==
    /\ Stack(w) /\ Steps(w) = (s \o <<f.x>>) \o Steps(b) /\ Meets(t, w)
    /\ Frames(w) = Frames(b) \cup {f} /\ Pairs(w) = Pairs(b) \cup Over(f, Frames(b))

LEMMA Opened ==
    ASSUME NEW b, NEW f, Framed(f, b), NEW s, NEW t, NEW u, Chain(Around(f), s, t, u),
           f.x.op = "end" \/ Implies(u, Before(f))
    PROVE  \E w : Opens(w, s, t, f, b)
<1> USE DEF Framed
<1>1. PICK y : /\ y # <<>> /\ y[1] = f
               /\ Stack(y) /\ Steps(y) = <<f.x>> \o Steps(b)
               /\ Frames(y) = Frames(b) \cup {f}
               /\ Pairs(y) = Pairs(b) \cup Over(f, Frames(b))
  BY StackFrame
<1>2. Chain(Where(y), s, t, u) /\ Meets(u, y)
  BY <1>1 DEF Where, Meets
<1>3. Stack(y)
  BY <1>1
<1>4. PICK w : /\ Stack(w) /\ Steps(w) = s \o Steps(y) /\ Meets(t, w)
               /\ Frames(w) = Frames(y) /\ Pairs(w) = Pairs(y)
  BY <1>2, <1>3, StackPush
<1>5. Steps(w) = (s \o <<f.x>>) \o Steps(b)
  <2>1. IsSeq(s) /\ IsSeq(<<f.x>>) /\ IsSeq(Steps(b))
    BY Single, StepsAre DEF Chain, Stack
  <2>2. PICK a, d : a = <<f.x>> /\ d = Steps(b)
    OBVIOUS
  <2>3. (s \o a) \o d = s \o (a \o d)
    BY <2>1, <2>2, Associative
  <2> QED
    BY <2>2, <2>3, <1>1, <1>4
<1> QED
  BY <1>1, <1>4, <1>5 DEF Opens

LEMMA CallKeeps ==
    ASSUME Obeyed, IInv, CallStep
    PROVE  IInv'
<1>1. Doing("call") /\ "call" \in Ops
  BY DEF CallStep, Ops
<1>2. PICK z, x, c, q, r, R : Top(z, x, c, q, r) /\ x.op = "call" /\ Closed(R) /\ Rule(R, c, x, q, r)
  BY <1>1, Topmost
<1> DEFINE g == x.f
           m == MoodOf(q)
           e == End(g, position)
<1>3. /\ g \in Function /\ q.here \subseteq First_token(g)
      /\ Moved(q) \/ Rank(g) < Rank(c.f)
      /\ (Mood(q) = {"settled"} /\ c.mood = "settled") \/ (Mood(q) = {"trial"} /\ g \in TypeFunction)
      /\ Implies(Returned(q, g), r)
  BY <1>2 DEF Rule
<1>4. UNCHANGED <<ok, flags, tape>> /\ todo' = (Program[g] \o <<e>>) \o Tail(todo) /\ ~silent'
  BY <1>2 DEF CallStep, Top, Go, flags
<1>5. /\ Tape' /\ current' = current /\ position' = position /\ trying' = trying
      /\ previous' = previous /\ Holds(q, Frames(z)) /\ position \in Nat
  BY <1>2, <1>4, TopUnread DEF Top, Tape
<1>6. PICK b : /\ Stack(b) /\ Steps(b) = Tail(todo) /\ Where(b) = c /\ Meets(r, b)
               /\ Frames(b) = Frames(z) /\ Pairs(b) \subseteq Pairs(z)
  BY <1>2, TopBelow
<1>7. PICK k : k = e
  OBVIOUS
<1>8. k.op = "end" /\ k.f = g /\ k.position = position /\ Origin(k) = Call(g)
  BY <1>7 DEF End, Origin
<1>9. Fits(c, Call(g), q, r)
  BY <1>3, FitsCall
<1>10. PICK f : f = [x |-> k, c |-> c, q |-> q, r |-> r]
  OBVIOUS
<1>11. f.x = k /\ f.c = c /\ f.q = q /\ f.r = r /\ IsFrame(f) /\ f.x.op = "end"
  BY <1>8, <1>10 DEF IsFrame
<1>12. Mood(q) = {m} /\ m \in q.facts /\ (m = "settled" \/ (m = "trial" /\ g \in TypeFunction))
  BY <1>3 DEF Mood, MoodOf
<1>13. Around(f) = InFunction(g, m)
  BY <1>8, <1>11 DEF Around
<1>14. PICK s, t : s = Program[g] /\ t = Start(g, m)
  OBVIOUS
<1>15. Chain(Around(f), s, t, Anything)
  BY <1>3, <1>12, <1>13, <1>14 DEF Obeyed
<1>16. PICK w : /\ Stack(w) /\ Steps(w) = (s \o <<k>>) \o Steps(b) /\ Meets(t, w)
                /\ Frames(w) = Frames(b) \cup {f} /\ Pairs(w) = Pairs(b) \cup Over(f, Frames(b))
  <2>1. Framed(f, b)
    BY <1>6, <1>8, <1>9, <1>11 DEF Framed
  <2>2. PICK w : Opens(w, s, t, f, b)
    BY <2>1, <1>11, <1>15, Opened
  <2> QED
    BY <2>2, <1>11 DEF Opens
<1>17. Sound(Frames(w), Pairs(w))'
  <2>1. Mood(q) \in {{"settled"}, {"trial"}}
    BY <1>3
  <2>2. Sound(Frames(z) \cup {f}, Pairs(z) \cup Over(f, Frames(z)))'
    BY <2>1, <1>2, <1>3, <1>4, <1>8, <1>11, FrameEntered
  <2> QED
    BY <2>2, <1>6, <1>16, Fewer
<1>18. Holds(t, Frames(w))'
  <2>1. current \subseteq First_token(g)
    BY <1>3, <1>5 DEF Holds
  <2>2. (m = "trial" => trying) /\ (m = "settled" => ~trying)
    BY <1>5, <1>12 DEF Holds
  <2>3. m \in {"settled", "trial"}
    BY <1>12
  <2> QED
    BY <2>1, <2>2, <2>3, <1>5, <1>14 DEF Holds, Start, Open
<1>19. Ready(w)'
  BY <1>5, <1>16, <1>17, <1>18, NowReady
<1>20. todo' = Steps(w)
  BY <1>4, <1>6, <1>7, <1>14, <1>16
<1> QED
  BY <1>4, <1>5, <1>16, <1>17, <1>19, <1>20 DEF IInv, Safe

\* A loop begins.
LEMMA LoopBegins ==
    ASSUME IInv, Doing("loop"), Go(step.body \o <<Again(step.name, step.body, position)>>),
           UNCHANGED <<ok, flags, tape>>
    PROVE  IInv'
<1>1. "loop" \in Ops
  BY DEF Ops
<1>2. PICK z, x, c, q, r, R : Top(z, x, c, q, r) /\ x.op = "loop" /\ Closed(R) /\ Rule(R, c, x, q, r)
  BY <1>1, Topmost
<1> DEFINE n == x.name
           d == InLoop(c, n, q, r)
           t == Open(Kind, Turning(q, n))
           e == Again(n, x.body, position)
<1>3. Mood(q) = {c.mood} /\ Chain(d, x.body, t, Turned(q, n))
  BY <1>2, InChain DEF Rule
<1>4. todo' = (x.body \o <<e>>) \o Tail(todo) /\ ~silent'
  BY <1>2 DEF Top, Go, flags
<1>5. /\ Tape' /\ current' = current /\ position' = position /\ trying' = trying
      /\ previous' = previous /\ Holds(q, Frames(z)) /\ position \in Nat
  BY <1>2, TopUnread DEF Top, Tape
<1>6. PICK b : /\ Stack(b) /\ Steps(b) = Tail(todo) /\ Where(b) = c /\ Meets(r, b)
               /\ Frames(b) = Frames(z) /\ Pairs(b) \subseteq Pairs(z)
  BY <1>2, TopBelow
<1>7. PICK k : k = e
  OBVIOUS
<1>8. k.op = "again" /\ k.name = n /\ k.body = x.body /\ k.position = position /\ Origin(k) = Loop(n, x.body)
  BY <1>7 DEF Again, Origin
<1>9. Fits(c, Loop(n, x.body), q, r)
  BY <1>3, FitsLoop
<1>10. PICK f : f = [x |-> k, c |-> c, q |-> q, r |-> r]
  OBVIOUS
<1>11. f.x = k /\ f.c = c /\ f.q = q /\ f.r = r /\ IsFrame(f) /\ f.x.op = "again"
  BY <1>8, <1>10 DEF IsFrame
<1>12. Around(f) = d /\ Before(f) = Turned(q, n)
  BY <1>8, <1>11 DEF Around, Before
<1>13. PICK s, v, u : s = x.body /\ v = t /\ u = Turned(q, n)
  OBVIOUS
<1>14. Chain(Around(f), s, v, u) /\ Implies(u, Before(f))
  <2>1. Implies(u, u)
    BY DEF Implies, Moved
  <2> QED
    BY <2>1, <1>3, <1>12, <1>13
<1>15. PICK w : /\ Stack(w) /\ Steps(w) = (s \o <<k>>) \o Steps(b) /\ Meets(v, w)
                /\ Frames(w) = Frames(b) \cup {f} /\ Pairs(w) = Pairs(b) \cup Over(f, Frames(b))
  <2>1. Framed(f, b)
    BY <1>6, <1>8, <1>9, <1>11 DEF Framed
  <2>2. PICK w : Opens(w, s, v, f, b)
    BY <2>1, <1>11, <1>14, Opened
  <2> QED
    BY <2>2, <1>11 DEF Opens
<1>16. Sound(Frames(w), Pairs(w))'
  <2>1. Mood(q) \in {{"settled"}, {"trial"}}
    BY <1>3 DEF Mood
  <2>2. Sound(Frames(z) \cup {f}, Pairs(z) \cup Over(f, Frames(z)))'
    BY <2>1, <1>2, <1>8, <1>11, FrameEntered
  <2> QED
    BY <2>2, <1>6, <1>15, Fewer
<1>17. Holds(t, Frames(w))'
  <2>1. current \subseteq Kind
    BY <1>2, CurrentToken DEF Top
  <2>2. Moved(q) => \A y \in Frames(z) : y.x.op = "end" => y.x.position < position
    BY <1>2, MovedMeans
  <2>3. Frames(w) = Frames(z) \cup {f}
    BY <1>6, <1>15
  <2>4. "past" \in t.facts => \A y \in Frames(w) : y.x.op = "end" => y.x.position < position
    BY <2>2, <2>3, <1>8, <1>11 DEF Open, Turning, Pass, Mood
  <2>5. "gone" \in t.facts => "gone" \in q.facts /\ n = "synchronize"
    BY DEF Open, Turning, Pass, Mood
  <2>6. "ended" \in t.facts => "ended" \in q.facts
    BY DEF Open, Turning, Pass, Mood
  <2>7. "gone" \in t.facts => \/ excused
                              \/ \A y \in Frames(w) : y.x.op = "again" /\ y.x.name = "statements"
                                                        => y.x.position < position
    BY <2>3, <2>5, <1>5, <1>8, <1>11 DEF Holds
  <2>8. /\ "trial" \in t.facts => trying
        /\ "settled" \in t.facts => ~trying
        /\ "answered" \notin t.facts /\ "blamed" \notin t.facts /\ "excused" \notin t.facts
        /\ "ended" \in t.facts => excused \/ previous = ";"
    BY <2>6, <1>5 DEF Holds, Open, Turning, Pass, Mood
  <2>9. t.here = Kind /\ t.some = Kind /\ t.none = Kind
    BY DEF Open
  <2>10. excused' = excused
    BY DEF flags
  <2> HIDE DEF t
  <2> QED
    BY <2>1, <2>4, <2>7, <2>8, <2>9, <2>10, <1>5 DEF Holds
<1>18. Ready(w)'
  BY <1>5, <1>13, <1>15, <1>16, <1>17, NowReady
<1>19. todo' = Steps(w)
  BY <1>4, <1>6, <1>7, <1>13, <1>15
<1> QED
  BY <1>4, <1>5, <1>15, <1>16, <1>18, <1>19 DEF IInv, Safe

-----------------------------------------------------------------------------
\* The top step begins a turn of a loop.
Turns(z, x, c, q, r) ==
    /\ Tape /\ Safe(z) /\ todo = Steps(z) /\ ~silent
    /\ z # <<>> /\ z[1].x = step /\ step.op = "again" /\ Holds(Turned(q, x.name), Frames(z))
    /\ x = step /\ c = z[1].c /\ q = z[1].q /\ r = z[1].r
    /\ (\A s \in Frames(z) : FrameOK(s)) /\ (\A t : <<z[1], t>> \in Pairs(z) => PairOK(z[1], t))
    /\ z[1] \in Frames(z) /\ Fits(c, Loop(x.name, x.body), q, r)

LEMMA TurnsTop ==
    ASSUME IInv, Doing("again")
    PROVE  \E z, x, c, q, r : Turns(z, x, c, q, r)
<1>1. PICK z : Tape /\ Safe(z) /\ todo = Steps(z) /\ todo # <<>> /\ ~silent
  BY DEF IInv, Doing
<1>2. z # <<>> /\ z[1].x = step /\ 1 \in 1 .. Len(z) /\ Fits(z[1].c, Origin(z[1].x), z[1].q, z[1].r)
  BY <1>1, StackTop DEF Safe, step
<1>3. step.op = "again"
  BY DEF Doing
<1>4. /\ IsFrame(z[1]) /\ Origin(z[1].x) = Loop(step.name, step.body)
      /\ Before(z[1]) = Turned(z[1].q, step.name)
  BY <1>2, <1>3 DEF IsFrame, Origin, Before
<1>5. z[1] \in Frames(z)
  BY <1>2, <1>4, FramesAre
<1>6. /\ Holds(Turned(z[1].q, step.name), Frames(z)) /\ (\A s \in Frames(z) : FrameOK(s))
      /\ (\A t : <<z[1], t>> \in Pairs(z) => PairOK(z[1], t))
  BY <1>1, <1>2, <1>3, <1>4 DEF Safe, Ready, Sound
<1> QED
  BY <1>1, <1>2, <1>3, <1>4, <1>5, <1>6 DEF Turns

LEMMA TurnedFacts ==
    ASSUME NEW q, NEW n
    PROVE  Turned(q, n).facts = Turning(q, n) /\ Turned(q, n).here = Kind
BY DEF Turned, Open, Reset

LEMMA TurnsBelow ==
    ASSUME NEW z, NEW x, NEW c, NEW q, NEW r, Turns(z, x, c, q, r)
    PROVE  \E y : /\ Stack(y) /\ Steps(y) = Tail(todo) /\ Where(y) = c /\ Meets(r, y)
                  /\ Frames(y) \subseteq Frames(z) /\ Pairs(y) \subseteq Pairs(z)
                  /\ \A t \in Frames(y) : <<z[1], t>> \in Pairs(z)
<1>1. Stack(z) /\ todo = Steps(z) /\ c = z[1].c /\ r = z[1].r /\ z # <<>> /\ IsFrame(z[1])
  BY DEF Turns, Safe, IsFrame
<1>2. IsSeq(z) /\ Len(z) \in Nat /\ 1 \in 1 .. Len(z) /\ IsSeq(todo) /\ Len(todo) = Len(z)
  <2>1. IsSeq(z)
    BY <1>1 DEF Stack
  <2>2. Len(z) \in Nat /\ Len(z) # 0
    BY <2>1, <1>1 DEF IsSeq
  <2> QED
    BY <2>1, <2>2, <1>1, StepsAre
<1>3. PICK n : n = 2
  OBVIOUS
<1>4. n > 1 /\ n - 1 = 1 /\ n \in 1 .. Len(z) + 1
  BY <1>2, <1>3
<1>5. PICK y : /\ Stack(y) /\ Steps(y) = SubSeq(Steps(z), n, Len(z))
               /\ \A t : t \in Frames(y) <=> \E i \in n .. Len(z) : t = z[i] /\ IsFrame(z[i])
               /\ Frames(y) \subseteq Frames(z) /\ Pairs(y) \subseteq Pairs(z)
               /\ n > 1 => Where(y) = z[n - 1].c /\ Meets(z[n - 1].r, y)
  BY <1>1, <1>4, StackCut
<1>6. ASSUME NEW t \in Frames(y) PROVE <<z[1], t>> \in Pairs(z)
  <2>1. PICK i \in n .. Len(z) : t = z[i] /\ IsFrame(z[i])
    BY <1>5
  <2>2. i \in 1 .. Len(z) /\ 1 < i
    BY <2>1, <1>2, <1>3
  <2>3. z[1] = z[1] /\ t = z[i] /\ IsFrame(z[1]) /\ IsFrame(z[i])
    BY <2>1, <1>1
  <2> QED
    BY <2>2, <2>3, <1>2, PairsAre
<1>7. Steps(y) = Tail(todo)
  BY <1>1, <1>2, <1>3, <1>5
<1> QED
  BY <1>1, <1>4, <1>5, <1>6, <1>7

\* A loop begins a turn.
LEMMA LoopTurns ==
    ASSUME IInv, Doing("again"), Go(step.body \o <<Again(step.name, step.body, position)>>),
           UNCHANGED <<ok, flags, tape>>
    PROVE  IInv'
<1>1. PICK z, x, c, q, r : Turns(z, x, c, q, r)
  BY TurnsTop
<1> DEFINE n == x.name
           d == InLoop(c, n, q, r)
           t == Open(Kind, Turning(q, n))
           e == Again(n, x.body, position)
<1>2. Fits(c, Loop(n, x.body), q, r)
  BY <1>1 DEF Turns
<1>3. Mood(q) = {c.mood} /\ Chain(d, x.body, t, Turned(q, n))
  <2>1. PICK R : Closed(R) /\ Rule(R, c, Loop(n, x.body), q, r)
    BY <1>2, FitsRule
  <2>2. Mood(q) = {c.mood} /\ In(R, d, x.body, t, Turned(q, n))
    BY <2>1 DEF Rule, Loop
  <2> QED
    BY <2>1, <2>2, InChain
<1>4. todo' = (x.body \o <<e>>) \o Tail(todo) /\ ~silent'
  BY <1>1 DEF Turns, Go, flags
<1>5. /\ Tape' /\ current' = current /\ position' = position /\ trying' = trying
      /\ previous' = previous /\ ok' = ok /\ excused' = excused /\ position \in Nat /\ at' = at
  BY <1>1 DEF Turns, Tape, tape, flags, current
<1>6. PICK b : /\ Stack(b) /\ Steps(b) = Tail(todo) /\ Where(b) = c /\ Meets(r, b)
               /\ Frames(b) \subseteq Frames(z) /\ Pairs(b) \subseteq Pairs(z)
               /\ \A u \in Frames(b) : <<z[1], u>> \in Pairs(z)
  BY <1>1, TurnsBelow
<1>7. PICK k : k = e
  OBVIOUS
<1>8. k.op = "again" /\ k.name = n /\ k.body = x.body /\ k.position = position /\ Origin(k) = Loop(n, x.body)
  BY <1>7 DEF Again, Origin
<1>10. PICK f : f = [x |-> k, c |-> c, q |-> q, r |-> r]
  OBVIOUS
<1>11. f.x = k /\ f.c = c /\ f.q = q /\ f.r = r /\ IsFrame(f) /\ f.x.op = "again"
  BY <1>8, <1>10 DEF IsFrame
<1>12. Around(f) = d /\ Before(f) = Turned(q, n)
  BY <1>8, <1>11 DEF Around, Before
<1>13. PICK s, v, u : s = x.body /\ v = t /\ u = Turned(q, n)
  OBVIOUS
<1>14. Chain(Around(f), s, v, u) /\ Implies(u, Before(f))
  <2>1. Implies(u, u)
    BY DEF Implies, Moved
  <2> QED
    BY <2>1, <1>3, <1>12, <1>13
<1>15. PICK w : /\ Stack(w) /\ Steps(w) = (s \o <<k>>) \o Steps(b) /\ Meets(v, w)
                /\ Frames(w) = Frames(b) \cup {f} /\ Pairs(w) = Pairs(b) \cup Over(f, Frames(b))
  <2>1. Framed(f, b)
    BY <1>2, <1>6, <1>8, <1>11 DEF Framed
  <2>2. PICK w : Opens(w, s, v, f, b)
    BY <2>1, <1>11, <1>14, Opened
  <2> QED
    BY <2>2, <1>11 DEF Opens
<1>16. Holds(Turned(q, n), Frames(z)) /\ (\A y \in Frames(z) : FrameOK(y)) /\ z[1] \in Frames(z)
       /\ (\A y : <<z[1], y>> \in Pairs(z) => PairOK(z[1], y)) /\ Sound(Frames(z), Pairs(z))
       /\ z[1].q = q /\ z[1].c = c
  BY <1>1 DEF Turns, Safe
<1>17. FrameOK(f)'
  <2>1. FrameOK(z[1])
    BY <1>16
  <2>2. "settled" \in q.facts => ~trying
    <3>1. "settled" \in q.facts => "settled" \in Turning(q, n)
      BY DEF Turning, Mood
    <3>2. "settled" \in Turned(q, n).facts => ~trying
      BY <1>16 DEF Holds
    <3> QED
      BY <3>1, <3>2, TurnedFacts
  <2> QED
    BY <2>1, <2>2, <1>5, <1>8, <1>11, <1>16 DEF FrameOK
<1>18. ASSUME NEW y \in Frames(b) PROVE PairOK(f, y)'
  <2>1. PairOK(z[1], y) /\ FrameOK(z[1]) /\ FrameOK(y)
    BY <1>6, <1>16
  <2>2. z[1].x.position \in Nat /\ z[1].x.position <= position /\ y.x.position \in Nat
        /\ y.x.position <= z[1].x.position
    BY <2>1 DEF FrameOK, PairOK
  <2>3. y.x.position <= position /\ (y.x.position < z[1].x.position => y.x.position < position)
    BY <2>2, <1>5
  <2> QED
    BY <2>1, <2>3, <1>5, <1>8, <1>11, <1>16 DEF PairOK
<1>19. Sound(Frames(w), Pairs(w))'
  <2>1. ASSUME NEW y \in Frames(w) PROVE FrameOK(y)'
    <3>1. FrameOK(f)' /\ (y = f \/ FrameOK(y))
      BY <1>6, <1>15, <1>16, <1>17
    <3>2. CASE FrameOK(y)
      BY <3>2, <1>5 DEF FrameOK
    <3> QED
      BY <3>1, <3>2
  <2>2. ASSUME NEW y, NEW y2, <<y, y2>> \in Pairs(w) PROVE PairOK(y, y2)'
    <3>1. CASE <<y, y2>> \in Pairs(b)
      <4>1. PairOK(y, y2)
        BY <3>1, <1>6, <1>16 DEF Sound
      <4> QED
        BY <4>1, <1>5 DEF PairOK
    <3>2. CASE <<y, y2>> \in Over(f, Frames(b))
      <4>1. y = f /\ y2 \in Frames(b)
        BY <3>2 DEF Over
      <4> QED
        BY <4>1, <1>18
    <3> QED
      BY <3>1, <3>2, <2>2, <1>15
  <2> QED
    BY <2>1, <2>2 DEF Sound
<1>20. Holds(t, Frames(w))'
  <2>1. current \subseteq Kind
    BY <1>1, CurrentToken DEF Turns
  <2>2. Frames(w) \subseteq Frames(z) \cup {f}
    BY <1>6, <1>15
  <2>3. t.facts = Turning(q, n) /\ t.here = Kind /\ t.some = Kind /\ t.none = Kind
    BY DEF Open
  <2>4. "past" \in t.facts => \A y \in Frames(w) : y.x.op = "end" => y.x.position < position
    BY <2>2, <2>3, <1>11, <1>16, TurnedFacts DEF Holds
  <2>5. "gone" \in t.facts => "gone" \in q.facts /\ n = "synchronize"
    BY <2>3 DEF Turning, Pass, Mood
  <2>6. "gone" \in t.facts => \/ excused
                              \/ \A y \in Frames(w) : y.x.op = "again" /\ y.x.name = "statements"
                                                        => y.x.position < position
    BY <2>2, <2>3, <2>5, <1>8, <1>11, <1>16, TurnedFacts DEF Holds
  <2>7. /\ "trial" \in t.facts => trying
        /\ "settled" \in t.facts => ~trying
        /\ "ended" \in t.facts => excused \/ previous = ";"
    BY <2>3, <1>16, TurnedFacts DEF Holds
  <2>8. "answered" \notin t.facts /\ "blamed" \notin t.facts /\ "excused" \notin t.facts
    BY <2>3 DEF Turning, Pass, Mood
  <2> HIDE DEF t
  <2> QED
    BY <2>1, <2>3, <2>4, <2>6, <2>7, <2>8, <1>5 DEF Holds
<1>21. Ready(w)'
  BY <1>5, <1>13, <1>15, <1>19, <1>20, NowReady
<1>22. todo' = Steps(w)
  BY <1>4, <1>6, <1>7, <1>13, <1>15
<1> QED
  BY <1>4, <1>5, <1>15, <1>19, <1>21, <1>22 DEF IInv, Safe

-----------------------------------------------------------------------------
(* Leaving loops and functions.                                              *)
LEMMA HoldsBelow ==
    ASSUME NEW F, NEW q, Holds(q, F), NEW G, G \subseteq F, NEW k,
           \A t \in G : t.x.position = position => current \subseteq k,
           UNCHANGED <<ok, flags, tape>>
    PROVE  Holds(q, G)' /\ Holds(Leaving(q, k), G)'
<1>1. /\ current' = current /\ position' = position /\ trying' = trying /\ previous' = previous
      /\ ok' = ok /\ excused' = excused /\ panic_mode' = panic_mode
  BY DEF flags, tape, current
<1>2. Blamed(F) => Blamed(G)'
  BY <1>1 DEF Blamed
<1>3. Holds(q, G)'
  <2>1. \A s \in G : s \in F
    OBVIOUS
  <2>2. \A s \in G : s.x.position = position => current \subseteq (IF ok THEN q.some ELSE q.none)
    BY <2>1 DEF Holds
  <2>3. "past" \in q.facts => \A s \in G : s.x.op = "end" => s.x.position < position
    BY <2>1 DEF Holds
  <2>4. "gone" \in q.facts => \/ excused
                              \/ \A s \in G : s.x.op = "again" /\ s.x.name = "statements"
                                                => s.x.position < position
    BY <2>1 DEF Holds
  <2>5. (ok => ok') /\ (excused => excused') /\ (trying => trying') /\ (trying' => trying)
    <3>1. ok => ok'
      BY <1>1
    <3>2. excused => excused'
      BY <1>1
    <3>3. trying => trying'
      BY <1>1
    <3>4. trying' => trying
      BY <1>1
    <3> QED
      BY <3>1, <3>2, <3>3, <3>4
  <2>6. \A s \in G : s.x.position = position' => current' \subseteq (IF ok' THEN q.some ELSE q.none)
    BY <1>1, <2>2
  <2>7. "past" \in q.facts => \A s \in G : s.x.op = "end" => s.x.position < position'
    BY <1>1, <2>3
  <2>8. "gone" \in q.facts => \/ excused'
                              \/ \A s \in G : s.x.op = "again" /\ s.x.name = "statements"
                                                => s.x.position < position'
    BY <1>1, <2>4, <2>5
  <2>9. /\ current' \subseteq q.here
        /\ "trial" \in q.facts => trying'
        /\ "settled" \in q.facts => ~trying'
        /\ "answered" \in q.facts => ok' \/ Blamed(G)'
        /\ "blamed" \in q.facts => Blamed(G)'
        /\ "ended" \in q.facts => excused' \/ previous' = ";"
        /\ "excused" \in q.facts => excused'
    BY <1>1, <1>2, <2>5 DEF Holds
  <2> QED
    BY <2>6, <2>7, <2>8, <2>9 DEF Holds
<1>4. Holds(Leaving(q, k), G)'
  BY <1>1, <1>3 DEF Holds, Leaving
<1> QED
  BY <1>3, <1>4

\* The stack from below a frame.
LEMMA CutBelow ==
    ASSUME NEW z, NEW x, NEW c, NEW q, NEW r, Top(z, x, c, q, r), NEW l \in 1 .. Len(z), IsFrame(z[l])
    PROVE  \E y : /\ Stack(y) /\ Steps(y) = From(l + 1) /\ Where(y) = z[l].c /\ Meets(z[l].r, y)
                  /\ Frames(y) \subseteq Frames(z) /\ Pairs(y) \subseteq Pairs(z)
                  /\ \A t \in Frames(y) : PairOK(z[l], t)
<1>1. Stack(z) /\ Len(z) \in Nat /\ todo = Steps(z) /\ IsSeq(z)
  BY TopIndices DEF Top, Stack
<1>2. PICK n : n = l + 1
  OBVIOUS
<1>3. n > 1 /\ n - 1 = l /\ n \in 1 .. Len(z) + 1
  BY <1>1, <1>2
<1>4. PICK y : /\ Stack(y) /\ Steps(y) = SubSeq(Steps(z), n, Len(z))
               /\ \A t : t \in Frames(y) <=> \E i \in n .. Len(z) : t = z[i] /\ IsFrame(z[i])
               /\ Frames(y) \subseteq Frames(z) /\ Pairs(y) \subseteq Pairs(z)
               /\ n > 1 => Where(y) = z[n - 1].c /\ Meets(z[n - 1].r, y)
  BY <1>1, <1>3, StackCut
<1>5. ASSUME NEW t \in Frames(y) PROVE PairOK(z[l], t)
  <2>1. PICK i \in n .. Len(z) : t = z[i] /\ IsFrame(z[i])
    BY <1>4
  <2>2. i \in 1 .. Len(z) /\ l < i
    BY <2>1, <1>1, <1>2
  <2>3. <<z[l], t>> \in Pairs(z)
    BY <2>1, <2>2, PairsAre
  <2> QED
    BY <2>3 DEF Top, Safe, Sound
<1>6. Steps(y) = From(l + 1)
  <2>1. Len(todo) = Len(z)
    BY <1>1, StepsAre
  <2> QED
    BY <2>1, <1>1, <1>2, <1>4 DEF From
<1> QED
  BY <1>3, <1>4, <1>5, <1>6

LEMMA BreakKeeps ==
    ASSUME IInv, Doing("break"), todo' = From(First(Loops) + 1), UNCHANGED <<ok, flags, tape>>
    PROVE  IInv'
<1>1. "break" \in Ops
  BY DEF Ops
<1>2. PICK z, x, c, q, r, R : Top(z, x, c, q, r) /\ x.op = "break" /\ Closed(R) /\ Rule(R, c, x, q, r)
  BY <1>1, Topmost
<1>3. c.loop # "none" /\ Implies(Leaving(q, c.keep), c.exit)
  BY <1>2 DEF Rule
<1>4. PICK l \in 1 .. Len(z) : l = First(Loops) /\ IsFrame(z[l])
                               /\ c = InLoop(z[l].c, z[l].x.name, z[l].q, z[l].r)
  BY <1>2, <1>3, InnerLoop
<1>5. PICK y : /\ Stack(y) /\ Steps(y) = From(l + 1) /\ Where(y) = z[l].c /\ Meets(z[l].r, y)
               /\ Frames(y) \subseteq Frames(z) /\ Pairs(y) \subseteq Pairs(z)
               /\ \A t \in Frames(y) : PairOK(z[l], t)
  BY <1>2, <1>4, CutBelow
<1>6. Tape' /\ Sound(Frames(z), Pairs(z))' /\ position' = position
  BY <1>2, TopUnread
<1>7. Sound(Frames(y), Pairs(y))'
  BY <1>5, <1>6, Fewer
<1>8. c.exit = z[l].r /\ c.keep = Stayed(z[l].q)
  BY <1>4 DEF InLoop
<1>9. \A t \in Frames(y) : t.x.position = position => current \subseteq c.keep
  BY <1>5, <1>8 DEF PairOK
<1>10. Holds(Leaving(q, c.keep), Frames(y))'
  <2>1. Holds(q, Frames(z))
    BY <1>2 DEF Top
  <2> QED
    BY <2>1, <1>5, <1>9, HoldsBelow
<1>11. Holds(z[l].r, Frames(y))'
  <2>1. \A t \in Frames(y) : FrameOK(t)'
    BY <1>7 DEF Sound
  <2> QED
    BY <2>1, <1>3, <1>6, <1>8, <1>10, HoldsImplies
<1>12. Ready(y)'
  BY <1>5, <1>6, <1>7, <1>11, NowReady
<1>13. todo' = Steps(y) /\ ~silent'
  BY <1>2, <1>4, <1>5 DEF Top, flags
<1> QED
  BY <1>5, <1>6, <1>7, <1>12, <1>13 DEF IInv, Safe

LEMMA ContinueKeeps ==
    ASSUME IInv, Doing("continue"), todo' = From(First(Loops)), UNCHANGED <<ok, flags, tape>>
    PROVE  IInv'
<1>1. "continue" \in Ops
  BY DEF Ops
<1>2. PICK z, x, c, q, r, R : Top(z, x, c, q, r) /\ x.op = "continue" /\ Closed(R) /\ Rule(R, c, x, q, r)
  BY <1>1, Topmost
<1>3. c.loop # "none" /\ Implies(q, c.next)
  BY <1>2 DEF Rule
<1>4. PICK l \in 1 .. Len(z) : l = First(Loops) /\ l > 1 /\ IsFrame(z[l]) /\ z[l].x.op = "again"
                               /\ c = InLoop(z[l].c, z[l].x.name, z[l].q, z[l].r)
  BY <1>2, <1>3, InnerLoop
<1>5. Stack(z) /\ Len(z) \in Nat /\ todo = Steps(z) /\ IsSeq(z) /\ l <= Len(z)
  BY <1>2, TopIndices DEF Top, Stack
<1>6. PICK y : /\ Stack(y) /\ Steps(y) = SubSeq(Steps(z), l, Len(z))
               /\ Frames(y) \subseteq Frames(z) /\ Pairs(y) \subseteq Pairs(z)
               /\ y # <<>> /\ y[1] = z[l]
  <2>1. l \in 1 .. Len(z) + 1
    BY <1>5
  <2> QED
    BY <2>1, <1>5, StackCut
<1>7. Steps(y) = From(l)
  <2>1. Len(todo) = Len(z)
    BY <1>5, StepsAre
  <2> QED
    BY <2>1, <1>5, <1>6 DEF From
<1>8. Tape' /\ Sound(Frames(z), Pairs(z))' /\ position' = position
  BY <1>2, TopUnread
<1>9. Sound(Frames(y), Pairs(y))'
  BY <1>6, <1>8, Fewer
<1>10. c.next = Before(y[1])
  BY <1>4, <1>6 DEF InLoop, Before
<1>11. Holds(q, Frames(y))'
  <2>1. Holds(q, Frames(z)) /\ current \subseteq Kind
    BY <1>2, CurrentToken DEF Top
  <2> QED
    BY <2>1, <1>6, HoldsBelow
<1>12. Holds(Before(y[1]), Frames(y))'
  <2>1. \A t \in Frames(y) : FrameOK(t)'
    BY <1>9 DEF Sound
  <2> QED
    BY <2>1, <1>3, <1>8, <1>10, <1>11, HoldsImplies
<1>13. Ready(y)'
  BY <1>12 DEF Ready
<1>14. todo' = Steps(y) /\ ~silent'
  BY <1>2, <1>4, <1>7 DEF Top, flags
<1> QED
  BY <1>6, <1>8, <1>9, <1>13, <1>14 DEF IInv, Safe

LEMMA LoopKeeps ==
    ASSUME IInv, LoopStep
    PROVE  IInv'
<1>1. UNCHANGED <<ok, flags, tape>>
  BY DEF LoopStep
<1>2. CASE Doing("loop") /\ Go(step.body \o <<Again(step.name, step.body, position)>>)
  BY <1>1, <1>2, LoopBegins
<1>3. CASE Doing("again") /\ Go(step.body \o <<Again(step.name, step.body, position)>>)
  BY <1>1, <1>3, LoopTurns
<1>4. CASE Doing("break") /\ todo' = From(First(Loops) + 1)
  BY <1>1, <1>4, BreakKeeps
<1>5. CASE Doing("continue") /\ todo' = From(First(Loops))
  BY <1>1, <1>5, ContinueKeeps
<1> QED
  BY <1>2, <1>3, <1>4, <1>5 DEF LoopStep

LEMMA ReturnKeeps ==
    ASSUME IInv, ReturnStep
    PROVE  IInv'
<1>1. Doing("return") /\ "return" \in Ops
  BY DEF ReturnStep, Ops
<1>2. PICK z, x, c, q, r, R : Top(z, x, c, q, r) /\ x.op = "return" /\ Closed(R) /\ Rule(R, c, x, q, r)
  BY <1>1, Topmost
<1>3. /\ c.f \in Function /\ Mood(q) = {c.mood}
      /\ Moved(q) \/ Stayed(q) \subseteq Stays(c.f, x.ok)
      /\ ~x.ok /\ c.f \in Answers => "blamed" \in q.facts
  BY <1>2 DEF Rule
<1>4. PICK l \in 1 .. Len(z) : /\ l = First(Calls) /\ l > 1 /\ z[l].x.op = "end"
                               /\ c.f = z[l].x.f /\ c.mood = MoodOf(z[l].q)
  BY <1>2, <1>3, InnerCall, NoUnitFunction
<1>5. IsFrame(z[l]) /\ z[l] \in Frames(z)
  BY <1>4, FramesAre DEF IsFrame
<1>6. PICK y : /\ Stack(y) /\ Steps(y) = From(l + 1) /\ Where(y) = z[l].c /\ Meets(z[l].r, y)
               /\ Frames(y) \subseteq Frames(z) /\ Pairs(y) \subseteq Pairs(z)
               /\ \A t \in Frames(y) : PairOK(z[l], t)
  BY <1>2, <1>4, <1>5, CutBelow
<1>7. UNCHANGED <<flags, tape>> /\ ok' = x.ok /\ todo' = Steps(y) /\ ~silent'
  BY <1>2, <1>4, <1>6 DEF ReturnStep, Top, flags
<1>8. /\ Tape' /\ Sound(Frames(z), Pairs(z))' /\ current' = current /\ position' = position
      /\ trying' = trying /\ previous' = previous /\ panic_mode' = panic_mode /\ excused' = excused
  <2>1. Tape' /\ current' = current /\ position' = position /\ trying' = trying /\ at' = at /\ position \in Nat
        /\ previous' = previous /\ panic_mode' = panic_mode /\ excused' = excused
    BY <1>2, <1>7 DEF Top, Tape, tape, flags, current
  <2>2. Sound(Frames(z), Pairs(z))'
    BY <1>2, <2>1, TopSound
  <2> QED
    BY <2>1, <2>2
<1>9. Sound(Frames(y), Pairs(y))'
  BY <1>6, <1>8, Fewer
<1> DEFINE p == z[l].q
           g == z[l].x.f
<1>10. /\ (Mood(p) = {"settled"} \/ Mood(p) = {"trial"})
       /\ Implies(Returned(p, g), z[l].r)
  <2>1. Fits(z[l].c, Call(g), p, z[l].r)
    <3>1. Fits(z[l].c, Origin(z[l].x), p, z[l].r)
      BY <1>2, TopIndices DEF Stack
    <3> QED
      BY <3>1, <1>4 DEF Origin
  <2>2. PICK S : Closed(S) /\ Rule(S, z[l].c, Call(g), p, z[l].r)
    BY <2>1, FitsRule
  <2> QED
    BY <2>2 DEF Rule, Call
<1>11. Mood(p) = Mood(q)
  BY <1>3, <1>4, <1>10 DEF Mood, MoodOf
<1>12. Holds(q, Frames(z)) /\ FrameOK(z[l]) /\ \A t \in Frames(z) : FrameOK(t)
  BY <1>2, <1>5 DEF Top
<1>13. current \subseteq Kind /\ position \in Nat
  BY <1>2, CurrentToken DEF Top, Tape
<1>14. ASSUME NEW t \in Frames(y), t.x.position = position
       PROVE  current \subseteq Stayed(p) \cap Stays(g, x.ok)
  <2>1. PairOK(z[l], t)
    BY <1>6
  <2>2. z[l].x.position = position
    BY <2>1, <1>12, <1>13, <1>14 DEF FrameOK, PairOK
  <2>3. current \subseteq Stayed(q)
    BY <2>2, <1>5, <1>12 DEF Holds, Stayed
  <2>4. ~Moved(q)
    BY <2>2, <1>2, <1>4, <1>5, <1>13, MovedMeans
  <2>5. current \subseteq Stayed(p)
    BY <2>1, <1>14 DEF PairOK
  <2> QED
    BY <2>3, <2>4, <2>5, <1>3, <1>4
<1>15. Moved(p) => \A t \in Frames(y) : t.x.op = "end" => t.x.position < position
  <2> SUFFICES ASSUME Moved(p), NEW t \in Frames(y), t.x.op = "end" PROVE t.x.position < position
    OBVIOUS
  <2>1. PairOK(z[l], t) /\ FrameOK(t)
    BY <1>6, <1>12
  <2>2. t.x.position < z[l].x.position /\ z[l].x.position <= position
    BY <2>1, <1>12 DEF PairOK, FrameOK
  <2> QED
    BY <2>1, <2>2, <1>12, <1>13 DEF FrameOK
<1>16. g \in Answers => ok' \/ Blamed(Frames(y))'
  <2>1. "blamed" \in q.facts => Blamed(Frames(z))
    BY <1>12 DEF Holds
  <2>2. Blamed(Frames(z)) => Blamed(Frames(y))'
    BY <1>6, <1>8 DEF Blamed
  <2> QED
    BY <2>1, <2>2, <1>3, <1>4, <1>7
<1>17. Holds(Returned(p, g), Frames(y))'
  <2>0. PICK t : t = Returned(p, g)
    OBVIOUS
  <2>1. /\ t.here = Kind /\ t.some = Stayed(p) \cap Stays(g, TRUE) /\ t.none = Stayed(p) \cap Stays(g, FALSE)
        /\ t.facts = Mood(p) \cup Pass(p) \cup (IF g \in Answers THEN {"answered"} ELSE {})
    BY <2>0 DEF Returned
  <2>2. ok' => Stays(g, x.ok) = Stays(g, TRUE)
    BY <1>7 DEF Stays
  <2>3. ~ok' => Stays(g, x.ok) = Stays(g, FALSE)
    BY <1>7 DEF Stays
  <2>4. \A s \in Frames(y) : s.x.position = position => current \subseteq (IF ok' THEN t.some ELSE t.none)
    BY <2>1, <2>2, <2>3, <1>14
  <2>5. ("trial" \in t.facts => "trial" \in q.facts) /\ ("settled" \in t.facts => "settled" \in q.facts)
    BY <2>1, <1>11 DEF Mood, Pass
  <2>6. ("trial" \in t.facts => trying) /\ ("settled" \in t.facts => ~trying)
    BY <2>5, <1>12 DEF Holds
  <2>7. "past" \in t.facts => Moved(p)
    BY <2>1 DEF Pass, Mood
  <2>8. "answered" \in t.facts => g \in Answers
    BY <2>1 DEF Pass, Mood
  <2>9. "blamed" \notin t.facts /\ "ended" \notin t.facts /\ "gone" \notin t.facts /\ "excused" \notin t.facts
    BY <2>1 DEF Pass, Mood
  <2>10. Holds(t, Frames(y))'
    BY <2>1, <2>4, <2>6, <2>7, <2>8, <2>9, <1>8, <1>13, <1>15, <1>16 DEF Holds
  <2> QED
    BY <2>10, <2>0
<1>18. Holds(z[l].r, Frames(y))'
  <2>1. \A t \in Frames(y) : FrameOK(t)'
    BY <1>9 DEF Sound
  <2> QED
    BY <2>1, <1>8, <1>10, <1>17, HoldsImplies
<1>19. Ready(y)'
  BY <1>6, <1>8, <1>9, <1>18, NowReady
<1> QED
  BY <1>6, <1>7, <1>8, <1>9, <1>19 DEF IInv, Safe

-----------------------------------------------------------------------------
(* A receiver is tried as a type.                                            *)
\* Where nothing was looked at since the frames were opened, they fit whatever
\* comes next.
LEMMA SoundElsewhere ==
    ASSUME Tape, NEW F, NEW P, \A s \in F : s.x.position \in Nat /\ s.x.position < position',
           position' \in Nat,
           \A s \in F : ~trying' => "settled" \in s.q.facts,
           \A s \in F : trying' /\ "settled" \in s.q.facts => s.x.position < position' - (at' - 1),
           \A s, t : <<s, t>> \in P => s \in F /\ t \in F /\ PairOK(s, t)
    PROVE  Sound(F, P)'
<1>1. ASSUME NEW s \in F PROVE FrameOK(s)'
  BY DEF FrameOK
<1>2. ASSUME NEW s, NEW t, <<s, t>> \in P PROVE PairOK(s, t)'
  <2>1. PairOK(s, t) /\ t \in F
    BY <1>2
  <2>2. t.x.position # position'
    BY <2>1
  <2> QED
    BY <2>1, <2>2 DEF PairOK
<1> QED
  BY <1>1, <1>2 DEF Sound

LEMMA HoldsElsewhere ==
    ASSUME Tape', NEW F, \A s \in F : s.x.position \in Nat /\ s.x.position < position',
           NEW m \in {"trial", "settled"}, trying' <=> m = "trial"
    PROVE  Holds(Reset({m, "past"}), F)'
<1> PICK q : q = Reset({m, "past"})
  OBVIOUS
<1>1. q.here = Kind /\ q.facts = {m, "past"} /\ q = Reset({m, "past"})
  BY DEF Reset
<1>2. current' \subseteq Kind /\ position' \in Nat
  BY CurrentToken DEF Tape
<1>3. \A s \in F : s.x.position # position'
  BY <1>2
<1>4. Holds(q, F)'
  BY <1>1, <1>2, <1>3 DEF Holds
<1> QED
  BY <1>1, <1>4

LEMMA TryKeeps ==
    ASSUME IInv, TryStep
    PROVE  IInv'
<1> SUFFICES ASSUME NEW op \in {"speculate", "commit", "rewind"}, Doing(op) PROVE IInv'
  BY DEF TryStep
<1>1. op \in Ops
  BY DEF Ops
<1>2. PICK z, x, c, q, r, R : Top(z, x, c, q, r) /\ x.op = op /\ Closed(R) /\ Rule(R, c, x, q, r)
  BY <1>1, Topmost
<1>3. /\ Tape /\ Holds(q, Frames(z)) /\ \A s \in Frames(z) : FrameOK(s)
      /\ \A s, t : <<s, t>> \in Pairs(z) => s \in Frames(z) /\ t \in Frames(z) /\ PairOK(s, t)
  BY <1>2, PairFrames DEF Top, Safe, Sound
<1>4. Go(<<>>) /\ UNCHANGED <<ok, flags, previous>> /\ ~silent'
  BY <1>2 DEF TryStep, Top, flags
<1>5. /\ input \in Seq((SUBSET Kind) \ {{}}) /\ at \in 1 .. Len(input) /\ position \in Nat /\ at <= position + 1
      /\ trying \in BOOLEAN /\ (~trying => at = 1) /\ Len(input) \in Nat /\ at \in Nat
  BY <1>3 DEF Tape
<1>6. Doing("speculate") <=> op = "speculate"
  BY DEF Doing
<1>7. (Doing("commit") <=> op = "commit") /\ (Doing("rewind") <=> op = "rewind")
  BY DEF Doing
<1>8. CASE op = "speculate"
  <2>1. Mood(q) = {"settled"} /\ Stayed(q) = {} /\ Implies(Reset({"trial", "past"}), r)
    BY <1>2, <1>8 DEF Rule
  <2>2. trying' = TRUE /\ input' = input /\ at' = at /\ position' = position
    BY <1>6, <1>7, <1>8 DEF TryStep
  <2>3. Tape'
    BY <1>5, <2>2 DEF Tape
  <2>4. ~trying /\ at = 1
    BY <1>3, <1>5, <2>1 DEF Holds, Mood
  <2>5. ASSUME NEW s \in Frames(z) PROVE s.x.position \in Nat /\ s.x.position < position'
    <3>1. s.x.position # position
      BY <1>3, <2>1, CurrentToken DEF Holds, Stayed
    <3> QED
      BY <3>1, <1>3, <1>5, <2>2 DEF FrameOK
  <2>6. Sound(Frames(z), Pairs(z))'
    BY <1>3, <1>5, <2>2, <2>4, <2>5, SoundElsewhere
  <2>7. Holds(Reset({"trial", "past"}), Frames(z))'
    BY <2>2, <2>3, <2>5, HoldsElsewhere
  <2>8. Chain(c, <<>>, Reset({"trial", "past"}), r)
    BY <2>1, Nothing
  <2> QED
    BY <1>2, <1>4, <2>3, <2>6, <2>7, <2>8, Performed
<1>9. CASE op \in {"commit", "rewind"}
  <2>1. Mood(q) = {"trial"} /\ c.mood = "settled" /\ Implies(Reset({"settled", "past"}), r)
    BY <1>2, <1>9 DEF Rule
  <2>2. trying /\ \A s \in Frames(z) : "settled" \in s.q.facts
    BY <1>2, <1>3, <2>1, TopSettled DEF Holds, Mood
  <2>3. ASSUME NEW s \in Frames(z) PROVE s.x.position \in Nat /\ s.x.position < position - (at - 1)
    BY <1>3, <2>2 DEF FrameOK
  <2>4. position - (at - 1) \in Nat /\ position - (at - 1) <= position
    BY <1>5
  <2>5. trying' = FALSE /\ Tape' /\ position - (at - 1) <= position'
    <3>1. CASE op = "commit"
      <4>1. trying' = FALSE /\ input' = SubSeq(input, at, Len(input)) /\ at' = 1 /\ position' = position
        BY <1>6, <1>7, <3>1 DEF TryStep
      <4>2. input' \in Seq((SUBSET Kind) \ {{}}) /\ Len(input') = Len(input) - at + 1
        <5>1. \A i \in at .. Len(input) : input[i] \in (SUBSET Kind) \ {{}}
          BY <1>5
        <5> HIDE DEF Kind
        <5> QED
          BY <5>1, <4>1, <1>5, SubSeqProperties
      <4>3. 1 \in 1 .. Len(input')
        BY <4>2, <1>5
      <4>4. at' \in 1 .. Len(input') /\ position' \in Nat /\ at' <= position' + 1 /\ trying' \in BOOLEAN
        <5>1. at' \in 1 .. Len(input')
          BY <4>1, <4>3
        <5>2. position' \in Nat /\ at' <= position' + 1
          <6>1. PICK p \in Nat : p = position
            BY <1>5
          <6>2. 1 <= p + 1
            BY <6>1
          <6> QED
            BY <4>1, <6>1, <6>2
        <5> QED
          BY <4>1, <5>1, <5>2
      <4>5. ~trying' => at' = 1
        BY <4>1
      <4>6. Tape'
        BY <4>2, <4>4, <4>5 DEF Tape
      <4> QED
        BY <4>1, <4>6, <2>4
    <3>2. CASE op = "rewind"
      <4>1. trying' = FALSE /\ input' = input /\ at' = 1 /\ position' = position - (at - 1)
        BY <1>6, <1>7, <3>2 DEF TryStep
      <4>2. 1 \in 1 .. Len(input) /\ 1 <= position' + 1
        BY <4>1, <1>5, <2>4
      <4>3. at' \in 1 .. Len(input') /\ position' \in Nat /\ at' <= position' + 1 /\ trying' \in BOOLEAN
        BY <4>1, <4>2, <1>5, <2>4
      <4>4. input' \in Seq((SUBSET Kind) \ {{}}) /\ (~trying' => at' = 1)
        BY <4>1, <1>5
      <4>5. Tape'
        BY <4>3, <4>4 DEF Tape
      <4>6. position - (at - 1) <= position'
        BY <4>1, <1>5
      <4> QED
        BY <4>1, <4>5, <4>6
    <3> QED
      BY <3>1, <3>2, <1>9
  <2>6. position' \in Nat
    BY <2>5 DEF Tape
  <2>7. ASSUME NEW s \in Frames(z) PROVE s.x.position \in Nat /\ s.x.position < position'
    BY <2>3, <2>4, <2>5, <2>6
  <2>8. Sound(Frames(z), Pairs(z))'
    BY <1>3, <2>2, <2>5, <2>6, <2>7, SoundElsewhere
  <2>9. Holds(Reset({"settled", "past"}), Frames(z))'
    BY <2>5, <2>7, HoldsElsewhere
  <2>10. Chain(c, <<>>, Reset({"settled", "past"}), r)
    BY <2>1, Nothing
  <2> QED
    BY <1>2, <1>4, <2>5, <2>8, <2>9, <2>10, Performed
<1> QED
  BY <1>8, <1>9

-----------------------------------------------------------------------------
(* The parser begins, and goes on.                                           *)
\* The unit has no contract: it is not called.
UnitObeyed == Chain(Outermost, parse_translation_unit, Open(Kind, {"settled"}), Anything)

\* The stack a parser begins with: at most one frame, with the first token.
Begins(w, q, e) ==
    /\ Stack(w) /\ Steps(w) = Beginning(e) /\ Meets(q, w) /\ Pairs(w) = {}
    /\ q.facts = {"settled"} /\ Opening(e) \subseteq q.here /\ q.some = q.here /\ q.none = q.here
    /\ \A s \in Frames(w) : s.x.position = 0 /\ "settled" \in s.q.facts

LEMMA Empty ==
    Stack(<<>>) /\ Frames(<<>>) = {} /\ Pairs(<<>>) = {} /\ Where(<<>>) = Outermost
    /\ Steps(<<>>) = <<>> /\ \A q : Meets(q, <<>>)
<1>1. IsSeq(<<>>)
  <2>1. <<>> \in Seq({})
    OBVIOUS
  <2> QED
    BY <2>1 DEF IsSeq
<1>2. Len(<<>>) = 0 /\ 1 .. 0 = {}
  OBVIOUS
<1>3. Stack(<<>>)
  BY <1>1, <1>2 DEF Stack
<1>4. Frames(<<>>) = {}
  BY <1>2 DEF Frames
<1>5. Pairs(<<>>) = {}
  BY <1>2 DEF Pairs
<1>6. Steps(<<>>) = <<>>
  <2>1. IsSeq(Steps(<<>>)) /\ Len(Steps(<<>>)) = 0
    BY <1>1, <1>2, StepsAre
  <2> QED
    BY <2>1 DEF IsSeq
<1> QED
  BY <1>3, <1>4, <1>5, <1>6 DEF Where, Meets

LEMMA ConcatEmpty ==
    \A s : IsSeq(s) => s \o <<>> = s /\ <<>> \o s = s
<1> TAKE s
<1> HAVE IsSeq(s)
<1>1. PICK S : s \in Seq(S)
  BY DEF IsSeq
<1> QED
  BY <1>1

LEMMA Unit ==
    ASSUME UnitObeyed
    PROVE  \E b : /\ Stack(b) /\ Steps(b) = parse_translation_unit /\ Meets(Open(Kind, {"settled"}), b)
                  /\ Frames(b) = {} /\ Pairs(b) = {} /\ Where(b) = Outermost
<1>1. PICK s, q, e : s = parse_translation_unit /\ q = Open(Kind, {"settled"}) /\ e = <<>>
  OBVIOUS
<1>2. Stack(e) /\ Chain(Where(e), s, q, Anything) /\ Meets(Anything, e)
  BY <1>1, Empty DEF UnitObeyed
<1>3. PICK b : /\ Stack(b) /\ Steps(b) = s \o Steps(e) /\ Meets(q, b)
               /\ Frames(b) = Frames(e) /\ Pairs(b) = Pairs(e) /\ Where(b) = Where(e)
  BY <1>2, StackPush
<1>4. s \o Steps(e) = s
  <2>1. IsSeq(s)
    BY <1>2 DEF Chain
  <2> QED
    BY <2>1, <1>1, Empty, ConcatEmpty
<1> QED
  BY <1>1, <1>3, <1>4, Empty

LEMMA Began ==
    ASSUME Obeyed, UnitObeyed, EntryPrograms, NEW e \in Entry
    PROVE  \E w, q : Begins(w, q, e)
<1> PICK u : u = Open(Kind, {"settled"})
  OBVIOUS
<1>1. PICK b : /\ Stack(b) /\ Steps(b) = parse_translation_unit /\ Meets(u, b)
               /\ Frames(b) = {} /\ Pairs(b) = {} /\ Where(b) = Outermost
  BY Unit
<1>2. u.here = Kind /\ u.some = Kind /\ u.none = Kind /\ u.facts = {"settled"}
  BY DEF Open
<1>3. Opening(e) \subseteq Kind
  BY Tokens DEF Opening, Kind
<1>4. CASE e = "translation_unit"
  <2>1. Beginning(e) = Steps(b)
    <3>1. IsSeq(Steps(b))
      BY <1>1, StepsAre DEF Stack
    <3> QED
      BY <3>1, <1>1, <1>4, ConcatEmpty DEF Beginning
  <2> QED
    BY <2>1, <1>1, <1>2, <1>3 DEF Begins
<1>5. CASE e # "translation_unit"
  <2>1. e \in Function
    BY <1>5 DEF Function, EntryPrograms
  <2>2. PICK k, q : k = End(e, 0) /\ q = Start(e, "settled")
    OBVIOUS
  <2>3. k.op = "end" /\ k.f = e /\ k.position = 0 /\ Origin(k) = Call(e)
    BY <2>2 DEF End, Origin
  <2>4. /\ q.here = First_token(e) /\ q.some = q.here /\ q.none = q.here /\ q.facts = {"settled"}
        /\ First_token(e) # {} /\ First_token(e) \subseteq Kind
    BY <2>2 DEF Start, Open, First_token, Kind
  <2>5. PICK f : f = [x |-> k, c |-> Outermost, q |-> q, r |-> u]
    OBVIOUS
  <2>6. f.x = k /\ f.c = Outermost /\ f.q = q /\ f.r = u
    BY <2>5
  <2>7. Fits(Outermost, Call(e), q, u)
    <3>1. Rank(e) < Rank(Outermost.f) /\ Outermost.mood = "settled"
      <4>1. Rank("translation_unit") = 8 /\ Outermost.f = "translation_unit" /\ Outermost.mood = "settled"
        BY DEF Rank, Outermost, InFunction
      <4>2. Rank(e) < 8
        BY <1>5 DEF Rank
      <4> QED
        BY <4>1, <4>2
    <3>2. Mood(q) = {"settled"}
      BY <2>4 DEF Mood
    <3>3. Implies(Returned(q, e), u)
      BY <3>2, <2>4, <1>2 DEF Implies, Returned, Stayed, Pass, Moved
    <3> QED
      BY <3>1, <3>2, <3>3, <2>1, <2>4, FitsCall
  <2>8. Framed(f, b)
    BY <2>3, <2>6, <2>7, <1>1 DEF Framed
  <2>9. Around(f) = InFunction(e, "settled")
    BY <2>3, <2>4, <2>6 DEF Around, MoodOf
  <2>10. PICK s : s = Program[e]
    OBVIOUS
  <2>11. Chain(Around(f), s, q, Anything)
    BY <2>1, <2>2, <2>9, <2>10 DEF Obeyed
  <2>12. PICK w : Opens(w, s, q, f, b)
    BY <2>3, <2>6, <2>8, <2>11, Opened
  <2>13. Stack(w) /\ Steps(w) = (s \o <<k>>) \o Steps(b) /\ Meets(q, w) /\ Frames(w) = {f} /\ Pairs(w) = {}
    BY <2>12, <2>6, <1>1 DEF Opens, Over
  <2>14. Steps(w) = Beginning(e)
    BY <2>13, <2>2, <2>10, <1>1, <1>5 DEF Beginning
  <2>15. Opening(e) \subseteq q.here
    BY <2>4, <1>3 DEF Opening, First_token
  <2> QED
    BY <2>3, <2>4, <2>6, <2>13, <2>14, <2>15 DEF Begins
<1> QED
  BY <1>4, <1>5

LEMMA Openings ==
    \A e : Opening(e) \in (SUBSET Kind) \ {{}}
<1> TAKE e
<1>1. {"{"} \in (SUBSET Kind) \ {{}}
  BY DEF Kind
<1> QED
  BY <1>1, Tokens DEF Opening

LEMMA OneToken ==
    ASSUME NEW t \in (SUBSET Kind) \ {{}}
    PROVE  <<t>> \in Seq((SUBSET Kind) \ {{}}) /\ Len(<<t>>) = 1 /\ <<t>>[1] = t /\ 1 \in 1 .. Len(<<t>>)
<1> HIDE DEF Kind
<1> QED
  OBVIOUS

LEMMA FirstState ==
    ASSUME Obeyed, UnitObeyed, EntryPrograms, Init
    PROVE  IInv
<1>1. PICK e \in Entry : todo = Beginning(e) /\ input = <<Opening(e)>>
  BY DEF Init
<1>2. at = 1 /\ trying = FALSE /\ position = 0 /\ previous = "other" /\ silent = FALSE
  BY DEF Init
<1>3. PICK w, q : Begins(w, q, e)
  BY <1>1, Began
<1>4. Opening(e) \in (SUBSET Kind) \ {{}}
  BY Openings
<1>5. input \in Seq((SUBSET Kind) \ {{}}) /\ 1 \in 1 .. Len(input) /\ input[1] = Opening(e)
  BY <1>1, <1>4, OneToken
<1>6. Tape
  <2>1. 0 \in Nat /\ 1 <= 0 + 1
    OBVIOUS
  <2>2. position \in Nat /\ at <= position + 1
    BY <2>1, <1>2
  <2>3. at \in 1 .. Len(input)
    BY <1>2, <1>5
  <2> QED
    BY <2>2, <2>3, <1>2, <1>5 DEF Tape
<1>7. current = Opening(e)
  BY <1>2, <1>5 DEF current
<1>8. /\ Stack(w) /\ todo = Steps(w) /\ Meets(q, w) /\ Pairs(w) = {}
      /\ q.facts = {"settled"} /\ Opening(e) \subseteq q.here /\ q.some = q.here /\ q.none = q.here
      /\ \A s \in Frames(w) : s.x.position = 0 /\ "settled" \in s.q.facts
  BY <1>1, <1>3 DEF Begins
<1>9. \A s \in Frames(w) : FrameOK(s)
  BY <1>2, <1>8 DEF FrameOK
<1>10. Sound(Frames(w), Pairs(w))
  BY <1>8, <1>9 DEF Sound
<1>11. Holds(q, Frames(w))
  BY <1>2, <1>7, <1>8 DEF Holds
<1>12. Ready(w)
  <2> SUFFICES ASSUME w # <<>>, w[1].x.op # "end" PROVE Holds(Before(w[1]), Frames(w))
    BY DEF Ready
  <2>1. Implies(q, Before(w[1]))
    BY <1>8 DEF Meets
  <2>2. Stayed(q) # {}
    BY <1>4, <1>8 DEF Stayed
  <2>3. Before(w[1]).facts \subseteq {"settled"}
    BY <2>1, <2>2, <1>8 DEF Implies, Moved
  <2> QED
    BY <2>1, <2>3, <1>2, <1>11, <1>8 DEF Implies, Holds
<1> QED
  BY <1>2, <1>6, <1>8, <1>10, <1>12 DEF IInv, Safe

\* A new parser.
LEMMA NewState ==
    ASSUME Obeyed, UnitObeyed, EntryPrograms, New
    PROVE  IInv'
<1>1. PICK e \in Entry : todo' = Beginning(e) /\ input' = <<Opening(e)>>
  BY DEF New
<1>2. at' = 1 /\ trying' = FALSE /\ position' = 0 /\ previous' = "other" /\ silent' = FALSE
  BY DEF New
<1>3. PICK w, q : Begins(w, q, e)
  BY <1>1, Began
<1>4. Opening(e) \in (SUBSET Kind) \ {{}}
  BY Openings
<1>5. input' \in Seq((SUBSET Kind) \ {{}}) /\ 1 \in 1 .. Len(input') /\ input'[1] = Opening(e)
  BY <1>1, <1>4, OneToken
<1>6. Tape'
  <2>1. 0 \in Nat /\ 1 <= 0 + 1
    OBVIOUS
  <2>2. position' \in Nat /\ at' <= position' + 1
    BY <2>1, <1>2
  <2>3. at' \in 1 .. Len(input')
    BY <1>2, <1>5
  <2> QED
    BY <2>2, <2>3, <1>2, <1>5 DEF Tape
<1>7. current' = Opening(e)
  BY <1>2, <1>5 DEF current
<1>8. /\ Stack(w) /\ todo' = Steps(w) /\ Meets(q, w) /\ Pairs(w) = {}
      /\ q.facts = {"settled"} /\ Opening(e) \subseteq q.here /\ q.some = q.here /\ q.none = q.here
      /\ \A s \in Frames(w) : s.x.position = 0 /\ "settled" \in s.q.facts
  BY <1>1, <1>3 DEF Begins
<1>9. \A s \in Frames(w) : FrameOK(s)'
  BY <1>2, <1>8 DEF FrameOK
<1>10. Sound(Frames(w), Pairs(w))'
  BY <1>8, <1>9 DEF Sound
<1>11. Holds(q, Frames(w))'
  BY <1>2, <1>7, <1>8 DEF Holds
<1>12. Ready(w)'
  BY <1>6, <1>8, <1>10, <1>11, NowReady
<1> QED
  BY <1>2, <1>6, <1>8, <1>10, <1>12 DEF IInv, Safe

\* No parser.
LEMMA Dropped ==
    /\ NoParser => IInv
    /\ Drop_parser => IInv'
BY DEF NoParser, Drop_parser, IInv

LEMMA NextKeeps ==
    ASSUME Obeyed, IInv, [Next]_vars
    PROVE  IInv'
<1>1. CASE UNCHANGED vars
  <2>1. /\ input' = input /\ at' = at /\ position' = position /\ trying' = trying /\ current' = current
        /\ todo' = todo /\ silent' = silent /\ UNCHANGED <<ok, flags, tape>>
    BY <1>1 DEF vars, current, flags, tape
  <2>2. CASE todo = <<>>
    BY <2>1, <2>2 DEF IInv
  <2>3. CASE todo # <<>>
    <3>1. PICK z : Tape /\ Safe(z) /\ todo = Steps(z)
      BY <2>3 DEF IInv
    <3>2. Tape' /\ position \in Nat
      BY <2>1, <3>1 DEF Tape
    <3>3. Sound(Frames(z), Pairs(z))'
      <4>1. \A s, t : <<s, t>> \in Pairs(z) => s \in Frames(z) /\ t \in Frames(z)
        BY PairFrames
      <4>2. position <= position' /\ position' - (at' - 1) = position - (at - 1)
        BY <2>1, <3>2
      <4>3. Sound(Frames(z), Pairs(z))
        BY <3>1 DEF Safe
      <4> QED
        BY <4>1, <4>2, <4>3, <2>1, <3>1, <3>2, SoundKept
    <3>4. Ready(z)'
      <4> SUFFICES ASSUME z # <<>>, z[1].x.op # "end" PROVE Holds(Before(z[1]), Frames(z))'
        BY DEF Ready
      <4>1. Holds(Before(z[1]), Frames(z)) /\ current \subseteq current
        BY <3>1 DEF Safe, Ready
      <4> QED
        BY <4>1, <2>1, HoldsBelow
    <3> QED
      BY <2>1, <3>1, <3>2, <3>3, <3>4 DEF IInv, Safe
  <2> QED
    BY <2>2, <2>3
<1>2. CASE NeedStep
  BY <1>2, NeedKeeps
<1>3. CASE CasesStep
  BY <1>3, CasesKeeps
<1>4. CASE LookStep
  BY <1>4, LookKeeps
<1>5. CASE AheadStep
  BY <1>5, AheadKeeps
<1>6. CASE SkipStep
  BY <1>6, SkipKeeps
<1>7. CASE DropStep
  BY <1>7, DropKeeps
<1>8. CASE ErrorStep
  BY <1>8, ErrorKeeps
<1>9. CASE RecoverStep
  BY <1>9, RecoverKeeps
<1>10. CASE BranchStep
  BY <1>10, BranchKeeps
<1>11. CASE CallStep
  BY <1>11, CallKeeps
<1>12. CASE ReturnStep
  BY <1>12, ReturnKeeps
<1>13. CASE LoopStep
  BY <1>13, LoopKeeps
<1>14. CASE TryStep
  BY <1>14, TryKeeps
<1> QED
  BY <1>1, <1>2, <1>3, <1>4, <1>5, <1>6, <1>7, <1>8, <1>9, <1>10, <1>11, <1>12, <1>13, <1>14 DEF Next

LEMMA Sufficient ==
    ASSUME IInv
    PROVE  Progress /\ DropsReported
<1>1. DropsReported
  BY DEF IInv, DropsReported
<1>2. ASSUME Doing("again"), step.name # "ivars" PROVE step.position < position
  <2>1. PICK z, x, c, q, r : Turns(z, x, c, q, r)
    BY <1>2, TurnsTop
  <2>2. /\ Tape /\ x = step /\ z[1].x = step /\ z[1] \in Frames(z) /\ FrameOK(z[1])
        /\ Holds(Turned(q, x.name), Frames(z))
    BY <2>1 DEF Turns
  <2>3. Turned(q, x.name).some = {} /\ Turned(q, x.name).none = {}
    BY <2>2, <1>2 DEF Turned, Reset
  <2>4. step.position # position
    BY <2>2, <2>3, CurrentToken DEF Holds
  <2>5. step.position \in Nat /\ step.position <= position /\ position \in Nat
    BY <2>2 DEF FrameOK, Tape
  <2> QED
    BY <2>4, <2>5
<1>3. ASSUME NEW i \in Calls, NEW j \in Calls, i < j
      PROVE  todo[i].f # todo[j].f \/ todo[i].position # todo[j].position
  <2>1. todo # <<>>
    BY DEF Calls
  <2>2. PICK z : Safe(z) /\ todo = Steps(z)
    BY <2>1 DEF IInv
  <2>3. /\ i \in 1 .. Len(z) /\ j \in 1 .. Len(z) /\ todo[i] = z[i].x /\ todo[j] = z[j].x
        /\ z[i].x.op = "end" /\ z[j].x.op = "end"
    BY <2>2 DEF Calls, Steps
  <2>4. <<z[i], z[j]>> \in Pairs(z)
    BY <2>3, <1>3, PairsAre DEF IsFrame
  <2>5. PairOK(z[i], z[j])
    BY <2>2, <2>4 DEF Safe, Sound
  <2>6. Rank(todo[i].f) \in Nat
    BY DEF Rank
  <2> QED
    BY <2>3, <2>5, <2>6 DEF PairOK
<1> QED
  BY <1>1, <1>2, <1>3 DEF Progress

-----------------------------------------------------------------------------
(* The steps that do not branch.                                             *)
LEMMA FitsSkip ==
    ASSUME NEW c, NEW q, NEW r, Implies(Consumed(q, Kind), r), Implies(Among(q, {"eof"}), r)
    PROVE  Fits(c, Skip, q, r)
<1>1. Rule({}, c, Skip, q, r) /\ Closed({})
  BY DEF Rule, Skip, Ops, Closed
<1> QED
  BY <1>1, Built

LEMMA FitsDrop ==
    ASSUME NEW c, NEW q, NEW r, Implies(Consumed(q, Kind), r), "eof" \notin q.here, "excused" \in q.facts
    PROVE  Fits(c, Drop, q, r)
<1>1. Rule({}, c, Drop, q, r) /\ Closed({})
  BY DEF Rule, Drop, Ops, Closed
<1> QED
  BY <1>1, Built

LEMMA FitsError ==
    ASSUME NEW c, NEW q, NEW r, Implies(Reported(q), r)
    PROVE  Fits(c, Error, q, r)
<1>1. Rule({}, c, Error, q, r) /\ Closed({})
  BY DEF Rule, Error, Ops, Closed
<1> QED
  BY <1>1, Built

LEMMA FitsRecover ==
    ASSUME NEW c, NEW q, NEW r, Implies(Recovering(q), r)
    PROVE  Fits(c, Recover, q, r)
<1>1. Rule({}, c, Recover, q, r) /\ Closed({})
  BY DEF Rule, Recover, Ops, Closed
<1> QED
  BY <1>1, Built

LEMMA FitsReturn ==
    ASSUME NEW c, c.f \in Function, NEW q, Mood(q) = {c.mood}, NEW r
    PROVE  /\ Moved(q) \/ Stayed(q) \subseteq Stays(c.f, TRUE) => Fits(c, Some, q, r)
           /\ /\ Moved(q) \/ Stayed(q) \subseteq Stays(c.f, FALSE)
              /\ c.f \in Answers => "blamed" \in q.facts
              => Fits(c, None, q, r)
<1>1. ASSUME Moved(q) \/ Stayed(q) \subseteq Stays(c.f, TRUE)
      PROVE  Fits(c, Some, q, r)
  <2>1. Some.op = "return" /\ Some.ok
    BY DEF Some
  <2>2. PICK x : x = Some
    OBVIOUS
  <2>3. x.op = "return" /\ x.ok
    BY <2>1, <2>2
  <2>4. Stays(c.f, x.ok) = Stays(c.f, TRUE)
    BY <2>3 DEF Stays
  <2>5. Rule({}, c, x, q, r)
    <3>1. x.op \in Ops
      BY <2>3 DEF Ops
    <3>2. Moved(q) \/ Stayed(q) \subseteq Stays(c.f, x.ok)
      BY <2>4, <1>1
    <3> QED
      BY <3>1, <3>2, <2>3, <1>1 DEF Rule
  <2>6. Closed({})
    BY DEF Closed
  <2> QED
    BY <2>2, <2>5, <2>6, Built
<1>2. ASSUME Moved(q) \/ Stayed(q) \subseteq Stays(c.f, FALSE), c.f \in Answers => "blamed" \in q.facts
      PROVE  Fits(c, None, q, r)
  <2>1. None.op = "return" /\ ~None.ok
    BY DEF None
  <2>2. PICK x : x = None
    OBVIOUS
  <2>3. x.op = "return" /\ ~x.ok
    BY <2>1, <2>2
  <2>4. Stays(c.f, x.ok) = Stays(c.f, FALSE)
    BY <2>3 DEF Stays
  <2>5. Rule({}, c, x, q, r)
    <3>1. x.op \in Ops
      BY <2>3 DEF Ops
    <3>2. Moved(q) \/ Stayed(q) \subseteq Stays(c.f, x.ok)
      BY <2>4, <1>2
    <3> QED
      BY <3>1, <3>2, <2>3, <1>2 DEF Rule
  <2>6. Closed({})
    BY DEF Closed
  <2> QED
    BY <2>2, <2>5, <2>6, Built
<1> QED
  BY <1>1, <1>2

LEMMA FitsContinue ==
    ASSUME NEW c, c.loop # "none", NEW q, NEW r, Implies(q, c.next)
    PROVE  Fits(c, Continue, q, r)
<1>1. Rule({}, c, Continue, q, r) /\ Closed({})
  BY DEF Rule, Continue, Ops, Closed
<1> QED
  BY <1>1, Built

LEMMA FitsIfPanic ==
    ASSUME NEW c, NEW yes, NEW q, NEW r, Chain(c, yes, Reported(q), r), Implies(q, r)
    PROVE  Fits(c, IfPanic(yes), q, r)
<1>1. Chain(c, <<>>, q, r)
  BY Nothing
<1>2. PICK R : Closed(R) /\ In(R, c, yes, Reported(q), r) /\ In(R, c, <<>>, q, r)
  BY <1>1, TwoChains
<1>3. Rule(R, c, IfPanic(yes), q, r)
  BY <1>2 DEF Rule, IfPanic, Ops
<1> QED
  BY <1>2, <1>3, Built

LEMMA FitsAfterSemicolon ==
    ASSUME NEW c, NEW yes, NEW q, NEW r, Chain(c, yes, q, r), Implies(NotEnded(q), r)
    PROVE  Fits(c, AfterSemicolon(yes), q, r)
<1>1. Chain(c, <<>>, NotEnded(q), r)
  BY Nothing
<1>2. PICK R : Closed(R) /\ In(R, c, yes, q, r) /\ In(R, c, <<>>, NotEnded(q), r)
  BY <1>1, TwoChains
<1>3. Rule(R, c, AfterSemicolon(yes), q, r)
  BY <1>2 DEF Rule, AfterSemicolon, Ops
<1> QED
  BY <1>2, <1>3, Built

LEMMA FitsStill ==
    ASSUME NEW c, c.loop # "none", NEW yes, NEW q, NEW r,
           Chain(c, yes, Still(q, c.loop), r), Implies(Left(q), r)
    PROVE  Fits(c, IfStill(yes), q, r)
<1>1. Chain(c, <<>>, Left(q), r)
  BY Nothing
<1>2. PICK R : Closed(R) /\ In(R, c, yes, Still(q, c.loop), r) /\ In(R, c, <<>>, Left(q), r)
  BY <1>1, TwoChains
<1>3. Rule(R, c, IfStill(yes), q, r)
  BY <1>2 DEF Rule, IfStill, Ops
<1> QED
  BY <1>2, <1>3, Built

LEMMA FitsTry ==
    ASSUME NEW c, NEW q, NEW r
    PROVE  /\ Mood(q) = {"settled"} /\ Stayed(q) = {} /\ Implies(Reset({"trial", "past"}), r)
              => Fits(c, Speculate, q, r)
           /\ Mood(q) = {"trial"} /\ c.mood = "settled" /\ Implies(Reset({"settled", "past"}), r)
              => Fits(c, Commit, q, r) /\ Fits(c, Rewind, q, r)
<1>1. ASSUME Mood(q) = {"settled"}, Stayed(q) = {}, Implies(Reset({"trial", "past"}), r)
      PROVE  Fits(c, Speculate, q, r)
  <2>1. Rule({}, c, Speculate, q, r) /\ Closed({})
    BY <1>1 DEF Rule, Speculate, Ops, Closed
  <2> QED
    BY <2>1, Built
<1>2. ASSUME Mood(q) = {"trial"}, c.mood = "settled", Implies(Reset({"settled", "past"}), r)
      PROVE  Fits(c, Commit, q, r) /\ Fits(c, Rewind, q, r)
  <2>1. Rule({}, c, Commit, q, r) /\ Rule({}, c, Rewind, q, r) /\ Closed({})
    BY <1>2 DEF Rule, Commit, Rewind, Ops, Closed
  <2> QED
    BY <2>1, Built
<1> QED
  BY <1>1, <1>2

LEMMA FitsMatch ==
    ASSUME NEW c, NEW q, NEW r, NEW k, "eof" \notin k,
           NEW yes, Chain(c, yes, Consumed(q, k), r), NEW no, Chain(c, no, Without(q, k), r)
    PROVE  Fits(c, Match(k, yes, no), q, r)
<1> DEFINE a == <<On(k, yes)>>
<1>1. DOMAIN a = {1} /\ a[1].kinds = k /\ a[1].body = yes
  BY DEF On
<1>2. UNION {a[i].kinds : i \in DOMAIN a} = k
  BY <1>1
<1> HIDE DEF a
<1>3. Fits(c, Cases(a, no), q, r)
  BY <1>1, <1>2, FitsCases
<1> QED
  BY <1>3 DEF Match, a

-----------------------------------------------------------------------------
(* Programs put together.                                                    *)
LEMMA ChainJoin ==
    ASSUME NEW c, NEW s, NEW t, NEW q, NEW p, NEW r, Chain(c, s, q, p), Chain(c, t, p, r)
    PROVE  Chain(c, s \o t, q, r)
<1>1. /\ IsSeq(s) /\ IsSeq(t) /\ IsSeq(s \o t) /\ Len(s) \in Nat /\ Len(t) \in Nat
      /\ Len(s \o t) = Len(s) + Len(t)
      /\ \A i \in 1 .. Len(s) : (s \o t)[i] = s[i]
      /\ \A i \in 1 .. Len(t) : (s \o t)[Len(s) + i] = t[i]
  BY Concatenated DEF Chain
<1>2. PICK v : Linked(v, Len(s), q, p) /\ \A i \in 1 .. Len(s) : Fits(c, s[i], v[i].q, v[i].r)
  BY DEF Chain
<1>3. PICK w : Linked(w, Len(t), p, r) /\ \A i \in 1 .. Len(t) : Fits(c, t[i], w[i].q, w[i].r)
  BY DEF Chain
<1>4. PICK m, n \in Nat : m = Len(s) /\ n = Len(t)
  BY <1>1
<1>5. CASE m = 0
  <2>1. s = <<>> /\ Implies(q, p)
    BY <1>1, <1>2, <1>4, <1>5 DEF IsSeq, Linked
  <2>2. s \o t = t
    BY <2>1, <1>1, ConcatEmpty
  <2>3. Implies(r, r)
    BY DEF Implies, Moved
  <2> QED
    BY <2>1, <2>2, <2>3, Weaken
<1>6. CASE n = 0
  <2>1. t = <<>> /\ Implies(p, r)
    BY <1>1, <1>3, <1>4, <1>6 DEF IsSeq, Linked
  <2>2. s \o t = s
    BY <2>1, <1>1, ConcatEmpty
  <2>3. Implies(q, q)
    BY DEF Implies, Moved
  <2> QED
    BY <2>1, <2>2, <2>3, Weaken
<1>7. CASE m # 0 /\ n # 0
  <2> DEFINE u == [i \in 1 .. m + n |-> IF i <= m THEN v[i] ELSE w[i - m]]
  <2>1. /\ Implies(q, v[1].q) /\ Implies(v[m].r, p) /\ \A i \in 1 .. m - 1 : Implies(v[i].r, v[i + 1].q)
        /\ Implies(p, w[1].q) /\ Implies(w[n].r, r) /\ \A i \in 1 .. n - 1 : Implies(w[i].r, w[i + 1].q)
    BY <1>2, <1>3, <1>4, <1>7 DEF Linked
  <2>2. Implies(v[m].r, w[1].q)
    BY <2>1, ImpliesTrans
  <2>3. u[1] = v[1] /\ u[m + n] = w[n]
    BY <1>7
  <2>4. ASSUME NEW i \in 1 .. (m + n) - 1 PROVE Implies(u[i].r, u[i + 1].q)
    <3>1. CASE i < m
      <4>1. i \in 1 .. m - 1 /\ u[i] = v[i] /\ u[i + 1] = v[i + 1]
        BY <3>1
      <4> QED
        BY <4>1, <2>1
    <3>2. CASE i = m
      <4>1. u[i] = v[m] /\ u[i + 1] = w[1]
        BY <3>2, <1>7
      <4> QED
        BY <4>1, <2>2
    <3>3. CASE i > m
      <4>1. PICK j \in 1 .. n - 1 : i = m + j
        <5>1. i - m \in 1 .. n - 1 /\ i = m + (i - m)
          BY <3>3
        <5> QED
          BY <5>1
      <4>2. u[i] = w[j] /\ u[i + 1] = w[j + 1]
        BY <4>1
      <4> QED
        BY <4>1, <4>2, <2>1
    <3> QED
      BY <3>1, <3>2, <3>3
  <2>5. ASSUME NEW i \in 1 .. m + n PROVE Fits(c, (s \o t)[i], u[i].q, u[i].r)
    <3>1. CASE i <= m
      BY <3>1, <1>1, <1>2, <1>4
    <3>2. CASE i > m
      <4>1. PICK j \in 1 .. n : i = m + j
        <5>1. i - m \in 1 .. n /\ i = m + (i - m)
          BY <3>2
        <5> QED
          BY <5>1
      <4>2. u[i] = w[j] /\ (s \o t)[i] = t[j]
        BY <4>1, <1>1, <1>4
      <4> QED
        BY <4>2, <1>3, <1>4
    <3>3. i <= m \/ i > m
      OBVIOUS
    <3> QED
      BY <3>1, <3>2, <3>3
  <2> HIDE DEF u
  <2>6. Linked(u, m + n, q, r)
    BY <2>1, <2>3, <2>4, <1>7 DEF Linked
  <2> QED
    BY <2>5, <2>6, <1>1, <1>4 DEF Chain
<1> QED
  BY <1>4, <1>5, <1>6, <1>7

LEMMA ChainOne ==
    ASSUME NEW c, NEW a, NEW q, NEW r, Fits(c, a, q, r)
    PROVE  Chain(c, <<a>>, q, r)
<1> DEFINE v == [i \in {1} |-> [q |-> q, r |-> r]]
<1>1. v[1].q = q /\ v[1].r = r /\ Implies(q, q) /\ Implies(r, r)
  BY DEF Implies, Moved
<1> HIDE DEF v
<1>2. IsSeq(<<a>>) /\ Len(<<a>>) = 1 /\ <<a>>[1] = a
  BY Single
<1>3. Linked(v, 1, q, r)
  BY <1>1 DEF Linked
<1>4. \A i \in 1 .. 1 : i = 1
  OBVIOUS
<1> QED
  BY <1>1, <1>2, <1>3, <1>4 DEF Chain

-----------------------------------------------------------------------------
(* Steps that keep what is known, and steps that consume a token.            *)
\* Once a token was consumed; programs that keep what is known, from the start of
\* a function or from there on, and programs that consume a token.
Beyond(c) == At(c.mood, {}, Past)
Passes(c, K, p, s) == Chain(c, s, At(c.mood, K, p), At(c.mood, K, p))
Aft(c, x) == Keeps(c, {}, Past, x)
After(c, s) == Passes(c, {}, Past, s)
Spend(c, K, p, x) == Fits(c, x, At(c.mood, K, p), Beyond(c))
Spends(c, K, p, s) == Chain(c, s, At(c.mood, K, p), Beyond(c))

\* Places in the functions, and what the token can be there.
Place(c) == Context(c) /\ c.f \in Function
Zone(c, K, p) == Place(c) /\ Case(K, p)
\* The context of the body of a loop.
Inner(c, n, K, p) == InLoop(c, n, At(c.mood, K, p), At(c.mood, K, p))
\* Where a break is possible, at a place of the kind p.
Turn(c, p) ==
    \E d, n, K, o : Zone(d, K, o) /\ n # "none" /\ c = Inner(d, n, K, o) /\ (o = {} \/ p = Past)
Callable(c, g) ==
    /\ g \in Function \ {"compound_statement"}
    /\ c.mood = "settled" \/ (c.mood = "trial" /\ g \in TypeFunction)
\* A step, and a program, from a place of K and p to r.
Does(c, K, p, r, x) == Fits(c, x, At(c.mood, K, p), r)
Goes(c, K, p, r, s) == Chain(c, s, At(c.mood, K, p), r)

LEMMA SameAt ==
    \A m, K, L, p : K \subseteq L => Implies(At(m, K, p), At(m, L, p))
BY DEF Implies, At, Moved, Stayed

LEMMA AtFacts ==
    ASSUME NEW c, Context(c), NEW K, NEW p, Case(K, p)
    PROVE  /\ Mood(At(c.mood, K, p)) = {c.mood} /\ Stayed(At(c.mood, K, p)) = K
           /\ Moved(At(c.mood, K, p)) <=> p = Past
           /\ At(c.mood, K, p).here = Kind
           /\ Implies(Beyond(c), At(c.mood, K, p))
BY DEF Context, Case, Mood, At, Stayed, Moved, Past, Beyond, Implies

LEMMA ChainTwo ==
    ASSUME NEW c, NEW a, NEW b, NEW q, NEW p, NEW r, Fits(c, a, q, p), Fits(c, b, p, r)
    PROVE  Chain(c, <<a, b>>, q, r)
<1>1. Chain(c, <<a>> \o <<b>>, q, r)
  BY ChainOne, ChainJoin
<1>2. <<a>> \o <<b>> = <<a, b>>
  <2>1. <<a>> \in Seq({a, b}) /\ <<b>> \in Seq({a, b}) /\ <<a, b>> \in Seq({a, b})
    OBVIOUS
  <2> PICK s, t \in Seq({a, b}) : s = <<a>> /\ t = <<b>>
    BY <2>1
  <2>2. Len(s) = 1 /\ Len(t) = 1 /\ s[1] = a /\ t[1] = b
    OBVIOUS
  <2>3. s \o t \in Seq({a, b}) /\ Len(s \o t) = 2 /\ (s \o t)[1] = a /\ (s \o t)[2] = b
    BY <2>2, ConcatProperties
  <2>4. PICK w \in Seq({a, b}) : w = <<a, b>>
    BY <2>1
  <2>5. Len(w) = 2 /\ w[1] = a /\ w[2] = b
    BY <2>4
  <2>6. \A i \in 1 .. 2 : i = 1 \/ i = 2
    OBVIOUS
  <2>7. s \o t = w
    BY <2>3, <2>5, <2>6, SeqEqual
  <2> QED
    BY <2>4, <2>7
<1> QED
  BY <1>1, <1>2

LEMMA ConsumedAt ==
    ASSUME NEW c, Context(c), NEW q, Mood(q) = {c.mood}, NEW k
    PROVE  Implies(Consumed(q, k), Beyond(c))
BY DEF Implies, Consumed, Beyond, At, Moved, Past, Blame, Stayed, Mood, Excuse

LEMMA DoesLook ==
    \A c, K, p, r, k, y, n : Goes(c, K, p, r, y) /\ Goes(c, K, p, r, n) => Does(c, K, p, r, Look(k, y, n))
<1> SUFFICES ASSUME NEW c, NEW K, NEW p, NEW r, NEW k, NEW y, NEW n, Goes(c, K, p, r, y), Goes(c, K, p, r, n)
             PROVE  Does(c, K, p, r, Look(k, y, n))
  OBVIOUS
<1> PICK q : q = At(c.mood, K, p)
  OBVIOUS
<1>1. Implies(Among(q, k), q) /\ Implies(Without(q, k), q) /\ Implies(r, r)
  BY DEF Implies, Among, Without, Moved, Stayed
<1>2. Chain(c, y, Among(q, k), r) /\ Chain(c, n, Without(q, k), r)
  BY <1>1, Weaken DEF Goes
<1> QED
  BY <1>2, FitsLook DEF Does

LEMMA DoesFork ==
    \A c, K, p, r, k, y, n : Goes(c, K, p, r, y) /\ Goes(c, K, p, r, n)
        => Does(c, K, p, r, Ahead(k, y, n)) /\ Does(c, K, p, r, Choose(y, n))
BY FitsFork DEF Does, Goes

LEMMA DoesIfOk ==
    \A c, K, p, r, y, n : Goes(c, K, p, r, y) /\ Goes(c, K, p, r, n) => Does(c, K, p, r, IfOk(y, n))
<1> SUFFICES ASSUME NEW c, NEW K, NEW p, NEW r, NEW y, NEW n, Goes(c, K, p, r, y), Goes(c, K, p, r, n)
             PROVE  Does(c, K, p, r, IfOk(y, n))
  OBVIOUS
<1> PICK q : q = At(c.mood, K, p)
  OBVIOUS
<1>1. Implies(Succeeded(q), q) /\ Implies(Failed(q), q) /\ Implies(r, r)
  BY DEF Implies, Succeeded, Failed, Moved, Stayed
<1>2. Chain(c, y, Succeeded(q), r) /\ Chain(c, n, Failed(q), r)
  BY <1>1, Weaken DEF Goes
<1> QED
  BY <1>2, FitsIfOk DEF Does

LEMMA DoesMatch ==
    \A c, K, p, r, k, y, n :
        /\ Zone(c, K, p) /\ "eof" \notin k /\ Implies(Beyond(c), r) /\ After(c, y) /\ Goes(c, K, p, r, n)
        => Does(c, K, p, r, Match(k, y, n))
<1> SUFFICES ASSUME NEW c, NEW K, NEW p, NEW r, NEW k, NEW y, NEW n,
                    Zone(c, K, p), "eof" \notin k, Implies(Beyond(c), r), After(c, y), Goes(c, K, p, r, n)
             PROVE  Does(c, K, p, r, Match(k, y, n))
  OBVIOUS
<1> PICK q : q = At(c.mood, K, p)
  OBVIOUS
<1>1. Mood(q) = {c.mood} /\ Implies(r, r) /\ Implies(Without(q, k), q)
  BY AtFacts DEF Implies, Without, Moved, Stayed, Zone, Place
<1>2. Implies(Consumed(q, k), Beyond(c))
  BY <1>1, ConsumedAt DEF Zone, Place
<1>3. Chain(c, y, Consumed(q, k), r) /\ Chain(c, n, Without(q, k), r)
  BY <1>1, <1>2, Weaken DEF Goes, Passes, After, Beyond
<1> QED
  BY <1>3, FitsMatch DEF Does

\* The alternatives of a Cases.
Each(c, a) == \A i \in DOMAIN a : "eof" \notin a[i].kinds /\ After(c, a[i].body)

LEMMA DoesCases ==
    \A c, K, p, r, a, n :
        /\ Zone(c, K, p) /\ Implies(Beyond(c), r) /\ Each(c, a) /\ Goes(c, K, p, r, n)
        => Does(c, K, p, r, Cases(a, n))
<1> SUFFICES ASSUME NEW c, NEW K, NEW p, NEW r, NEW a, NEW n,
                    Zone(c, K, p), Implies(Beyond(c), r), Each(c, a), Goes(c, K, p, r, n)
             PROVE  Does(c, K, p, r, Cases(a, n))
  OBVIOUS
<1> PICK q : q = At(c.mood, K, p)
  OBVIOUS
<1>1. Mood(q) = {c.mood} /\ Implies(r, r) /\ \A k : Implies(Without(q, k), q)
  BY AtFacts DEF Implies, Without, Moved, Stayed, Zone, Place
<1>2. \A k : Implies(Consumed(q, k), Beyond(c))
  BY <1>1, ConsumedAt DEF Zone, Place
<1>3. \A i \in DOMAIN a : "eof" \notin a[i].kinds /\ Chain(c, a[i].body, Consumed(q, a[i].kinds), r)
  BY <1>1, <1>2, Weaken DEF Passes, After, Beyond, Each
<1>4. Chain(c, n, Without(q, UNION {a[i].kinds : i \in DOMAIN a}), r)
  BY <1>1, Weaken DEF Goes
<1> QED
  BY <1>3, <1>4, FitsCases DEF Does

LEMMA DoesReturn ==
    \A c, K, p, r : Zone(c, K, p) =>
        /\ p = Past \/ K \subseteq Stays(c.f, TRUE) => Does(c, K, p, r, Some)
        /\ c.f \notin Answers /\ (p = Past \/ K \subseteq Stays(c.f, FALSE)) => Does(c, K, p, r, None)
<1> SUFFICES ASSUME NEW c, NEW K, NEW p, NEW r, Zone(c, K, p)
             PROVE  /\ p = Past \/ K \subseteq Stays(c.f, TRUE) => Does(c, K, p, r, Some)
                    /\ c.f \notin Answers /\ (p = Past \/ K \subseteq Stays(c.f, FALSE))
                         => Does(c, K, p, r, None)
  OBVIOUS
<1> PICK q : q = At(c.mood, K, p)
  OBVIOUS
<1>1. Mood(q) = {c.mood} /\ Stayed(q) = K /\ (Moved(q) <=> p = Past) /\ c.f \in Function
  BY AtFacts DEF Zone, Place
<1> QED
  BY <1>1, FitsReturn DEF Does

\* In a function that answers, None comes after an error.
LEMMA GoesBlamed ==
    \A c, K, p, r : Zone(c, K, p) /\ (p = Past \/ K \subseteq Stays(c.f, FALSE))
        => Goes(c, K, p, r, <<Error, None>>)
<1> SUFFICES ASSUME NEW c, NEW K, NEW p, NEW r, Zone(c, K, p), p = Past \/ K \subseteq Stays(c.f, FALSE)
             PROVE  Goes(c, K, p, r, <<Error, None>>)
  OBVIOUS
<1> PICK q : q = At(c.mood, K, p)
  OBVIOUS
<1>1. Mood(q) = {c.mood} /\ Stayed(q) = K /\ (Moved(q) <=> p = Past) /\ c.f \in Function
  BY AtFacts DEF Zone, Place
<1> PICK s : s = Reported(q)
  OBVIOUS
<1>2. Mood(s) = {c.mood} /\ Stayed(s) = K /\ (Moved(q) => Moved(s)) /\ "blamed" \in s.facts
  BY <1>1 DEF Reported, With, Blame, Mood, Stayed, Moved
<1>3. Implies(s, s)
  BY DEF Implies, Moved
<1>4. Fits(c, Error, q, s)
  BY <1>3, FitsError
<1>5. Fits(c, None, s, r)
  BY <1>1, <1>2, FitsReturn
<1> QED
  BY <1>4, <1>5, ChainTwo DEF Goes

LEMMA InnerFacts ==
    \A c, n, K, p :
        /\ Inner(c, n, K, p).f = c.f /\ Inner(c, n, K, p).mood = c.mood /\ Inner(c, n, K, p).loop = n
        /\ Place(c) => Place(Inner(c, n, K, p))
BY DEF Place, Context, Inner, InLoop

LEMMA TurnFacts ==
    \A c, n, K, p, o : Zone(c, K, p) /\ n # "none" /\ (p = {} \/ o = Past) => Turn(Inner(c, n, K, p), o)
BY DEF Turn

LEMMA DoesBreak ==
    \A c, K, p, r : Zone(c, K, p) /\ Turn(c, p) => Does(c, K, p, r, Break)
<1> SUFFICES ASSUME NEW c, NEW K, NEW p, NEW r, Zone(c, K, p), Turn(c, p)
             PROVE  Does(c, K, p, r, Break)
  OBVIOUS
<1>1. PICK d, n, L, o : Zone(d, L, o) /\ n # "none" /\ c = Inner(d, n, L, o) /\ (o = {} \/ p = Past)
  BY DEF Turn
<1> PICK q : q = At(c.mood, K, p)
  OBVIOUS
<1>2. c.mood = d.mood /\ c.exit = At(d.mood, L, o) /\ c.keep = L /\ c.loop = n
  BY <1>1 DEF Inner, InLoop, At, Stayed
<1>3. Implies(Leaving(q, L), At(c.mood, L, o))
  BY <1>1 DEF Implies, Leaving, At, Moved, Stayed, Zone, Case, Past
<1> QED
  BY <1>1, <1>2, <1>3, FitsBreak DEF Does

LEMMA DoesContinue ==
    \A c, r : Place(c) /\ Turn(c, Past) => Does(c, {}, Past, r, Continue)
<1> SUFFICES ASSUME NEW c, NEW r, Place(c), Turn(c, Past)
             PROVE  Does(c, {}, Past, r, Continue)
  OBVIOUS
<1>1. PICK d, n, L, o : Zone(d, L, o) /\ n # "none" /\ c = Inner(d, n, L, o)
  BY DEF Turn
<1>2. c.mood = d.mood /\ c.next = Turned(At(d.mood, L, o), n) /\ c.loop = n
  BY <1>1 DEF Inner, InLoop
<1>3. Turning(At(d.mood, L, o), n) \subseteq {c.mood, "past"}
  BY <1>1, <1>2, AtFacts DEF Turning, Pass, At, Zone, Place, Case, Past, Context, Mood
<1>4. Implies(At(c.mood, {}, Past), c.next)
  BY <1>2, <1>3 DEF Implies, At, Moved, Stayed, Past, Turned, Open, Reset
<1> QED
  BY <1>1, <1>2, <1>4, FitsContinue DEF Does

\* The function g may be called at a place of the kind p.
Lower(c, g, p) == p = Past \/ Rank(g) < Rank(c.f)

LEMMA KeepCall ==
    \A c, K, p, g : Zone(c, K, p) /\ Callable(c, g) /\ Lower(c, g, p) => Keeps(c, K, p, Call(g))
<1> SUFFICES ASSUME NEW c, NEW K, NEW p, NEW g, Zone(c, K, p), Callable(c, g), Lower(c, g, p)
             PROVE  Keeps(c, K, p, Call(g))
  OBVIOUS
<1> PICK q : q = At(c.mood, K, p)
  OBVIOUS
<1>1. Mood(q) = {c.mood} /\ Stayed(q) = K /\ (Moved(q) <=> p = Past) /\ q.here = Kind
      /\ q.some = K /\ q.none = K /\ q.facts = {c.mood} \cup p
  BY AtFacts DEF At, Zone, Place
<1>2. First_token(g) = Kind /\ g \in Function
  BY DEF Callable, First_token
<1>3. Implies(Returned(q, g), q)
  <2> PICK s : s = Returned(q, g)
    OBVIOUS
  <2>1. s.here = Kind /\ s.some \subseteq K /\ s.none \subseteq K
    BY <1>1 DEF Returned
  <2>2. {c.mood} \cup Pass(q) \subseteq s.facts
    BY <1>1 DEF Returned
  <2>3. "past" \notin {c.mood}
    BY DEF Context, Zone, Place
  <2>4. p \subseteq Pass(q)
    BY <1>1 DEF Case, Pass, Past, Zone
  <2>5. q.facts \ {"past"} \subseteq s.facts
    BY <1>1, <2>2, <2>4
  <2>6. "past" \in q.facts => "past" \in s.facts
    BY <1>1, <2>2, <2>3, <2>4
  <2> QED
    BY <1>1, <2>1, <2>5, <2>6 DEF Implies, Moved
<1> QED
  BY <1>1, <1>2, <1>3, FitsCall DEF Keeps, Callable, Lower, Zone

\* A call of a function that succeeds only if it takes a token.
LEMMA GoesTake ==
    \A c, K, p, g, r, y, n :
        /\ Zone(c, K, p) /\ Callable(c, g) /\ Lower(c, g, p)
        /\ g \in Takes \ Opener /\ Implies(Beyond(c), r) /\ After(c, y) /\ Goes(c, K, p, r, n)
        => Goes(c, K, p, r, <<Call(g), IfOk(y, n)>>)
<1> SUFFICES ASSUME NEW c, NEW K, NEW p, NEW g, NEW r, NEW y, NEW n,
                    Zone(c, K, p), Callable(c, g), Lower(c, g, p), g \in Takes \ Opener,
                    Implies(Beyond(c), r), After(c, y), Goes(c, K, p, r, n)
             PROVE  Goes(c, K, p, r, <<Call(g), IfOk(y, n)>>)
  OBVIOUS
<1> PICK q : q = At(c.mood, K, p)
  OBVIOUS
<1> PICK s : s = Returned(q, g)
  OBVIOUS
<1>1. Mood(q) = {c.mood} /\ Stayed(q) = K /\ (Moved(q) <=> p = Past) /\ q.here = Kind
      /\ q.some = K /\ q.none = K /\ q.facts = {c.mood} \cup p
  BY AtFacts DEF At, Zone, Place
<1>2. First_token(g) = Kind /\ g \in Function
  BY DEF Callable, First_token
<1>3. Stays(g, TRUE) = {}
  BY DEF Stays
<1>4. s.here = Kind /\ s.some = {} /\ s.none \subseteq K /\ {c.mood} \cup Pass(q) \subseteq s.facts
  BY <1>1, <1>3 DEF Returned
<1>5. Implies(s, s)
  BY DEF Implies, Moved
<1>6. Fits(c, Call(g), q, s)
  BY <1>1, <1>2, <1>5, FitsCall DEF Callable, Lower, Zone
<1>7. Implies(Succeeded(s), Beyond(c))
  BY <1>4 DEF Succeeded, Implies, Beyond, At, Moved, Stayed, Past
<1>8. Implies(Failed(s), q)
  <2>1. Failed(s).here = Kind /\ Failed(s).some = {} /\ Failed(s).none \subseteq K
        /\ {c.mood} \cup Pass(q) \subseteq Failed(s).facts
    BY <1>4 DEF Failed
  <2>2. "past" \notin {c.mood} /\ p \subseteq Pass(q)
    BY <1>1 DEF Context, Zone, Place, Case, Pass, Past
  <2> QED
    BY <1>1, <2>1, <2>2 DEF Implies, Moved
<1>9. Implies(r, r)
  BY DEF Implies, Moved
<1>10. Chain(c, y, Succeeded(s), r) /\ Chain(c, n, Failed(s), r)
  BY <1>7, <1>8, <1>9, Weaken DEF After, Passes, Goes, Beyond
<1> QED
  BY <1>6, <1>10, FitsIfOk, ChainTwo DEF Goes

\* A call that answers: its failure is blamed.
LEMMA GoesAnswer ==
    \A c, K, p, g, r, y :
        /\ Zone(c, K, p) /\ Callable(c, g) /\ Lower(c, g, p)
        /\ g \in Answers \cap Takes /\ Implies(Beyond(c), r) /\ After(c, y)
        /\ (p = Past \/ K \subseteq Stays(c.f, FALSE))
        => Goes(c, K, p, r, <<Call(g), IfOk(y, <<None>>)>>)
<1> TAKE c, K, p, g, r, y
<1> HAVE /\ Zone(c, K, p) /\ Callable(c, g) /\ Lower(c, g, p)
         /\ g \in Answers \cap Takes /\ Implies(Beyond(c), r) /\ After(c, y)
         /\ (p = Past \/ K \subseteq Stays(c.f, FALSE))
<1> PICK q : q = At(c.mood, K, p)
  OBVIOUS
<1> PICK s : s = Returned(q, g)
  OBVIOUS
<1>1. Mood(q) = {c.mood} /\ Stayed(q) = K /\ (Moved(q) <=> p = Past) /\ q.here = Kind
      /\ q.some = K /\ q.none = K /\ q.facts = {c.mood} \cup p
  BY AtFacts DEF At, Zone, Place
<1>2. First_token(g) = Kind /\ g \in Function
  BY DEF Callable, First_token
<1>3. Stays(g, TRUE) = {}
  BY DEF Stays, Opener, Answers, Takes
<1>4. /\ s.here = Kind /\ s.some = {} /\ s.none \subseteq K
      /\ s.facts = {c.mood} \cup Pass(q) \cup {"answered"}
  BY <1>1, <1>3 DEF Returned
<1>5. Implies(s, s) /\ Implies(r, r)
  BY DEF Implies, Moved
<1>6. Fits(c, Call(g), q, s)
  BY <1>1, <1>2, <1>5, FitsCall DEF Callable, Lower, Zone
<1>7. "past" \notin {c.mood} /\ p \subseteq Pass(q) /\ (p = Past => Pass(q) = Past)
  BY <1>1 DEF Context, Zone, Place, Case, Pass, Past
<1>8. Chain(c, y, Succeeded(s), r)
  <2>1. Implies(Succeeded(s), Beyond(c))
    BY <1>4 DEF Succeeded, Implies, Beyond, At, Moved, Stayed, Past
  <2>2. Chain(c, y, Beyond(c), Beyond(c))
    BY DEF After, Passes, Beyond
  <2> QED
    BY <2>1, <2>2, Weaken
<1>9. Chain(c, <<None>>, Failed(s), r)
  <2> PICK t : t = Failed(s)
    OBVIOUS
  <2>1. t.some = {} /\ t.none = s.none /\ t.facts = s.facts \cup {"blamed"}
    BY <1>4 DEF Failed
  <2>2. Mood(t) = {c.mood}
    BY <1>4, <2>1 DEF Mood, Pass, Context, Zone, Place
  <2>3. Moved(t) \/ Stayed(t) \subseteq Stays(c.f, FALSE)
    BY <1>4, <1>7, <2>1 DEF Moved, Stayed, Past
  <2>4. Fits(c, None, t, r)
    BY <2>1, <2>2, <2>3, FitsReturn DEF Zone, Place
  <2> QED
    BY <2>4, ChainOne
<1> QED
  BY <1>6, <1>8, <1>9, FitsIfOk, ChainTwo DEF Goes

\* A call of a function that begins with a token that is not the end of the file.
LEMMA DoesOpener ==
    \A c, K, p, r, k, g, a, n :
        /\ Zone(c, K, p) /\ Callable(c, g) /\ Lower(c, g, p) /\ g \in Opener /\ "eof" \notin k
        /\ Aft(c, a) /\ Implies(Beyond(c), r) /\ Goes(c, K, p, r, n)
        => Does(c, K, p, r, Look(k, <<Call(g), a>>, n))
<1> SUFFICES ASSUME NEW c, NEW K, NEW p, NEW r, NEW k, NEW g, NEW a, NEW n,
                    Zone(c, K, p), Callable(c, g), Lower(c, g, p), g \in Opener, "eof" \notin k,
                    Aft(c, a), Implies(Beyond(c), r), Goes(c, K, p, r, n)
             PROVE  Does(c, K, p, r, Look(k, <<Call(g), a>>, n))
  OBVIOUS
<1> PICK q : q = At(c.mood, K, p)
  OBVIOUS
<1> PICK t : t = Among(q, k)
  OBVIOUS
<1>1. Mood(q) = {c.mood} /\ Stayed(q) = K /\ (Moved(q) <=> p = Past) /\ q.here = Kind
      /\ q.some = K /\ q.none = K /\ q.facts = {c.mood} \cup p
  BY AtFacts DEF At, Zone, Place
<1>2. t.here \subseteq Kind /\ t.some = K \cap k /\ t.none = K \cap k /\ t.facts = q.facts
  BY <1>1 DEF Among
<1>3. First_token(g) = Kind /\ g \in Function
  BY DEF Callable, First_token
<1>4. Stays(g, TRUE) = {"eof"} /\ Stays(g, FALSE) = {"eof"}
  BY DEF Stays
<1> PICK s : s = Returned(t, g)
  OBVIOUS
<1>5. s.here = Kind /\ s.some = {} /\ s.none = {} /\ {c.mood} \subseteq s.facts
  <2>1. "eof" \notin Stayed(t)
    BY <1>1, <1>2 DEF Stayed
  <2>2. Mood(t) = {c.mood}
    BY <1>1, <1>2 DEF Mood
  <2>3. s.here = Kind /\ s.some = Stayed(t) \cap {"eof"} /\ s.none = Stayed(t) \cap {"eof"}
        /\ Mood(t) \subseteq s.facts
    BY <1>4 DEF Returned
  <2> QED
    BY <2>1, <2>2, <2>3
<1>6. Implies(s, Beyond(c))
  BY <1>5 DEF Implies, Beyond, At, Moved, Stayed, Past
<1>7. Mood(t) = {c.mood} /\ (Moved(q) => Moved(t))
  BY <1>1, <1>2 DEF Mood, Moved, Stayed
<1>8. Fits(c, Call(g), t, Beyond(c))
  BY <1>1, <1>2, <1>3, <1>6, <1>7, FitsCall DEF Callable, Lower, Zone
<1>9. Fits(c, a, Beyond(c), Beyond(c))
  BY DEF Aft, Keeps, Beyond
<1>10. Implies(t, t) /\ Implies(r, r) /\ Implies(Without(q, k), q)
  BY DEF Implies, Moved, Without, Stayed
<1>11. Chain(c, <<Call(g), a>>, t, r)
  BY <1>8, <1>9, <1>10, ChainTwo, Weaken
<1>12. Chain(c, n, Without(q, k), r)
  BY <1>10, Weaken DEF Goes
<1> QED
  BY <1>11, <1>12, FitsLook DEF Does

-----------------------------------------------------------------------------
(* Loops.                                                                    *)
LEMMA KeepTurns ==
    ASSUME NEW c, NEW K, NEW p, Zone(c, K, p), NEW n, NEW b, NEW e, Mood(e) = {c.mood},
           Implies(e, Turned(At(c.mood, K, p), n)), Chain(Inner(c, n, K, p), b, At(c.mood, Kind, p), e)
    PROVE  Keeps(c, K, p, Loop(n, b))
<1> PICK q : q = At(c.mood, K, p)
  OBVIOUS
<1> PICK d : d = Inner(c, n, K, p)
  OBVIOUS
<1>1. Mood(q) = {c.mood} /\ Stayed(q) = K /\ (Moved(q) <=> p = Past)
  BY AtFacts DEF Zone, Place
<1>2. d = InLoop(c, n, q, q)
  BY DEF Inner
<1>3. Implies(Open(Kind, Turning(q, n)), At(c.mood, Kind, p))
  <2>1. {c.mood} \cup p \subseteq Turning(q, n)
    BY <1>1 DEF Turning, Pass, Zone, Case, Past
  <2> PICK t : t = Open(Kind, Turning(q, n))
    OBVIOUS
  <2>2. t.here = Kind /\ t.some = Kind /\ t.none = Kind /\ {c.mood} \cup p \subseteq t.facts
    BY <2>1 DEF Open
  <2>3. "past" \notin {c.mood}
    BY DEF Zone, Place, Context
  <2> QED
    BY <2>2, <2>3 DEF Implies, At, Moved
<1>4. Chain(d, b, Open(Kind, Turning(q, n)), Turned(q, n))
  BY <1>3, Weaken
<1> QED
  BY <1>1, <1>2, <1>4, FitsLoop DEF Keeps

LEMMA KeepLoop ==
    \A c, K, p, n, b : Zone(c, K, p) /\ Spends(Inner(c, n, K, p), Kind, p, b) => Keeps(c, K, p, Loop(n, b))
<1> SUFFICES ASSUME NEW c, NEW K, NEW p, NEW n, NEW b, Zone(c, K, p), Spends(Inner(c, n, K, p), Kind, p, b)
             PROVE  Keeps(c, K, p, Loop(n, b))
  OBVIOUS
<1> PICK e : e = Beyond(c)
  OBVIOUS
<1>1. Chain(Inner(c, n, K, p), b, At(c.mood, Kind, p), e)
  BY InnerFacts DEF Spends, Beyond
<1>2. Mood(e) = {c.mood}
  BY DEF Beyond, At, Mood, Past, Zone, Place, Context
<1>3. Implies(e, Turned(At(c.mood, K, p), n))
  <2> PICK q : q = At(c.mood, K, p)
    OBVIOUS
  <2>1. Mood(q) = {c.mood} /\ q.facts \cap {"ended", "gone"} = {}
    BY AtFacts DEF At, Zone, Place, Context, Case, Past
  <2>2. Turning(q, n) \subseteq {c.mood, "past"}
    BY <2>1 DEF Turning, Pass
  <2>3. e.here = Kind /\ e.some = {} /\ e.none = {} /\ e.facts = {c.mood, "past"}
    BY DEF Beyond, At, Past
  <2>4. Moved(e)
    BY <2>3 DEF Moved
  <2> QED
    BY <2>2, <2>3, <2>4 DEF Implies, Turned, Open, Reset
<1> QED
  BY <1>1, <1>2, <1>3, KeepTurns

LEMMA KeepIvars ==
    \A c, K, p, b : Zone(c, K, p) /\ Passes(Inner(c, "ivars", K, p), Kind, p, b)
        => Keeps(c, K, p, Loop("ivars", b))
<1> SUFFICES ASSUME NEW c, NEW K, NEW p, NEW b, Zone(c, K, p), Passes(Inner(c, "ivars", K, p), Kind, p, b)
             PROVE  Keeps(c, K, p, Loop("ivars", b))
  OBVIOUS
<1> PICK e : e = At(c.mood, Kind, p)
  OBVIOUS
<1>1. Chain(Inner(c, "ivars", K, p), b, At(c.mood, Kind, p), e)
  BY InnerFacts DEF Passes
<1>2. Mood(e) = {c.mood}
  BY DEF At, Mood, Past, Zone, Case, Place, Context
<1>3. Implies(e, Turned(At(c.mood, K, p), "ivars"))
  <2> PICK q : q = At(c.mood, K, p)
    OBVIOUS
  <2>1. Mood(q) = {c.mood} /\ (Moved(q) <=> p = Past)
    BY AtFacts DEF Zone, Place
  <2>2. Turning(q, "ivars") = {c.mood} \cup p
    BY <2>1 DEF Turning, Pass, Zone, Case, Past
  <2> QED
    BY <2>2 DEF Implies, Turned, Open, Moved, At
<1> QED
  BY <1>1, <1>2, <1>3, KeepTurns

-----------------------------------------------------------------------------
(* The rules, for a step that keeps what is known.                           *)
LEMMA ZoneFacts ==
    \A c, K, p : Zone(c, K, p) =>
        /\ Implies(Beyond(c), At(c.mood, K, p)) /\ Implies(At(c.mood, K, p), At(c.mood, K, p))
        /\ Implies(Beyond(c), Beyond(c))
BY AtFacts DEF Zone, Place, Implies, Moved

LEMMA KeepPlain ==
    \A c, K, p : Zone(c, K, p) =>
        /\ \A k : "eof" \notin k => Keeps(c, K, p, Need(k))
        /\ Keeps(c, K, p, Skip) /\ Keeps(c, K, p, Error)
<1> SUFFICES ASSUME NEW c, NEW K, NEW p, Zone(c, K, p)
             PROVE  /\ \A k : "eof" \notin k => Keeps(c, K, p, Need(k))
                    /\ Keeps(c, K, p, Skip) /\ Keeps(c, K, p, Error)
  OBVIOUS
<1> PICK q : q = At(c.mood, K, p)
  OBVIOUS
<1>1. Mood(q) = {c.mood} /\ Implies(Beyond(c), q)
  BY AtFacts DEF Zone, Place
<1>2. \A k : Implies(Consumed(q, k), q)
  BY <1>1, ConsumedAt, ImpliesTrans DEF Zone, Place
<1>3. \A k : Implies(Reported(Without(q, k)), q)
  BY DEF Implies, Reported, With, Without, Moved, Stayed
<1>4. Implies(Among(q, {"eof"}), q) /\ Implies(Reported(q), q)
  BY DEF Implies, Reported, With, Among, Moved, Stayed
<1> QED
  BY <1>2, <1>3, <1>4, FitsNeed, FitsSkip, FitsError DEF Keeps

LEMMA KeepBranch ==
    /\ \A c, K, p, k, y, n : Zone(c, K, p) /\ "eof" \notin k /\ After(c, y) /\ Passes(c, K, p, n)
          => Keeps(c, K, p, Match(k, y, n))
    /\ \A c, K, p, a, n : Zone(c, K, p) /\ Each(c, a) /\ Passes(c, K, p, n) => Keeps(c, K, p, Cases(a, n))
    /\ \A c, K, p, k, y, n : Passes(c, K, p, y) /\ Passes(c, K, p, n)
          => Keeps(c, K, p, Look(k, y, n)) /\ Keeps(c, K, p, Ahead(k, y, n))
    /\ \A c, K, p, y, n : Passes(c, K, p, y) /\ Passes(c, K, p, n)
          => Keeps(c, K, p, Choose(y, n)) /\ Keeps(c, K, p, IfOk(y, n))
<1>1. \A c, K, p, k, y, n : Zone(c, K, p) /\ "eof" \notin k /\ After(c, y) /\ Passes(c, K, p, n)
          => Keeps(c, K, p, Match(k, y, n))
  BY DoesMatch, ZoneFacts DEF Does, Goes, Keeps, Passes
<1>2. \A c, K, p, a, n : Zone(c, K, p) /\ Each(c, a) /\ Passes(c, K, p, n) => Keeps(c, K, p, Cases(a, n))
  BY DoesCases, ZoneFacts DEF Does, Goes, Keeps, Passes
<1>3. \A c, K, p, k, y, n : Passes(c, K, p, y) /\ Passes(c, K, p, n)
          => Keeps(c, K, p, Look(k, y, n)) /\ Keeps(c, K, p, Ahead(k, y, n))
  BY DoesLook, DoesFork DEF Does, Goes, Keeps, Passes
<1>4. \A c, K, p, y, n : Passes(c, K, p, y) /\ Passes(c, K, p, n)
          => Keeps(c, K, p, Choose(y, n)) /\ Keeps(c, K, p, IfOk(y, n))
  BY DoesFork, DoesIfOk DEF Does, Goes, Keeps, Passes
<1> QED
  BY <1>1, <1>2, <1>3, <1>4

LEMMA KeepJump ==
    \A c, K, p : Zone(c, K, p) =>
        /\ p = Past \/ K \subseteq Stays(c.f, TRUE) => Keeps(c, K, p, Some) /\ Spend(c, K, p, Some)
        /\ c.f \notin Answers /\ (p = Past \/ K \subseteq Stays(c.f, FALSE))
             => Keeps(c, K, p, None) /\ Spend(c, K, p, None)
        /\ Turn(c, p) => Keeps(c, K, p, Break) /\ Spend(c, K, p, Break)
<1>1. \A c, K, p : Zone(c, K, p) /\ (p = Past \/ K \subseteq Stays(c.f, TRUE))
        => Keeps(c, K, p, Some) /\ Spend(c, K, p, Some)
  BY DoesReturn DEF Does, Keeps, Spend
<1>2. \A c, K, p : Zone(c, K, p) /\ c.f \notin Answers /\ (p = Past \/ K \subseteq Stays(c.f, FALSE))
        => Keeps(c, K, p, None) /\ Spend(c, K, p, None)
  BY DoesReturn DEF Does, Keeps, Spend
<1>3. \A c, K, p : Zone(c, K, p) /\ Turn(c, p) => Keeps(c, K, p, Break) /\ Spend(c, K, p, Break)
  BY DoesBreak DEF Does, Keeps, Spend
<1> QED
  BY <1>1, <1>2, <1>3

LEMMA PassNone ==
    /\ \A c, K, p : Zone(c, K, p) => Passes(c, K, p, <<>>)
    /\ \A c, K, p : Zone(c, K, p) /\ (p = Past \/ K \subseteq Stays(c.f, FALSE))
          => Passes(c, K, p, <<Error, None>>) /\ Spends(c, K, p, <<Error, None>>)
BY ZoneFacts, Nothing, GoesBlamed DEF Passes, Spends, Goes

LEMMA PassTake ==
    /\ \A c, K, p, g, y, n :
          /\ Zone(c, K, p) /\ Callable(c, g) /\ Lower(c, g, p)
          /\ g \in Takes \ Opener /\ After(c, y) /\ Passes(c, K, p, n)
          => Passes(c, K, p, <<Call(g), IfOk(y, n)>>)
    /\ \A c, K, p, g, y, n :
          /\ Zone(c, K, p) /\ Callable(c, g) /\ Lower(c, g, p)
          /\ g \in Takes \ Opener /\ After(c, y) /\ Spends(c, K, p, n)
          => Spends(c, K, p, <<Call(g), IfOk(y, n)>>)
BY ZoneFacts, GoesTake DEF Passes, Spends, Goes

LEMMA SpendSkip ==
    \A c, K, p : Zone(c, K, p) /\ "eof" \notin K => Spend(c, K, p, Skip)
<1> SUFFICES ASSUME NEW c, NEW K, NEW p, Zone(c, K, p), "eof" \notin K
             PROVE  Spend(c, K, p, Skip)
  OBVIOUS
<1> PICK q : q = At(c.mood, K, p)
  OBVIOUS
<1>1. Mood(q) = {c.mood} /\ q.some = K /\ q.none = K /\ c.mood \in q.facts /\ q.here = Kind
  BY AtFacts DEF Zone, Place, At
<1>2. Implies(Consumed(q, Kind), Beyond(c))
  BY <1>1, ConsumedAt DEF Zone, Place
<1>3. Implies(Among(q, {"eof"}), Beyond(c))
  BY <1>1 DEF Among, Implies, Beyond, At, Moved, Stayed, Past
<1> QED
  BY <1>2, <1>3, FitsSkip DEF Spend

LEMMA SpendBranch ==
    /\ \A c, K, p, k, y, n : Zone(c, K, p) /\ "eof" \notin k /\ After(c, y) /\ Spends(c, K, p, n)
          => Spend(c, K, p, Match(k, y, n))
    /\ \A c, K, p, a, n : Zone(c, K, p) /\ Each(c, a) /\ Spends(c, K, p, n) => Spend(c, K, p, Cases(a, n))
    /\ \A c, K, p, k, y, n : Spends(c, K, p, y) /\ Spends(c, K, p, n)
          => Spend(c, K, p, Look(k, y, n)) /\ Spend(c, K, p, Ahead(k, y, n))
    /\ \A c, K, p, y, n : Spends(c, K, p, y) /\ Spends(c, K, p, n)
          => Spend(c, K, p, Choose(y, n)) /\ Spend(c, K, p, IfOk(y, n))
<1>1. \A c, K, p, k, y, n : Zone(c, K, p) /\ "eof" \notin k /\ After(c, y) /\ Spends(c, K, p, n)
          => Spend(c, K, p, Match(k, y, n))
  BY DoesMatch, ZoneFacts DEF Does, Goes, Spend, Spends
<1>2. \A c, K, p, a, n : Zone(c, K, p) /\ Each(c, a) /\ Spends(c, K, p, n) => Spend(c, K, p, Cases(a, n))
  BY DoesCases, ZoneFacts DEF Does, Goes, Spend, Spends
<1>3. \A c, K, p, k, y, n : Spends(c, K, p, y) /\ Spends(c, K, p, n)
          => Spend(c, K, p, Look(k, y, n)) /\ Spend(c, K, p, Ahead(k, y, n))
  BY DoesLook, DoesFork DEF Does, Goes, Spend, Spends
<1>4. \A c, K, p, y, n : Spends(c, K, p, y) /\ Spends(c, K, p, n)
          => Spend(c, K, p, Choose(y, n)) /\ Spend(c, K, p, IfOk(y, n))
  BY DoesFork, DoesIfOk DEF Does, Goes, Spend, Spends
<1> QED
  BY <1>1, <1>2, <1>3, <1>4

LEMMA AllKeepPasses ==
    \A c, K, p, s : Zone(c, K, p) /\ AllKeep(c, K, p, s) => Passes(c, K, p, s)
BY AllKeepChain DEF Zone, Place, Passes

LEMMA PassJoin ==
    /\ \A c, K, p, s, t : Passes(c, K, p, s) /\ Passes(c, K, p, t) => Passes(c, K, p, s \o t)
    /\ \A c, K, p, s, t : Passes(c, K, p, s) /\ Spends(c, K, p, t) => Spends(c, K, p, s \o t)
    /\ \A c, K, p, s, t : Spends(c, K, p, s) /\ After(c, t) => Spends(c, K, p, s \o t)
    /\ \A c, K, p, s : Zone(c, K, p) /\ Spends(c, K, p, s) => Passes(c, K, p, s)
<1>1. \A c, K, p, s, t : Passes(c, K, p, s) /\ Passes(c, K, p, t) => Passes(c, K, p, s \o t)
  BY ChainJoin DEF Passes
<1>2. \A c, K, p, s, t : Passes(c, K, p, s) /\ Spends(c, K, p, t) => Spends(c, K, p, s \o t)
  BY ChainJoin DEF Passes, Spends
<1>3. \A c, K, p, s, t : Spends(c, K, p, s) /\ After(c, t) => Spends(c, K, p, s \o t)
  BY ChainJoin DEF Passes, Spends, After, Beyond
<1>4. \A c, K, p, s : Zone(c, K, p) /\ Spends(c, K, p, s) => Passes(c, K, p, s)
  BY ZoneFacts, Weaken DEF Passes, Spends
<1> QED
  BY <1>1, <1>2, <1>3, <1>4

-----------------------------------------------------------------------------
(* Tuples.                                                                   *)
LEMMA Joined ==
    ASSUME NEW S, NEW s \in Seq(S), NEW t \in Seq(S), NEW u \in Seq(S), Len(u) = Len(s) + Len(t),
           \A i \in 1 .. Len(s) : u[i] = s[i], \A i \in 1 .. Len(t) : u[Len(s) + i] = t[i]
    PROVE  u = s \o t
<1>1. s \o t \in Seq(S) /\ Len(s \o t) = Len(s) + Len(t)
  BY ConcatProperties
<1>2. ASSUME NEW i \in 1 .. Len(s) + Len(t) PROVE (s \o t)[i] = u[i]
  <2>1. PICK m, n \in Nat : m = Len(s) /\ n = Len(t)
    BY LenProperties
  <2>2. CASE i <= m
    BY <2>1, <2>2, ConcatProperties
  <2>3. CASE i > m
    <3>1. PICK j \in 1 .. n : i = m + j
      <4>1. i - m \in 1 .. n /\ i = m + (i - m)
        BY <2>1, <2>3
      <4> QED
        BY <4>1
    <3>2. (s \o t)[i] = t[i - Len(s)] /\ i - Len(s) = j
      BY <2>1, <3>1, <2>3, ConcatProperties
    <3> QED
      BY <2>1, <3>1, <3>2
  <2> QED
    BY <2>1, <2>2, <2>3
<1> QED
  BY <1>1, <1>2, SeqEqual

\* The last two of a tuple.
LEMMA Singles == \A a : IsSeq(<<a>>) /\ Len(<<a>>) = 1
BY Single

LEMMA Pass1 == \A c, K, p, a : Keeps(c, K, p, a) => Passes(c, K, p, <<a>>)
BY ChainOne DEF Keeps, Passes

LEMMA Spend1 == \A c, K, p, a : Spend(c, K, p, a) => Spends(c, K, p, <<a>>)
BY ChainOne DEF Spend, Spends

LEMMA Spend2 ==
    /\ \A c, K, p, a, b : Keeps(c, K, p, a) /\ Spend(c, K, p, b) => Spends(c, K, p, <<a, b>>)
    /\ \A c, K, p, a, b : Spend(c, K, p, a) /\ Aft(c, b) => Spends(c, K, p, <<a, b>>)
BY ChainTwo DEF Keeps, Spend, Spends, Aft, Beyond

LEMMA Pass2 ==
    \A c, K, p, a, b :
        /\ Zone(c, K, p)
        /\ Keeps(c, K, p, a) /\ Keeps(c, K, p, b)
        => Passes(c, K, p, <<a, b>>)
<1> SUFFICES ASSUME NEW c, NEW K, NEW p, NEW a, NEW b, Zone(c, K, p),
                    Keeps(c, K, p, a), Keeps(c, K, p, b)
             PROVE  Passes(c, K, p, <<a, b>>)
  OBVIOUS
<1> PICK s : s = <<a, b>>
  OBVIOUS
<1>1. s \in Seq({a, b}) /\ Len(s) = 2 /\ \A i \in 1 .. 2 : Keeps(c, K, p, s[i])
  OBVIOUS
<1> QED
  BY <1>1, AllKeepPasses DEF AllKeep, IsSeq

LEMMA Pass3 ==
    \A c, K, p, a, b, d :
        /\ Zone(c, K, p)
        /\ Keeps(c, K, p, a) /\ Keeps(c, K, p, b) /\ Keeps(c, K, p, d)
        => Passes(c, K, p, <<a, b, d>>)
<1> SUFFICES ASSUME NEW c, NEW K, NEW p, NEW a, NEW b, NEW d, Zone(c, K, p),
                    Keeps(c, K, p, a), Keeps(c, K, p, b), Keeps(c, K, p, d)
             PROVE  Passes(c, K, p, <<a, b, d>>)
  OBVIOUS
<1> PICK s : s = <<a, b, d>>
  OBVIOUS
<1>1. s \in Seq({a, b, d}) /\ Len(s) = 3 /\ \A i \in 1 .. 3 : Keeps(c, K, p, s[i])
  OBVIOUS
<1> QED
  BY <1>1, AllKeepPasses DEF AllKeep, IsSeq

LEMMA Pass4 ==
    \A c, K, p, a, b, d, e :
        /\ Zone(c, K, p)
        /\ Keeps(c, K, p, a) /\ Keeps(c, K, p, b) /\ Keeps(c, K, p, d) /\ Keeps(c, K, p, e)
        => Passes(c, K, p, <<a, b, d, e>>)
<1> SUFFICES ASSUME NEW c, NEW K, NEW p, NEW a, NEW b, NEW d, NEW e, Zone(c, K, p),
                    Keeps(c, K, p, a), Keeps(c, K, p, b), Keeps(c, K, p, d), Keeps(c, K, p, e)
             PROVE  Passes(c, K, p, <<a, b, d, e>>)
  OBVIOUS
<1> PICK s : s = <<a, b, d, e>>
  OBVIOUS
<1>1. s \in Seq({a, b, d, e}) /\ Len(s) = 4 /\ \A i \in 1 .. 4 : Keeps(c, K, p, s[i])
  OBVIOUS
<1> QED
  BY <1>1, AllKeepPasses DEF AllKeep, IsSeq

LEMMA Pass5 ==
    \A c, K, p, a, b, d, e, f :
        /\ Zone(c, K, p)
        /\ Keeps(c, K, p, a) /\ Keeps(c, K, p, b) /\ Keeps(c, K, p, d) /\ Keeps(c, K, p, e)
        /\ Keeps(c, K, p, f)
        => Passes(c, K, p, <<a, b, d, e, f>>)
<1> SUFFICES ASSUME NEW c, NEW K, NEW p, NEW a, NEW b, NEW d, NEW e, NEW f, Zone(c, K, p),
                    Keeps(c, K, p, a), Keeps(c, K, p, b), Keeps(c, K, p, d), Keeps(c, K, p, e),
                    Keeps(c, K, p, f)
             PROVE  Passes(c, K, p, <<a, b, d, e, f>>)
  OBVIOUS
<1> PICK s : s = <<a, b, d, e, f>>
  OBVIOUS
<1>1. s \in Seq({a, b, d, e, f}) /\ Len(s) = 5 /\ \A i \in 1 .. 5 : Keeps(c, K, p, s[i])
  OBVIOUS
<1> QED
  BY <1>1, AllKeepPasses DEF AllKeep, IsSeq

LEMMA Pass6 ==
    \A c, K, p, a, b, d, e, f, g :
        /\ Zone(c, K, p)
        /\ Keeps(c, K, p, a) /\ Keeps(c, K, p, b) /\ Keeps(c, K, p, d) /\ Keeps(c, K, p, e)
        /\ Keeps(c, K, p, f) /\ Keeps(c, K, p, g)
        => Passes(c, K, p, <<a, b, d, e, f, g>>)
<1> SUFFICES ASSUME NEW c, NEW K, NEW p, NEW a, NEW b, NEW d, NEW e, NEW f, NEW g, Zone(c, K, p),
                    Keeps(c, K, p, a), Keeps(c, K, p, b), Keeps(c, K, p, d), Keeps(c, K, p, e),
                    Keeps(c, K, p, f), Keeps(c, K, p, g)
             PROVE  Passes(c, K, p, <<a, b, d, e, f, g>>)
  OBVIOUS
<1> PICK s : s = <<a, b, d, e, f, g>>
  OBVIOUS
<1>1. s \in Seq({a, b, d, e, f, g}) /\ Len(s) = 6 /\ \A i \in 1 .. 6 : Keeps(c, K, p, s[i])
  OBVIOUS
<1> QED
  BY <1>1, AllKeepPasses DEF AllKeep, IsSeq

LEMMA Pass7 ==
    \A c, K, p, a, b, d, e, f, g, h :
        /\ Zone(c, K, p)
        /\ Keeps(c, K, p, a) /\ Keeps(c, K, p, b) /\ Keeps(c, K, p, d) /\ Keeps(c, K, p, e)
        /\ Keeps(c, K, p, f) /\ Keeps(c, K, p, g) /\ Keeps(c, K, p, h)
        => Passes(c, K, p, <<a, b, d, e, f, g, h>>)
<1> SUFFICES ASSUME NEW c, NEW K, NEW p, NEW a, NEW b, NEW d, NEW e, NEW f, NEW g, NEW h, Zone(c, K, p),
                    Keeps(c, K, p, a), Keeps(c, K, p, b), Keeps(c, K, p, d), Keeps(c, K, p, e),
                    Keeps(c, K, p, f), Keeps(c, K, p, g), Keeps(c, K, p, h)
             PROVE  Passes(c, K, p, <<a, b, d, e, f, g, h>>)
  OBVIOUS
<1> PICK s : s = <<a, b, d, e, f, g, h>>
  OBVIOUS
<1>1. s \in Seq({a, b, d, e, f, g, h}) /\ Len(s) = 7 /\ \A i \in 1 .. 7 : Keeps(c, K, p, s[i])
  OBVIOUS
<1> QED
  BY <1>1, AllKeepPasses DEF AllKeep, IsSeq

LEMMA Pass8 ==
    \A c, K, p, a, b, d, e, f, g, h, j :
        /\ Zone(c, K, p)
        /\ Keeps(c, K, p, a) /\ Keeps(c, K, p, b) /\ Keeps(c, K, p, d) /\ Keeps(c, K, p, e)
        /\ Keeps(c, K, p, f) /\ Keeps(c, K, p, g) /\ Keeps(c, K, p, h) /\ Keeps(c, K, p, j)
        => Passes(c, K, p, <<a, b, d, e, f, g, h, j>>)
<1> SUFFICES ASSUME NEW c, NEW K, NEW p, NEW a, NEW b, NEW d, NEW e, NEW f, NEW g, NEW h, NEW j, Zone(c, K, p),
                    Keeps(c, K, p, a), Keeps(c, K, p, b), Keeps(c, K, p, d), Keeps(c, K, p, e),
                    Keeps(c, K, p, f), Keeps(c, K, p, g), Keeps(c, K, p, h), Keeps(c, K, p, j)
             PROVE  Passes(c, K, p, <<a, b, d, e, f, g, h, j>>)
  OBVIOUS
<1> PICK s : s = <<a, b, d, e, f, g, h, j>>
  OBVIOUS
<1>1. s \in Seq({a, b, d, e, f, g, h, j}) /\ Len(s) = 8 /\ \A i \in 1 .. 8 : Keeps(c, K, p, s[i])
  OBVIOUS
<1> QED
  BY <1>1, AllKeepPasses DEF AllKeep, IsSeq

LEMMA Split2 == \A a, b : <<a, b>> = <<a>> \o <<b>>
<1> SUFFICES ASSUME NEW a, NEW b PROVE <<a, b>> = <<a>> \o <<b>>
  OBVIOUS
<1> PICK X : X = {a, b}
  OBVIOUS
<1>1. <<a>> \in Seq(X) /\ <<b>> \in Seq(X) /\ <<a, b>> \in Seq(X)
  OBVIOUS
<1> PICK x, y, z \in Seq(X) : x = <<a>> /\ y = <<b>> /\ z = <<a, b>>
  BY <1>1
<1>2. Len(x) = 1 /\ Len(y) = 1 /\ Len(z) = 2
  OBVIOUS
<1>3. z[1] = x[1] /\ z[2] = y[1]
  OBVIOUS
<1>5. \A i \in 1 .. Len(x) : z[i] = x[i]
  BY <1>2, <1>3, SMT
<1>6. \A i \in 1 .. Len(y) : z[Len(x) + i] = y[i]
  BY <1>2, <1>3, SMT
<1>4. z = x \o y
  BY <1>2, <1>5, <1>6, Joined, SMT
<1> QED
  BY <1>4

LEMMA Split3 == \A a, b, d : <<a, b, d>> = <<a>> \o <<b, d>>
<1> SUFFICES ASSUME NEW a, NEW b, NEW d PROVE <<a, b, d>> = <<a>> \o <<b, d>>
  OBVIOUS
<1> PICK X : X = {a, b, d}
  OBVIOUS
<1>1. <<a>> \in Seq(X) /\ <<b, d>> \in Seq(X) /\ <<a, b, d>> \in Seq(X)
  OBVIOUS
<1> PICK x, y, z \in Seq(X) : x = <<a>> /\ y = <<b, d>> /\ z = <<a, b, d>>
  BY <1>1
<1>2. Len(x) = 1 /\ Len(y) = 2 /\ Len(z) = 3
  OBVIOUS
<1>3. (\A i \in 1 .. 1 : z[i] = x[i]) /\ \A i \in 1 .. 2 : z[1 + i] = y[i]
  OBVIOUS
<1>4. z = x \o y
  BY <1>2, <1>3, Joined
<1> QED
  BY <1>4

LEMMA Spend3 ==
    \A c, K, p, a, b, d :
        Passes(c, K, p, <<a>>) /\ Spends(c, K, p, <<b, d>>) => Spends(c, K, p, <<a, b, d>>)
<1> SUFFICES ASSUME NEW c, NEW K, NEW p, NEW a, NEW b, NEW d,
                    Passes(c, K, p, <<a>>), Spends(c, K, p, <<b, d>>)
             PROVE  Spends(c, K, p, <<a, b, d>>)
  OBVIOUS
<1>1. <<a, b, d>> = <<a>> \o <<b, d>>
  BY Split3
<1>2. Spends(c, K, p, <<a>> \o <<b, d>>)
  BY PassJoin
<1> QED
  BY <1>1, <1>2

LEMMA Split4 == \A a, b, d, e : <<a, b, d, e>> = <<a, b>> \o <<d, e>>
<1> SUFFICES ASSUME NEW a, NEW b, NEW d, NEW e PROVE <<a, b, d, e>> = <<a, b>> \o <<d, e>>
  OBVIOUS
<1> PICK X : X = {a, b, d, e}
  OBVIOUS
<1>1. <<a, b>> \in Seq(X) /\ <<d, e>> \in Seq(X) /\ <<a, b, d, e>> \in Seq(X)
  OBVIOUS
<1> PICK x, y, z \in Seq(X) : x = <<a, b>> /\ y = <<d, e>> /\ z = <<a, b, d, e>>
  BY <1>1
<1>2. Len(x) = 2 /\ Len(y) = 2 /\ Len(z) = 4
  OBVIOUS
<1>3. (\A i \in 1 .. 2 : z[i] = x[i]) /\ \A i \in 1 .. 2 : z[2 + i] = y[i]
  OBVIOUS
<1>4. z = x \o y
  BY <1>2, <1>3, Joined
<1> QED
  BY <1>4

LEMMA Spend4 ==
    \A c, K, p, a, b, d, e :
        Passes(c, K, p, <<a, b>>) /\ Spends(c, K, p, <<d, e>>) => Spends(c, K, p, <<a, b, d, e>>)
<1> SUFFICES ASSUME NEW c, NEW K, NEW p, NEW a, NEW b, NEW d, NEW e,
                    Passes(c, K, p, <<a, b>>), Spends(c, K, p, <<d, e>>)
             PROVE  Spends(c, K, p, <<a, b, d, e>>)
  OBVIOUS
<1>1. <<a, b, d, e>> = <<a, b>> \o <<d, e>>
  BY Split4
<1>2. Spends(c, K, p, <<a, b>> \o <<d, e>>)
  BY PassJoin
<1> QED
  BY <1>1, <1>2

LEMMA Split5 == \A a, b, d, e, f : <<a, b, d, e, f>> = <<a, b, d>> \o <<e, f>>
<1> SUFFICES ASSUME NEW a, NEW b, NEW d, NEW e, NEW f PROVE <<a, b, d, e, f>> = <<a, b, d>> \o <<e, f>>
  OBVIOUS
<1> PICK X : X = {a, b, d, e, f}
  OBVIOUS
<1>1. <<a, b, d>> \in Seq(X) /\ <<e, f>> \in Seq(X) /\ <<a, b, d, e, f>> \in Seq(X)
  OBVIOUS
<1> PICK x, y, z \in Seq(X) : x = <<a, b, d>> /\ y = <<e, f>> /\ z = <<a, b, d, e, f>>
  BY <1>1
<1>2. Len(x) = 3 /\ Len(y) = 2 /\ Len(z) = 5
  OBVIOUS
<1>3. (\A i \in 1 .. 3 : z[i] = x[i]) /\ \A i \in 1 .. 2 : z[3 + i] = y[i]
  OBVIOUS
<1>4. z = x \o y
  BY <1>2, <1>3, Joined
<1> QED
  BY <1>4

LEMMA Spend5 ==
    \A c, K, p, a, b, d, e, f :
        Passes(c, K, p, <<a, b, d>>) /\ Spends(c, K, p, <<e, f>>) => Spends(c, K, p, <<a, b, d, e, f>>)
<1> SUFFICES ASSUME NEW c, NEW K, NEW p, NEW a, NEW b, NEW d, NEW e, NEW f,
                    Passes(c, K, p, <<a, b, d>>), Spends(c, K, p, <<e, f>>)
             PROVE  Spends(c, K, p, <<a, b, d, e, f>>)
  OBVIOUS
<1>1. <<a, b, d, e, f>> = <<a, b, d>> \o <<e, f>>
  BY Split5
<1>2. Spends(c, K, p, <<a, b, d>> \o <<e, f>>)
  BY PassJoin
<1> QED
  BY <1>1, <1>2

LEMMA Split6 == \A a, b, d, e, f, g : <<a, b, d, e, f, g>> = <<a, b, d, e>> \o <<f, g>>
<1> SUFFICES ASSUME NEW a, NEW b, NEW d, NEW e, NEW f, NEW g PROVE <<a, b, d, e, f, g>> = <<a, b, d, e>> \o <<f, g>>
  OBVIOUS
<1> PICK X : X = {a, b, d, e, f, g}
  OBVIOUS
<1>1. <<a, b, d, e>> \in Seq(X) /\ <<f, g>> \in Seq(X) /\ <<a, b, d, e, f, g>> \in Seq(X)
  OBVIOUS
<1> PICK x, y, z \in Seq(X) : x = <<a, b, d, e>> /\ y = <<f, g>> /\ z = <<a, b, d, e, f, g>>
  BY <1>1
<1>2. Len(x) = 4 /\ Len(y) = 2 /\ Len(z) = 6
  OBVIOUS
<1>3. (\A i \in 1 .. 4 : z[i] = x[i]) /\ \A i \in 1 .. 2 : z[4 + i] = y[i]
  OBVIOUS
<1>4. z = x \o y
  BY <1>2, <1>3, Joined
<1> QED
  BY <1>4

LEMMA Spend6 ==
    \A c, K, p, a, b, d, e, f, g :
        Passes(c, K, p, <<a, b, d, e>>) /\ Spends(c, K, p, <<f, g>>) => Spends(c, K, p, <<a, b, d, e, f, g>>)
<1> SUFFICES ASSUME NEW c, NEW K, NEW p, NEW a, NEW b, NEW d, NEW e, NEW f, NEW g,
                    Passes(c, K, p, <<a, b, d, e>>), Spends(c, K, p, <<f, g>>)
             PROVE  Spends(c, K, p, <<a, b, d, e, f, g>>)
  OBVIOUS
<1>1. <<a, b, d, e, f, g>> = <<a, b, d, e>> \o <<f, g>>
  BY Split6
<1>2. Spends(c, K, p, <<a, b, d, e>> \o <<f, g>>)
  BY PassJoin
<1> QED
  BY <1>1, <1>2

LEMMA Split7 == \A a, b, d, e, f, g, h : <<a, b, d, e, f, g, h>> = <<a, b, d, e, f>> \o <<g, h>>
<1> SUFFICES ASSUME NEW a, NEW b, NEW d, NEW e, NEW f, NEW g, NEW h PROVE <<a, b, d, e, f, g, h>> = <<a, b, d, e, f>> \o <<g, h>>
  OBVIOUS
<1> PICK X : X = {a, b, d, e, f, g, h}
  OBVIOUS
<1>1. <<a, b, d, e, f>> \in Seq(X) /\ <<g, h>> \in Seq(X) /\ <<a, b, d, e, f, g, h>> \in Seq(X)
  OBVIOUS
<1> PICK x, y, z \in Seq(X) : x = <<a, b, d, e, f>> /\ y = <<g, h>> /\ z = <<a, b, d, e, f, g, h>>
  BY <1>1
<1>2. Len(x) = 5 /\ Len(y) = 2 /\ Len(z) = 7
  OBVIOUS
<1>3. (\A i \in 1 .. 5 : z[i] = x[i]) /\ \A i \in 1 .. 2 : z[5 + i] = y[i]
  OBVIOUS
<1>4. z = x \o y
  BY <1>2, <1>3, Joined
<1> QED
  BY <1>4

LEMMA Spend7 ==
    \A c, K, p, a, b, d, e, f, g, h :
        Passes(c, K, p, <<a, b, d, e, f>>) /\ Spends(c, K, p, <<g, h>>) => Spends(c, K, p, <<a, b, d, e, f, g, h>>)
<1> SUFFICES ASSUME NEW c, NEW K, NEW p, NEW a, NEW b, NEW d, NEW e, NEW f, NEW g, NEW h,
                    Passes(c, K, p, <<a, b, d, e, f>>), Spends(c, K, p, <<g, h>>)
             PROVE  Spends(c, K, p, <<a, b, d, e, f, g, h>>)
  OBVIOUS
<1>1. <<a, b, d, e, f, g, h>> = <<a, b, d, e, f>> \o <<g, h>>
  BY Split7
<1>2. Spends(c, K, p, <<a, b, d, e, f>> \o <<g, h>>)
  BY PassJoin
<1> QED
  BY <1>1, <1>2

LEMMA Split4at1 == \A a, b, d, e : <<a, b, d, e>> = <<a>> \o <<b, d, e>>
<1> SUFFICES ASSUME NEW a, NEW b, NEW d, NEW e PROVE <<a, b, d, e>> = <<a>> \o <<b, d, e>>
  OBVIOUS
<1> PICK X : X = {a, b, d, e}
  OBVIOUS
<1>1. <<a>> \in Seq(X) /\ <<b, d, e>> \in Seq(X) /\ <<a, b, d, e>> \in Seq(X)
  OBVIOUS
<1> PICK x, y, z \in Seq(X) : x = <<a>> /\ y = <<b, d, e>> /\ z = <<a, b, d, e>>
  BY <1>1
<1>2. Len(x) = 1 /\ Len(y) = 3 /\ Len(z) = 4
  OBVIOUS
<1>3. (\A i \in 1 .. 1 : z[i] = x[i]) /\ \A i \in 1 .. 3 : z[1 + i] = y[i]
  OBVIOUS
<1>4. z = x \o y
  BY <1>2, <1>3, Joined
<1> QED
  BY <1>4

LEMMA Split5at1 == \A a, b, d, e, f : <<a, b, d, e, f>> = <<a>> \o <<b, d, e, f>>
<1> SUFFICES ASSUME NEW a, NEW b, NEW d, NEW e, NEW f PROVE <<a, b, d, e, f>> = <<a>> \o <<b, d, e, f>>
  OBVIOUS
<1> PICK X : X = {a, b, d, e, f}
  OBVIOUS
<1>1. <<a>> \in Seq(X) /\ <<b, d, e, f>> \in Seq(X) /\ <<a, b, d, e, f>> \in Seq(X)
  OBVIOUS
<1> PICK x, y, z \in Seq(X) : x = <<a>> /\ y = <<b, d, e, f>> /\ z = <<a, b, d, e, f>>
  BY <1>1
<1>2. Len(x) = 1 /\ Len(y) = 4 /\ Len(z) = 5
  OBVIOUS
<1>3. (\A i \in 1 .. 1 : z[i] = x[i]) /\ \A i \in 1 .. 4 : z[1 + i] = y[i]
  OBVIOUS
<1>4. z = x \o y
  BY <1>2, <1>3, Joined
<1> QED
  BY <1>4

LEMMA Split5at3 == \A a, b, d, e, f : <<a, b, d, e, f>> = <<a, b, d>> \o <<e, f>>
<1> SUFFICES ASSUME NEW a, NEW b, NEW d, NEW e, NEW f PROVE <<a, b, d, e, f>> = <<a, b, d>> \o <<e, f>>
  OBVIOUS
<1> PICK X : X = {a, b, d, e, f}
  OBVIOUS
<1>1. <<a, b, d>> \in Seq(X) /\ <<e, f>> \in Seq(X) /\ <<a, b, d, e, f>> \in Seq(X)
  OBVIOUS
<1> PICK x, y, z \in Seq(X) : x = <<a, b, d>> /\ y = <<e, f>> /\ z = <<a, b, d, e, f>>
  BY <1>1
<1>2. Len(x) = 3 /\ Len(y) = 2 /\ Len(z) = 5
  OBVIOUS
<1>3. (\A i \in 1 .. 3 : z[i] = x[i]) /\ \A i \in 1 .. 2 : z[3 + i] = y[i]
  OBVIOUS
<1>4. z = x \o y
  BY <1>2, <1>3, Joined
<1> QED
  BY <1>4

LEMMA Split7at1 == \A a, b, d, e, f, g, h : <<a, b, d, e, f, g, h>> = <<a>> \o <<b, d, e, f, g, h>>
<1> SUFFICES ASSUME NEW a, NEW b, NEW d, NEW e, NEW f, NEW g, NEW h PROVE <<a, b, d, e, f, g, h>> = <<a>> \o <<b, d, e, f, g, h>>
  OBVIOUS
<1> PICK X : X = {a, b, d, e, f, g, h}
  OBVIOUS
<1>1. <<a>> \in Seq(X) /\ <<b, d, e, f, g, h>> \in Seq(X) /\ <<a, b, d, e, f, g, h>> \in Seq(X)
  OBVIOUS
<1> PICK x, y, z \in Seq(X) : x = <<a>> /\ y = <<b, d, e, f, g, h>> /\ z = <<a, b, d, e, f, g, h>>
  BY <1>1
<1>2. Len(x) = 1 /\ Len(y) = 6 /\ Len(z) = 7
  OBVIOUS
<1>3. (\A i \in 1 .. 1 : z[i] = x[i]) /\ \A i \in 1 .. 6 : z[1 + i] = y[i]
  OBVIOUS
<1>4. z = x \o y
  BY <1>2, <1>3, Joined
<1> QED
  BY <1>4

LEMMA Join3at1 ==
    \A c, K, p, a, b, d :
        /\ Passes(c, K, p, <<a>>) /\ Passes(c, K, p, <<b, d>>) => Passes(c, K, p, <<a, b, d>>)
        /\ Passes(c, K, p, <<a>>) /\ Spends(c, K, p, <<b, d>>) => Spends(c, K, p, <<a, b, d>>)
        /\ Spends(c, K, p, <<a>>) /\ After(c, <<b, d>>) => Spends(c, K, p, <<a, b, d>>)
<1> SUFFICES ASSUME NEW c, NEW K, NEW p, NEW a, NEW b, NEW d
             PROVE  /\ Passes(c, K, p, <<a>>) /\ Passes(c, K, p, <<b, d>>) => Passes(c, K, p, <<a, b, d>>)
                    /\ Passes(c, K, p, <<a>>) /\ Spends(c, K, p, <<b, d>>) => Spends(c, K, p, <<a, b, d>>)
                    /\ Spends(c, K, p, <<a>>) /\ After(c, <<b, d>>) => Spends(c, K, p, <<a, b, d>>)
  OBVIOUS
<1>1. <<a, b, d>> = <<a>> \o <<b, d>>
  <2> PICK X : X = {a, b, d}
    OBVIOUS
  <2>1. <<a>> \in Seq(X) /\ <<b, d>> \in Seq(X) /\ <<a, b, d>> \in Seq(X)
    OBVIOUS
  <2> PICK x, y, z \in Seq(X) : x = <<a>> /\ y = <<b, d>> /\ z = <<a, b, d>>
    BY <2>1
  <2>2. Len(x) = 1 /\ Len(y) = 2 /\ Len(z) = 3
    OBVIOUS
  <2>3. (\A i \in 1 .. 1 : z[i] = x[i]) /\ \A i \in 1 .. 2 : z[1 + i] = y[i]
    OBVIOUS
  <2>4. z = x \o y
    BY <2>2, <2>3, Joined
  <2> QED
    BY <2>4
<1> QED
  BY <1>1, PassJoin

LEMMA Join4at1 ==
    \A c, K, p, a, b, d, e :
        /\ Passes(c, K, p, <<a>>) /\ Passes(c, K, p, <<b, d, e>>) => Passes(c, K, p, <<a, b, d, e>>)
        /\ Passes(c, K, p, <<a>>) /\ Spends(c, K, p, <<b, d, e>>) => Spends(c, K, p, <<a, b, d, e>>)
        /\ Spends(c, K, p, <<a>>) /\ After(c, <<b, d, e>>) => Spends(c, K, p, <<a, b, d, e>>)
<1> SUFFICES ASSUME NEW c, NEW K, NEW p, NEW a, NEW b, NEW d, NEW e
             PROVE  /\ Passes(c, K, p, <<a>>) /\ Passes(c, K, p, <<b, d, e>>) => Passes(c, K, p, <<a, b, d, e>>)
                    /\ Passes(c, K, p, <<a>>) /\ Spends(c, K, p, <<b, d, e>>) => Spends(c, K, p, <<a, b, d, e>>)
                    /\ Spends(c, K, p, <<a>>) /\ After(c, <<b, d, e>>) => Spends(c, K, p, <<a, b, d, e>>)
  OBVIOUS
<1>1. <<a, b, d, e>> = <<a>> \o <<b, d, e>>
  <2> PICK X : X = {a, b, d, e}
    OBVIOUS
  <2>1. <<a>> \in Seq(X) /\ <<b, d, e>> \in Seq(X) /\ <<a, b, d, e>> \in Seq(X)
    OBVIOUS
  <2> PICK x, y, z \in Seq(X) : x = <<a>> /\ y = <<b, d, e>> /\ z = <<a, b, d, e>>
    BY <2>1
  <2>2. Len(x) = 1 /\ Len(y) = 3 /\ Len(z) = 4
    OBVIOUS
  <2>3. (\A i \in 1 .. 1 : z[i] = x[i]) /\ \A i \in 1 .. 3 : z[1 + i] = y[i]
    OBVIOUS
  <2>4. z = x \o y
    BY <2>2, <2>3, Joined
  <2> QED
    BY <2>4
<1> QED
  BY <1>1, PassJoin

LEMMA Join4at2 ==
    \A c, K, p, a, b, d, e :
        /\ Passes(c, K, p, <<a, b>>) /\ Passes(c, K, p, <<d, e>>) => Passes(c, K, p, <<a, b, d, e>>)
        /\ Passes(c, K, p, <<a, b>>) /\ Spends(c, K, p, <<d, e>>) => Spends(c, K, p, <<a, b, d, e>>)
        /\ Spends(c, K, p, <<a, b>>) /\ After(c, <<d, e>>) => Spends(c, K, p, <<a, b, d, e>>)
<1> SUFFICES ASSUME NEW c, NEW K, NEW p, NEW a, NEW b, NEW d, NEW e
             PROVE  /\ Passes(c, K, p, <<a, b>>) /\ Passes(c, K, p, <<d, e>>) => Passes(c, K, p, <<a, b, d, e>>)
                    /\ Passes(c, K, p, <<a, b>>) /\ Spends(c, K, p, <<d, e>>) => Spends(c, K, p, <<a, b, d, e>>)
                    /\ Spends(c, K, p, <<a, b>>) /\ After(c, <<d, e>>) => Spends(c, K, p, <<a, b, d, e>>)
  OBVIOUS
<1>1. <<a, b, d, e>> = <<a, b>> \o <<d, e>>
  <2> PICK X : X = {a, b, d, e}
    OBVIOUS
  <2>1. <<a, b>> \in Seq(X) /\ <<d, e>> \in Seq(X) /\ <<a, b, d, e>> \in Seq(X)
    OBVIOUS
  <2> PICK x, y, z \in Seq(X) : x = <<a, b>> /\ y = <<d, e>> /\ z = <<a, b, d, e>>
    BY <2>1
  <2>2. Len(x) = 2 /\ Len(y) = 2 /\ Len(z) = 4
    OBVIOUS
  <2>3. (\A i \in 1 .. 2 : z[i] = x[i]) /\ \A i \in 1 .. 2 : z[2 + i] = y[i]
    OBVIOUS
  <2>4. z = x \o y
    BY <2>2, <2>3, Joined
  <2> QED
    BY <2>4
<1> QED
  BY <1>1, PassJoin

LEMMA Join4at3 ==
    \A c, K, p, a, b, d, e :
        /\ Passes(c, K, p, <<a, b, d>>) /\ Passes(c, K, p, <<e>>) => Passes(c, K, p, <<a, b, d, e>>)
        /\ Passes(c, K, p, <<a, b, d>>) /\ Spends(c, K, p, <<e>>) => Spends(c, K, p, <<a, b, d, e>>)
        /\ Spends(c, K, p, <<a, b, d>>) /\ After(c, <<e>>) => Spends(c, K, p, <<a, b, d, e>>)
<1> SUFFICES ASSUME NEW c, NEW K, NEW p, NEW a, NEW b, NEW d, NEW e
             PROVE  /\ Passes(c, K, p, <<a, b, d>>) /\ Passes(c, K, p, <<e>>) => Passes(c, K, p, <<a, b, d, e>>)
                    /\ Passes(c, K, p, <<a, b, d>>) /\ Spends(c, K, p, <<e>>) => Spends(c, K, p, <<a, b, d, e>>)
                    /\ Spends(c, K, p, <<a, b, d>>) /\ After(c, <<e>>) => Spends(c, K, p, <<a, b, d, e>>)
  OBVIOUS
<1>1. <<a, b, d, e>> = <<a, b, d>> \o <<e>>
  <2> PICK X : X = {a, b, d, e}
    OBVIOUS
  <2>1. <<a, b, d>> \in Seq(X) /\ <<e>> \in Seq(X) /\ <<a, b, d, e>> \in Seq(X)
    OBVIOUS
  <2> PICK x, y, z \in Seq(X) : x = <<a, b, d>> /\ y = <<e>> /\ z = <<a, b, d, e>>
    BY <2>1
  <2>2. Len(x) = 3 /\ Len(y) = 1 /\ Len(z) = 4
    OBVIOUS
  <2>3. (\A i \in 1 .. 3 : z[i] = x[i]) /\ \A i \in 1 .. 1 : z[3 + i] = y[i]
    OBVIOUS
  <2>4. z = x \o y
    BY <2>2, <2>3, Joined
  <2> QED
    BY <2>4
<1> QED
  BY <1>1, PassJoin

LEMMA Join5at2 ==
    \A c, K, p, a, b, d, e, f :
        /\ Passes(c, K, p, <<a, b>>) /\ Passes(c, K, p, <<d, e, f>>) => Passes(c, K, p, <<a, b, d, e, f>>)
        /\ Passes(c, K, p, <<a, b>>) /\ Spends(c, K, p, <<d, e, f>>) => Spends(c, K, p, <<a, b, d, e, f>>)
        /\ Spends(c, K, p, <<a, b>>) /\ After(c, <<d, e, f>>) => Spends(c, K, p, <<a, b, d, e, f>>)
<1> SUFFICES ASSUME NEW c, NEW K, NEW p, NEW a, NEW b, NEW d, NEW e, NEW f
             PROVE  /\ Passes(c, K, p, <<a, b>>) /\ Passes(c, K, p, <<d, e, f>>) => Passes(c, K, p, <<a, b, d, e, f>>)
                    /\ Passes(c, K, p, <<a, b>>) /\ Spends(c, K, p, <<d, e, f>>) => Spends(c, K, p, <<a, b, d, e, f>>)
                    /\ Spends(c, K, p, <<a, b>>) /\ After(c, <<d, e, f>>) => Spends(c, K, p, <<a, b, d, e, f>>)
  OBVIOUS
<1>1. <<a, b, d, e, f>> = <<a, b>> \o <<d, e, f>>
  <2> PICK X : X = {a, b, d, e, f}
    OBVIOUS
  <2>1. <<a, b>> \in Seq(X) /\ <<d, e, f>> \in Seq(X) /\ <<a, b, d, e, f>> \in Seq(X)
    OBVIOUS
  <2> PICK x, y, z \in Seq(X) : x = <<a, b>> /\ y = <<d, e, f>> /\ z = <<a, b, d, e, f>>
    BY <2>1
  <2>2. Len(x) = 2 /\ Len(y) = 3 /\ Len(z) = 5
    OBVIOUS
  <2>3. (\A i \in 1 .. 2 : z[i] = x[i]) /\ \A i \in 1 .. 3 : z[2 + i] = y[i]
    OBVIOUS
  <2>4. z = x \o y
    BY <2>2, <2>3, Joined
  <2> QED
    BY <2>4
<1> QED
  BY <1>1, PassJoin

LEMMA Join5at3 ==
    \A c, K, p, a, b, d, e, f :
        /\ Passes(c, K, p, <<a, b, d>>) /\ Passes(c, K, p, <<e, f>>) => Passes(c, K, p, <<a, b, d, e, f>>)
        /\ Passes(c, K, p, <<a, b, d>>) /\ Spends(c, K, p, <<e, f>>) => Spends(c, K, p, <<a, b, d, e, f>>)
        /\ Spends(c, K, p, <<a, b, d>>) /\ After(c, <<e, f>>) => Spends(c, K, p, <<a, b, d, e, f>>)
<1> SUFFICES ASSUME NEW c, NEW K, NEW p, NEW a, NEW b, NEW d, NEW e, NEW f
             PROVE  /\ Passes(c, K, p, <<a, b, d>>) /\ Passes(c, K, p, <<e, f>>) => Passes(c, K, p, <<a, b, d, e, f>>)
                    /\ Passes(c, K, p, <<a, b, d>>) /\ Spends(c, K, p, <<e, f>>) => Spends(c, K, p, <<a, b, d, e, f>>)
                    /\ Spends(c, K, p, <<a, b, d>>) /\ After(c, <<e, f>>) => Spends(c, K, p, <<a, b, d, e, f>>)
  OBVIOUS
<1>1. <<a, b, d, e, f>> = <<a, b, d>> \o <<e, f>>
  <2> PICK X : X = {a, b, d, e, f}
    OBVIOUS
  <2>1. <<a, b, d>> \in Seq(X) /\ <<e, f>> \in Seq(X) /\ <<a, b, d, e, f>> \in Seq(X)
    OBVIOUS
  <2> PICK x, y, z \in Seq(X) : x = <<a, b, d>> /\ y = <<e, f>> /\ z = <<a, b, d, e, f>>
    BY <2>1
  <2>2. Len(x) = 3 /\ Len(y) = 2 /\ Len(z) = 5
    OBVIOUS
  <2>3. (\A i \in 1 .. 3 : z[i] = x[i]) /\ \A i \in 1 .. 2 : z[3 + i] = y[i]
    OBVIOUS
  <2>4. z = x \o y
    BY <2>2, <2>3, Joined
  <2> QED
    BY <2>4
<1> QED
  BY <1>1, PassJoin

LEMMA Join6at2 ==
    \A c, K, p, a, b, d, e, f, g :
        /\ Passes(c, K, p, <<a, b>>) /\ Passes(c, K, p, <<d, e, f, g>>) => Passes(c, K, p, <<a, b, d, e, f, g>>)
        /\ Passes(c, K, p, <<a, b>>) /\ Spends(c, K, p, <<d, e, f, g>>) => Spends(c, K, p, <<a, b, d, e, f, g>>)
        /\ Spends(c, K, p, <<a, b>>) /\ After(c, <<d, e, f, g>>) => Spends(c, K, p, <<a, b, d, e, f, g>>)
<1> SUFFICES ASSUME NEW c, NEW K, NEW p, NEW a, NEW b, NEW d, NEW e, NEW f, NEW g
             PROVE  /\ Passes(c, K, p, <<a, b>>) /\ Passes(c, K, p, <<d, e, f, g>>) => Passes(c, K, p, <<a, b, d, e, f, g>>)
                    /\ Passes(c, K, p, <<a, b>>) /\ Spends(c, K, p, <<d, e, f, g>>) => Spends(c, K, p, <<a, b, d, e, f, g>>)
                    /\ Spends(c, K, p, <<a, b>>) /\ After(c, <<d, e, f, g>>) => Spends(c, K, p, <<a, b, d, e, f, g>>)
  OBVIOUS
<1>1. <<a, b, d, e, f, g>> = <<a, b>> \o <<d, e, f, g>>
  <2> PICK X : X = {a, b, d, e, f, g}
    OBVIOUS
  <2>1. <<a, b>> \in Seq(X) /\ <<d, e, f, g>> \in Seq(X) /\ <<a, b, d, e, f, g>> \in Seq(X)
    OBVIOUS
  <2> PICK x, y, z \in Seq(X) : x = <<a, b>> /\ y = <<d, e, f, g>> /\ z = <<a, b, d, e, f, g>>
    BY <2>1
  <2>2. Len(x) = 2 /\ Len(y) = 4 /\ Len(z) = 6
    OBVIOUS
  <2>3. (\A i \in 1 .. 2 : z[i] = x[i]) /\ \A i \in 1 .. 4 : z[2 + i] = y[i]
    OBVIOUS
  <2>4. z = x \o y
    BY <2>2, <2>3, Joined
  <2> QED
    BY <2>4
<1> QED
  BY <1>1, PassJoin

LEMMA Join7at2 ==
    \A c, K, p, a, b, d, e, f, g, h :
        /\ Passes(c, K, p, <<a, b>>) /\ Passes(c, K, p, <<d, e, f, g, h>>) => Passes(c, K, p, <<a, b, d, e, f, g, h>>)
        /\ Passes(c, K, p, <<a, b>>) /\ Spends(c, K, p, <<d, e, f, g, h>>) => Spends(c, K, p, <<a, b, d, e, f, g, h>>)
        /\ Spends(c, K, p, <<a, b>>) /\ After(c, <<d, e, f, g, h>>) => Spends(c, K, p, <<a, b, d, e, f, g, h>>)
<1> SUFFICES ASSUME NEW c, NEW K, NEW p, NEW a, NEW b, NEW d, NEW e, NEW f, NEW g, NEW h
             PROVE  /\ Passes(c, K, p, <<a, b>>) /\ Passes(c, K, p, <<d, e, f, g, h>>) => Passes(c, K, p, <<a, b, d, e, f, g, h>>)
                    /\ Passes(c, K, p, <<a, b>>) /\ Spends(c, K, p, <<d, e, f, g, h>>) => Spends(c, K, p, <<a, b, d, e, f, g, h>>)
                    /\ Spends(c, K, p, <<a, b>>) /\ After(c, <<d, e, f, g, h>>) => Spends(c, K, p, <<a, b, d, e, f, g, h>>)
  OBVIOUS
<1>1. <<a, b, d, e, f, g, h>> = <<a, b>> \o <<d, e, f, g, h>>
  <2> PICK X : X = {a, b, d, e, f, g, h}
    OBVIOUS
  <2>1. <<a, b>> \in Seq(X) /\ <<d, e, f, g, h>> \in Seq(X) /\ <<a, b, d, e, f, g, h>> \in Seq(X)
    OBVIOUS
  <2> PICK x, y, z \in Seq(X) : x = <<a, b>> /\ y = <<d, e, f, g, h>> /\ z = <<a, b, d, e, f, g, h>>
    BY <2>1
  <2>2. Len(x) = 2 /\ Len(y) = 5 /\ Len(z) = 7
    OBVIOUS
  <2>3. (\A i \in 1 .. 2 : z[i] = x[i]) /\ \A i \in 1 .. 5 : z[2 + i] = y[i]
    OBVIOUS
  <2>4. z = x \o y
    BY <2>2, <2>3, Joined
  <2> QED
    BY <2>4
<1> QED
  BY <1>1, PassJoin

LEMMA Join8at4 ==
    \A c, K, p, a, b, d, e, f, g, h, j :
        /\ Passes(c, K, p, <<a, b, d, e>>) /\ Passes(c, K, p, <<f, g, h, j>>) => Passes(c, K, p, <<a, b, d, e, f, g, h, j>>)
        /\ Passes(c, K, p, <<a, b, d, e>>) /\ Spends(c, K, p, <<f, g, h, j>>) => Spends(c, K, p, <<a, b, d, e, f, g, h, j>>)
        /\ Spends(c, K, p, <<a, b, d, e>>) /\ After(c, <<f, g, h, j>>) => Spends(c, K, p, <<a, b, d, e, f, g, h, j>>)
<1> SUFFICES ASSUME NEW c, NEW K, NEW p, NEW a, NEW b, NEW d, NEW e, NEW f, NEW g, NEW h, NEW j
             PROVE  /\ Passes(c, K, p, <<a, b, d, e>>) /\ Passes(c, K, p, <<f, g, h, j>>) => Passes(c, K, p, <<a, b, d, e, f, g, h, j>>)
                    /\ Passes(c, K, p, <<a, b, d, e>>) /\ Spends(c, K, p, <<f, g, h, j>>) => Spends(c, K, p, <<a, b, d, e, f, g, h, j>>)
                    /\ Spends(c, K, p, <<a, b, d, e>>) /\ After(c, <<f, g, h, j>>) => Spends(c, K, p, <<a, b, d, e, f, g, h, j>>)
  OBVIOUS
<1>1. <<a, b, d, e, f, g, h, j>> = <<a, b, d, e>> \o <<f, g, h, j>>
  <2> PICK X : X = {a, b, d, e, f, g, h, j}
    OBVIOUS
  <2>1. <<a, b, d, e>> \in Seq(X) /\ <<f, g, h, j>> \in Seq(X) /\ <<a, b, d, e, f, g, h, j>> \in Seq(X)
    OBVIOUS
  <2> PICK x, y, z \in Seq(X) : x = <<a, b, d, e>> /\ y = <<f, g, h, j>> /\ z = <<a, b, d, e, f, g, h, j>>
    BY <2>1
  <2>2. Len(x) = 4 /\ Len(y) = 4 /\ Len(z) = 8
    OBVIOUS
  <2>3. (\A i \in 1 .. 4 : z[i] = x[i]) /\ \A i \in 1 .. 4 : z[4 + i] = y[i]
    OBVIOUS
  <2>4. z = x \o y
    BY <2>2, <2>3, Joined
  <2> QED
    BY <2>4
<1> QED
  BY <1>1, PassJoin

LEMMA Join9at6 ==
    \A c, K, p, a, b, d, e, f, g, h, j, k :
        /\ Passes(c, K, p, <<a, b, d, e, f, g>>) /\ Passes(c, K, p, <<h, j, k>>) => Passes(c, K, p, <<a, b, d, e, f, g, h, j, k>>)
        /\ Passes(c, K, p, <<a, b, d, e, f, g>>) /\ Spends(c, K, p, <<h, j, k>>) => Spends(c, K, p, <<a, b, d, e, f, g, h, j, k>>)
        /\ Spends(c, K, p, <<a, b, d, e, f, g>>) /\ After(c, <<h, j, k>>) => Spends(c, K, p, <<a, b, d, e, f, g, h, j, k>>)
<1> SUFFICES ASSUME NEW c, NEW K, NEW p, NEW a, NEW b, NEW d, NEW e, NEW f, NEW g, NEW h, NEW j, NEW k
             PROVE  /\ Passes(c, K, p, <<a, b, d, e, f, g>>) /\ Passes(c, K, p, <<h, j, k>>) => Passes(c, K, p, <<a, b, d, e, f, g, h, j, k>>)
                    /\ Passes(c, K, p, <<a, b, d, e, f, g>>) /\ Spends(c, K, p, <<h, j, k>>) => Spends(c, K, p, <<a, b, d, e, f, g, h, j, k>>)
                    /\ Spends(c, K, p, <<a, b, d, e, f, g>>) /\ After(c, <<h, j, k>>) => Spends(c, K, p, <<a, b, d, e, f, g, h, j, k>>)
  OBVIOUS
<1>1. <<a, b, d, e, f, g, h, j, k>> = <<a, b, d, e, f, g>> \o <<h, j, k>>
  <2> PICK X : X = {a, b, d, e, f, g, h, j, k}
    OBVIOUS
  <2>1. <<a, b, d, e, f, g>> \in Seq(X) /\ <<h, j, k>> \in Seq(X) /\ <<a, b, d, e, f, g, h, j, k>> \in Seq(X)
    OBVIOUS
  <2> PICK x, y, z \in Seq(X) : x = <<a, b, d, e, f, g>> /\ y = <<h, j, k>> /\ z = <<a, b, d, e, f, g, h, j, k>>
    BY <2>1
  <2>2. Len(x) = 6 /\ Len(y) = 3 /\ Len(z) = 9
    OBVIOUS
  <2>3. (\A i \in 1 .. 6 : z[i] = x[i]) /\ \A i \in 1 .. 3 : z[6 + i] = y[i]
    OBVIOUS
  <2>4. z = x \o y
    BY <2>2, <2>3, Joined
  <2> QED
    BY <2>4
<1> QED
  BY <1>1, PassJoin

LEMMA Join13at8 ==
    \A c, K, p, a, b, d, e, f, g, h, j, k, l, m, o, u :
        /\ Passes(c, K, p, <<a, b, d, e, f, g, h, j>>) /\ Passes(c, K, p, <<k, l, m, o, u>>) => Passes(c, K, p, <<a, b, d, e, f, g, h, j, k, l, m, o, u>>)
        /\ Passes(c, K, p, <<a, b, d, e, f, g, h, j>>) /\ Spends(c, K, p, <<k, l, m, o, u>>) => Spends(c, K, p, <<a, b, d, e, f, g, h, j, k, l, m, o, u>>)
        /\ Spends(c, K, p, <<a, b, d, e, f, g, h, j>>) /\ After(c, <<k, l, m, o, u>>) => Spends(c, K, p, <<a, b, d, e, f, g, h, j, k, l, m, o, u>>)
<1> SUFFICES ASSUME NEW c, NEW K, NEW p, NEW a, NEW b, NEW d, NEW e, NEW f, NEW g, NEW h, NEW j, NEW k, NEW l, NEW m, NEW o, NEW u
             PROVE  /\ Passes(c, K, p, <<a, b, d, e, f, g, h, j>>) /\ Passes(c, K, p, <<k, l, m, o, u>>) => Passes(c, K, p, <<a, b, d, e, f, g, h, j, k, l, m, o, u>>)
                    /\ Passes(c, K, p, <<a, b, d, e, f, g, h, j>>) /\ Spends(c, K, p, <<k, l, m, o, u>>) => Spends(c, K, p, <<a, b, d, e, f, g, h, j, k, l, m, o, u>>)
                    /\ Spends(c, K, p, <<a, b, d, e, f, g, h, j>>) /\ After(c, <<k, l, m, o, u>>) => Spends(c, K, p, <<a, b, d, e, f, g, h, j, k, l, m, o, u>>)
  OBVIOUS
<1>1. <<a, b, d, e, f, g, h, j, k, l, m, o, u>> = <<a, b, d, e, f, g, h, j>> \o <<k, l, m, o, u>>
  <2> PICK X : X = {a, b, d, e, f, g, h, j, k, l, m, o, u}
    OBVIOUS
  <2>1. <<a, b, d, e, f, g, h, j>> \in Seq(X) /\ <<k, l, m, o, u>> \in Seq(X) /\ <<a, b, d, e, f, g, h, j, k, l, m, o, u>> \in Seq(X)
    OBVIOUS
  <2> PICK x, y, z \in Seq(X) : x = <<a, b, d, e, f, g, h, j>> /\ y = <<k, l, m, o, u>> /\ z = <<a, b, d, e, f, g, h, j, k, l, m, o, u>>
    BY <2>1
  <2>2. Len(x) = 8 /\ Len(y) = 5 /\ Len(z) = 13
    OBVIOUS
  <2>3. (\A i \in 1 .. 8 : z[i] = x[i]) /\ \A i \in 1 .. 5 : z[8 + i] = y[i]
    OBVIOUS
  <2>4. z = x \o y
    BY <2>2, <2>3, Joined
  <2> QED
    BY <2>4
<1> QED
  BY <1>1, PassJoin

-----------------------------------------------------------------------------
(* Loops, and the rules after a token.                                       *)
\* Any token but the end of the file.
NotEnd == Kind \ {"eof"}

LEMMA Zones ==
    \A c, K, p : Zone(c, K, p) =>
        /\ Place(c) /\ Zone(c, {}, Past) /\ Zone(c, Kind, p) /\ Zone(c, NotEnd, p) /\ Zone(c, K, Past)
        /\ \A n : Zone(Inner(c, n, K, p), Kind, p) /\ Zone(Inner(c, n, K, p), NotEnd, p)
                  /\ Zone(Inner(c, n, K, p), {}, Past)
<1>1. \A c, K, p : Zone(c, K, p) =>
          Place(c) /\ Zone(c, {}, Past) /\ Zone(c, Kind, p) /\ Zone(c, NotEnd, p) /\ Zone(c, K, Past)
  <2>1. ";" \in Kind /\ ";" \in NotEnd
    BY DEF Kind, NotEnd
  <2> QED
    BY <2>1 DEF Zone, Case, NotEnd
<1>2. \A c, K, p, n : Zone(c, K, p) => Zone(Inner(c, n, K, p), {}, Past) /\ Zone(Inner(c, n, K, p), K, p)
  BY InnerFacts, <1>1 DEF Zone
<1> QED
  BY <1>1, <1>2 DEF Zone

LEMMA KeepSmall ==
    /\ \A c, K, p, k : Zone(c, K, p) /\ "eof" \notin k => Keeps(c, K, p, May(k))
    /\ \A c, K, p, k : Zone(c, K, p) /\ Turn(c, p) /\ "eof" \notin k
          => Keeps(c, K, p, OrBreak(k)) /\ Spend(c, K, p, OrBreak(k))
<1>1. \A c, K, p : Zone(c, K, p) => After(c, <<>>) /\ Passes(c, K, p, <<>>)
  BY Zones, PassNone DEF After
<1>2. \A c, K, p : Zone(c, K, p) /\ Turn(c, p) => Passes(c, K, p, <<Break>>) /\ Spends(c, K, p, <<Break>>)
  BY KeepJump, Pass1, Spend1
<1> QED
  BY <1>1, <1>2, KeepBranch, SpendBranch DEF May, OrBreak

LEMMA KeepWhile ==
    \A c, K, p, k, n, b :
        /\ Zone(c, K, p) /\ n # "none" /\ "eof" \notin k /\ After(Inner(c, n, K, p), b)
        => Keeps(c, K, p, While(k, n, b))
<1> SUFFICES ASSUME NEW c, NEW K, NEW p, NEW k, NEW n, NEW b,
                    Zone(c, K, p), n # "none", "eof" \notin k, After(Inner(c, n, K, p), b)
             PROVE  Keeps(c, K, p, While(k, n, b))
  OBVIOUS
<1> PICK d : d = Inner(c, n, K, p)
  OBVIOUS
<1>1. Zone(d, Kind, p) /\ Turn(d, p)
  BY Zones, TurnFacts DEF Zone, Case
<1>2. Spends(d, Kind, p, <<Break>>)
  BY <1>1, KeepJump, Spend1
<1>3. Spends(d, Kind, p, <<Match(k, b, <<Break>>)>>)
  BY <1>1, <1>2, SpendBranch, Spend1
<1> QED
  BY <1>3, KeepLoop DEF While

LEMMA Narrow ==
    \A c, k, p, b, r, L : Zone(c, Kind, p) /\ Turn(c, p) /\ Kind \ (k \cup {"eof"}) \subseteq L
            /\ Chain(c, b, At(c.mood, L, p), r)
        => Chain(c, <<Look(k \cup {"eof"}, <<Break>>, <<>>)>> \o b, At(c.mood, Kind, p), r)
<1> SUFFICES ASSUME NEW c, NEW k, NEW p, NEW b, NEW r, NEW L, Zone(c, Kind, p), Turn(c, p),
                    Kind \ (k \cup {"eof"}) \subseteq L, Chain(c, b, At(c.mood, L, p), r)
             PROVE  Chain(c, <<Look(k \cup {"eof"}, <<Break>>, <<>>)>> \o b, At(c.mood, Kind, p), r)
  OBVIOUS
<1> PICK l : l = k \cup {"eof"}
  OBVIOUS
<1> PICK q, t : q = At(c.mood, Kind, p) /\ t = At(c.mood, L, p)
  OBVIOUS
<1>1. Implies(Without(q, l), t)
  BY DEF Implies, Without, Moved, Stayed, At
<1>2. Chain(c, <<>>, Without(q, l), t)
  BY <1>1, Nothing
<1>3. Fits(c, Break, q, t)
  BY DoesBreak DEF Does
<1>4. Implies(Among(q, l), q) /\ Implies(t, t)
  BY DEF Implies, Among, Moved, Stayed
<1>5. Chain(c, <<Break>>, Among(q, l), t)
  BY <1>3, <1>4, ChainOne, Weaken
<1>6. Chain(c, <<Look(l, <<Break>>, <<>>)>>, q, t)
  BY <1>2, <1>5, FitsLook, ChainOne
<1> QED
  BY <1>6, ChainJoin

LEMMA KeepUntil ==
    /\ \A c, K, p, k, n, b :
          Zone(c, K, p) /\ n # "none" /\ Spends(Inner(c, n, K, p), NotEnd, p, b)
          => Keeps(c, K, p, Until(k, n, b))
    /\ \A c, K, p, k, b :
          Zone(c, K, p) /\ Passes(Inner(c, "ivars", K, p), Kind, p, b)
          => Keeps(c, K, p, Until(k, "ivars", b))
<1>1. ASSUME NEW c, NEW K, NEW p, NEW k, NEW n, NEW b, Zone(c, K, p), n # "none",
             Spends(Inner(c, n, K, p), NotEnd, p, b)
      PROVE  Keeps(c, K, p, Until(k, n, b))
  <2> PICK d : d = Inner(c, n, K, p)
    OBVIOUS
  <2>1. Zone(d, Kind, p) /\ Turn(d, p)
    <3>1. Zone(d, Kind, p)
      BY <1>1, Zones
    <3>2. Turn(d, p)
      <4>1. p = {} \/ p = Past
        BY <1>1 DEF Zone, Case
      <4> QED
        BY <1>1, <4>1, TurnFacts
    <3> QED
      BY <3>1, <3>2
  <2>2. Spends(d, Kind, p, <<Look(k \cup {"eof"}, <<Break>>, <<>>)>> \o b)
    <3>1. Kind \ (k \cup {"eof"}) \subseteq NotEnd
      BY DEF NotEnd
    <3>2. Chain(d, b, At(d.mood, NotEnd, p), Beyond(d))
      BY <1>1 DEF Spends
    <3> QED
      BY <2>1, <3>1, <3>2, Narrow DEF Spends
  <2> QED
    BY <1>1, <2>2, KeepLoop DEF Until
<1>2. ASSUME NEW c, NEW K, NEW p, NEW k, NEW b, Zone(c, K, p), Passes(Inner(c, "ivars", K, p), Kind, p, b)
      PROVE  Keeps(c, K, p, Until(k, "ivars", b))
  <2> PICK d : d = Inner(c, "ivars", K, p)
    OBVIOUS
  <2>1. Zone(d, Kind, p) /\ Turn(d, p)
    <3>1. "ivars" # "none" /\ (p = {} \/ p = Past)
      BY <1>2 DEF Zone, Case
    <3> QED
      BY <1>2, <3>1, Zones, TurnFacts
  <2>2. Passes(d, Kind, p, <<Look(k \cup {"eof"}, <<Break>>, <<>>)>> \o b)
    BY <1>2, <2>1, Narrow DEF Passes
  <2> QED
    BY <1>2, <2>2, KeepIvars DEF Until
<1> QED
  BY <1>1, <1>2

LEMMA KeepSkips ==
    \A c, K, p : Zone(c, K, p) => Keeps(c, K, p, SkipBalanced) /\ \A k : Keeps(c, K, p, SkipTo(k))
<1> SUFFICES ASSUME NEW c, NEW K, NEW p, Zone(c, K, p)
             PROVE  Keeps(c, K, p, SkipBalanced) /\ \A k : Keeps(c, K, p, SkipTo(k))
  OBVIOUS
<1>1. \A n : Spends(Inner(c, n, K, p), NotEnd, p, <<Skip>>)
  BY Zones, SpendSkip, Spend1 DEF NotEnd
<1>2. \A k : Keeps(c, K, p, SkipTo(k))
  BY <1>1, KeepUntil DEF SkipTo
<1>3. Keeps(c, K, p, SkipBalanced)
  <2> PICK d : d = Inner(c, "balanced", K, p)
    OBVIOUS
  <2> DEFINE b == <<Look({")"}, <<Choose(<<Break>>, <<Skip>>)>>, <<Skip>>)>>
  <2>1. Zone(d, Kind, p) /\ Zone(d, NotEnd, p) /\ Turn(d, p)
    BY Zones, TurnFacts DEF Zone, Case
  <2>2. Spends(d, NotEnd, p, <<Break>>) /\ Spends(d, NotEnd, p, <<Skip>>)
    BY <1>1, <2>1, KeepJump, Spend1
  <2>3. Spends(d, NotEnd, p, b)
    BY <2>2, SpendBranch, Spend1
  <2> HIDE DEF b
  <2>4. Chain(d, <<Look({} \cup {"eof"}, <<Break>>, <<>>)>> \o b, At(d.mood, Kind, p), Beyond(d))
    BY <2>1, <2>3, Narrow DEF Spends, NotEnd
  <2>5. {} \cup {"eof"} = {"eof"}
    OBVIOUS
  <2>6. Spends(d, Kind, p, <<Look({"eof"}, <<Break>>, <<>>)>> \o b)
    BY <2>4, <2>5 DEF Spends
  <2>7. <<Look({"eof"}, <<Break>>, <<>>)>> \o b
          = <<Look({"eof"}, <<Break>>, <<>>), Look({")"}, <<Choose(<<Break>>, <<Skip>>)>>, <<Skip>>)>>
    BY Split2 DEF b
  <2> QED
    BY <2>6, <2>7, KeepLoop DEF SkipBalanced
<1> QED
  BY <1>2, <1>3

-----------------------------------------------------------------------------
(* The same after a token.                                                   *)
LEMMA AfterRules ==
    /\ \A c, k, y, n : Place(c) /\ "eof" \notin k /\ After(c, y) /\ After(c, n) => Aft(c, Match(k, y, n))
    /\ \A c, a, n : Place(c) /\ Each(c, a) /\ After(c, n) => Aft(c, Cases(a, n))
    /\ \A c, k, y, n : After(c, y) /\ After(c, n) => Aft(c, Look(k, y, n)) /\ Aft(c, Ahead(k, y, n))
    /\ \A c, y, n : After(c, y) /\ After(c, n) => Aft(c, Choose(y, n)) /\ Aft(c, IfOk(y, n))
    /\ \A c, k : Place(c) /\ "eof" \notin k => Aft(c, Need(k)) /\ Aft(c, May(k))
    /\ \A c, k : Place(c) /\ Turn(c, Past) /\ "eof" \notin k => Aft(c, OrBreak(k))
    /\ \A c, g : Place(c) /\ Callable(c, g) => Aft(c, Call(g))
    /\ \A c : Place(c) => Aft(c, Some) /\ Aft(c, Skip) /\ Aft(c, Error)
    /\ \A c : Place(c) /\ c.f \notin Answers => Aft(c, None)
    /\ \A c : Place(c) /\ Turn(c, Past) => Aft(c, Break) /\ Aft(c, Continue)
    /\ \A c : Place(c) => After(c, <<>>) /\ After(c, <<Error, None>>)
    /\ \A c, s, t : After(c, s) /\ After(c, t) => After(c, s \o t)
<1>1. \A c : Place(c) => Zone(c, {}, Past)
  BY DEF Zone, Case
<1>2. \A c : Place(c) /\ Turn(c, Past) => Aft(c, Continue)
  BY DoesContinue DEF Aft, Keeps, Does
<1>3. \A c, g : Place(c) /\ Callable(c, g) => Aft(c, Call(g))
  BY <1>1, KeepCall DEF Aft, Lower
<1>4. \A c : Place(c) => Aft(c, Some) /\ (c.f \notin Answers => Aft(c, None)) /\ (Turn(c, Past) => Aft(c, Break))
  BY <1>1, KeepJump DEF Aft
<1>5. \A c : Place(c) => After(c, <<>>) /\ After(c, <<Error, None>>)
  BY <1>1, PassNone DEF After
<1>6. /\ \A c, k : Place(c) /\ "eof" \notin k => Aft(c, Need(k)) /\ Aft(c, May(k))
      /\ \A c, k : Place(c) /\ Turn(c, Past) /\ "eof" \notin k => Aft(c, OrBreak(k))
      /\ \A c : Place(c) => Aft(c, Skip) /\ Aft(c, Error)
  BY <1>1, KeepPlain, KeepSmall DEF Aft
<1>7. /\ \A c, k, y, n : Place(c) /\ "eof" \notin k /\ After(c, y) /\ After(c, n) => Aft(c, Match(k, y, n))
      /\ \A c, a, n : Place(c) /\ Each(c, a) /\ After(c, n) => Aft(c, Cases(a, n))
  BY <1>1, KeepBranch DEF Aft, After
<1>8. /\ \A c, k, y, n : After(c, y) /\ After(c, n) => Aft(c, Look(k, y, n)) /\ Aft(c, Ahead(k, y, n))
      /\ \A c, y, n : After(c, y) /\ After(c, n) => Aft(c, Choose(y, n)) /\ Aft(c, IfOk(y, n))
  BY KeepBranch DEF Aft, After
<1>9. \A c, s, t : After(c, s) /\ After(c, t) => After(c, s \o t)
  BY PassJoin DEF After
<1> QED
  BY <1>2, <1>3, <1>4, <1>5, <1>6, <1>7, <1>8, <1>9

LEMMA AfterLoops ==
    /\ \A c, k, n, b : Place(c) /\ n # "none" /\ "eof" \notin k /\ After(Inner(c, n, {}, Past), b)
          => Aft(c, While(k, n, b))
    /\ \A c, n, b : Place(c) /\ Spends(Inner(c, n, {}, Past), Kind, Past, b) => Aft(c, Loop(n, b))
    /\ \A c, k, n, b : Place(c) /\ n # "none" /\ Spends(Inner(c, n, {}, Past), NotEnd, Past, b)
          => Aft(c, Until(k, n, b))
    /\ \A c : Place(c) => Aft(c, SkipBalanced) /\ \A k : Aft(c, SkipTo(k))
    /\ \A c, n : Place(c) /\ n # "none" => Turn(Inner(c, n, {}, Past), Past)
<1>1. \A c : Place(c) => Zone(c, {}, Past)
  BY DEF Zone, Case
<1>2. /\ \A c, k, n, b : Place(c) /\ n # "none" /\ "eof" \notin k /\ After(Inner(c, n, {}, Past), b)
            => Aft(c, While(k, n, b))
      /\ \A c, n, b : Place(c) /\ Spends(Inner(c, n, {}, Past), Kind, Past, b) => Aft(c, Loop(n, b))
  BY <1>1, KeepWhile, KeepLoop DEF Aft
<1>3. /\ \A c, k, n, b : Place(c) /\ n # "none" /\ Spends(Inner(c, n, {}, Past), NotEnd, Past, b)
            => Aft(c, Until(k, n, b))
      /\ \A c : Place(c) => Aft(c, SkipBalanced) /\ \A k : Aft(c, SkipTo(k))
  BY <1>1, KeepUntil, KeepSkips DEF Aft
<1>4. \A c, n : Place(c) /\ n # "none" => Turn(Inner(c, n, {}, Past), Past)
  BY <1>1, TurnFacts
<1> QED
  BY <1>2, <1>3, <1>4

LEMMA AfterTuple ==
    /\ \A c, a : Aft(c, a)
          => After(c, <<a>>)
    /\ \A c, a, b : Place(c) /\ Aft(c, a) /\ Aft(c, b)
          => After(c, <<a, b>>)
    /\ \A c, a, b, d : Place(c) /\ Aft(c, a) /\ Aft(c, b) /\ Aft(c, d)
          => After(c, <<a, b, d>>)
    /\ \A c, a, b, d, e : Place(c) /\ Aft(c, a) /\ Aft(c, b) /\ Aft(c, d) /\ Aft(c, e)
          => After(c, <<a, b, d, e>>)
    /\ \A c, a, b, d, e, f : Place(c) /\ Aft(c, a) /\ Aft(c, b) /\ Aft(c, d) /\ Aft(c, e) /\ Aft(c, f)
          => After(c, <<a, b, d, e, f>>)
    /\ \A c, a, b, d, e, f, g : Place(c) /\ Aft(c, a) /\ Aft(c, b) /\ Aft(c, d) /\ Aft(c, e) /\ Aft(c, f) /\ Aft(c, g)
          => After(c, <<a, b, d, e, f, g>>)
    /\ \A c, a, b, d, e, f, g, h : Place(c) /\ Aft(c, a) /\ Aft(c, b) /\ Aft(c, d) /\ Aft(c, e) /\ Aft(c, f) /\ Aft(c, g) /\ Aft(c, h)
          => After(c, <<a, b, d, e, f, g, h>>)
    /\ \A c, a, b, d, e, f, g, h, j : Place(c) /\ Aft(c, a) /\ Aft(c, b) /\ Aft(c, d) /\ Aft(c, e) /\ Aft(c, f) /\ Aft(c, g) /\ Aft(c, h) /\ Aft(c, j)
          => After(c, <<a, b, d, e, f, g, h, j>>)
<1>1. \A c : Place(c) => Zone(c, {}, Past)
  BY DEF Zone, Case
<1>2. \A c, a : Aft(c, a)
        => After(c, <<a>>)
  BY <1>1, Pass1 DEF Aft, After
<1>3. \A c, a, b : Place(c) /\ Aft(c, a) /\ Aft(c, b)
        => After(c, <<a, b>>)
  BY <1>1, Pass2 DEF Aft, After
<1>4. \A c, a, b, d : Place(c) /\ Aft(c, a) /\ Aft(c, b) /\ Aft(c, d)
        => After(c, <<a, b, d>>)
  BY <1>1, Pass3 DEF Aft, After
<1>5. \A c, a, b, d, e : Place(c) /\ Aft(c, a) /\ Aft(c, b) /\ Aft(c, d) /\ Aft(c, e)
        => After(c, <<a, b, d, e>>)
  BY <1>1, Pass4 DEF Aft, After
<1>6. \A c, a, b, d, e, f : Place(c) /\ Aft(c, a) /\ Aft(c, b) /\ Aft(c, d) /\ Aft(c, e) /\ Aft(c, f)
        => After(c, <<a, b, d, e, f>>)
  BY <1>1, Pass5 DEF Aft, After
<1>7. \A c, a, b, d, e, f, g : Place(c) /\ Aft(c, a) /\ Aft(c, b) /\ Aft(c, d) /\ Aft(c, e) /\ Aft(c, f) /\ Aft(c, g)
        => After(c, <<a, b, d, e, f, g>>)
  BY <1>1, Pass6 DEF Aft, After
<1>8. \A c, a, b, d, e, f, g, h : Place(c) /\ Aft(c, a) /\ Aft(c, b) /\ Aft(c, d) /\ Aft(c, e) /\ Aft(c, f) /\ Aft(c, g) /\ Aft(c, h)
        => After(c, <<a, b, d, e, f, g, h>>)
  BY <1>1, Pass7 DEF Aft, After
<1>9. \A c, a, b, d, e, f, g, h, j : Place(c) /\ Aft(c, a) /\ Aft(c, b) /\ Aft(c, d) /\ Aft(c, e) /\ Aft(c, f) /\ Aft(c, g) /\ Aft(c, h) /\ Aft(c, j)
        => After(c, <<a, b, d, e, f, g, h, j>>)
  BY <1>1, Pass8 DEF Aft, After
<1> QED
  BY <1>2, <1>3, <1>4, <1>5, <1>6, <1>7, <1>8, <1>9

\* A call whose failure is the failure of the caller.
LEMMA AfterCalls ==
    /\ \A c, g, y : Place(c) /\ Callable(c, g) /\ g \in Answers \cap Takes /\ After(c, y)
          => After(c, <<Call(g), IfOk(y, <<None>>)>>)
    /\ \A c, g : Place(c) /\ Callable(c, g) /\ (c.f \notin Answers \/ g \in Answers \cap Takes)
          => After(c, Try(g)) /\ After(c, Result(g))
<1>1. \A c : Place(c) => Zone(c, {}, Past) /\ Implies(Beyond(c), Beyond(c)) /\ \A g : Lower(c, g, Past)
  BY ZoneFacts DEF Zone, Case, Lower
<1>2. \A c, g, y : Place(c) /\ Callable(c, g) /\ g \in Answers \cap Takes /\ After(c, y)
          => After(c, <<Call(g), IfOk(y, <<None>>)>>)
  BY <1>1, GoesAnswer DEF After, Passes, Goes, Beyond
<1>3. \A c : Place(c) => After(c, <<Some>>) /\ After(c, <<>>)
  BY AfterRules, AfterTuple
<1>4. \A c : Place(c) /\ c.f \notin Answers => After(c, <<None>>)
  BY AfterRules, AfterTuple
<1>5. \A c, g : Place(c) /\ Callable(c, g) /\ c.f \notin Answers => After(c, Try(g)) /\ After(c, Result(g))
  BY <1>3, <1>4, AfterRules, AfterTuple DEF Try, Result
<1> QED
  BY <1>2, <1>3, <1>5 DEF Try, Result

-----------------------------------------------------------------------------
(* Alternatives.                                                             *)
\* An alternative keeps what is known once its token is consumed.
Alt(c, a) == "eof" \notin a.kinds /\ After(c, a.body)

LEMMA AltOn == \A c, k, y : "eof" \notin k /\ After(c, y) => Alt(c, On(k, y))
BY DEF Alt, On

LEMMA Each3 ==
    \A c, a, b, d :
        /\ Alt(c, a) /\ Alt(c, b) /\ Alt(c, d)
        => Each(c, <<a, b, d>>)
<1> SUFFICES ASSUME NEW c, NEW a, NEW b, NEW d,
                    Alt(c, a), Alt(c, b), Alt(c, d)
             PROVE  Each(c, <<a, b, d>>)
  OBVIOUS
<1>1. DOMAIN <<a, b, d>> = 1 .. 3 /\ \A i \in 1 .. 3 : Alt(c, <<a, b, d>>[i])
  OBVIOUS
<1> QED
  BY <1>1 DEF Each, Alt

LEMMA Each4 ==
    \A c, a, b, d, e :
        /\ Alt(c, a) /\ Alt(c, b) /\ Alt(c, d) /\ Alt(c, e)
        => Each(c, <<a, b, d, e>>)
<1> SUFFICES ASSUME NEW c, NEW a, NEW b, NEW d, NEW e,
                    Alt(c, a), Alt(c, b), Alt(c, d), Alt(c, e)
             PROVE  Each(c, <<a, b, d, e>>)
  OBVIOUS
<1>1. DOMAIN <<a, b, d, e>> = 1 .. 4 /\ \A i \in 1 .. 4 : Alt(c, <<a, b, d, e>>[i])
  OBVIOUS
<1> QED
  BY <1>1 DEF Each, Alt

LEMMA Each5 ==
    \A c, a, b, d, e, f :
        /\ Alt(c, a) /\ Alt(c, b) /\ Alt(c, d) /\ Alt(c, e) /\ Alt(c, f)
        => Each(c, <<a, b, d, e, f>>)
<1> SUFFICES ASSUME NEW c, NEW a, NEW b, NEW d, NEW e, NEW f,
                    Alt(c, a), Alt(c, b), Alt(c, d), Alt(c, e), Alt(c, f)
             PROVE  Each(c, <<a, b, d, e, f>>)
  OBVIOUS
<1>1. DOMAIN <<a, b, d, e, f>> = 1 .. 5 /\ \A i \in 1 .. 5 : Alt(c, <<a, b, d, e, f>>[i])
  OBVIOUS
<1> QED
  BY <1>1 DEF Each, Alt

LEMMA Each8 ==
    \A c, a, b, d, e, f, g, h, j :
        /\ Alt(c, a) /\ Alt(c, b) /\ Alt(c, d) /\ Alt(c, e) /\ Alt(c, f) /\ Alt(c, g)
        /\ Alt(c, h) /\ Alt(c, j)
        => Each(c, <<a, b, d, e, f, g, h, j>>)
<1> SUFFICES ASSUME NEW c, NEW a, NEW b, NEW d, NEW e, NEW f, NEW g, NEW h, NEW j,
                    Alt(c, a), Alt(c, b), Alt(c, d), Alt(c, e), Alt(c, f), Alt(c, g),
                    Alt(c, h), Alt(c, j)
             PROVE  Each(c, <<a, b, d, e, f, g, h, j>>)
  OBVIOUS
<1>1. DOMAIN <<a, b, d, e, f, g, h, j>> = 1 .. 8 /\ \A i \in 1 .. 8 : Alt(c, <<a, b, d, e, f, g, h, j>>[i])
  OBVIOUS
<1> QED
  BY <1>1 DEF Each, Alt

LEMMA Each13 ==
    \A c, a, b, d, e, f, g, h, j, k, l, m, o, u :
        /\ Alt(c, a) /\ Alt(c, b) /\ Alt(c, d) /\ Alt(c, e) /\ Alt(c, f) /\ Alt(c, g)
        /\ Alt(c, h) /\ Alt(c, j) /\ Alt(c, k) /\ Alt(c, l) /\ Alt(c, m) /\ Alt(c, o)
        /\ Alt(c, u)
        => Each(c, <<a, b, d, e, f, g, h, j, k, l, m, o, u>>)
<1> SUFFICES ASSUME NEW c, NEW a, NEW b, NEW d, NEW e, NEW f, NEW g, NEW h, NEW j, NEW k, NEW l, NEW m, NEW o, NEW u,
                    Alt(c, a), Alt(c, b), Alt(c, d), Alt(c, e), Alt(c, f), Alt(c, g),
                    Alt(c, h), Alt(c, j), Alt(c, k), Alt(c, l), Alt(c, m), Alt(c, o),
                    Alt(c, u)
             PROVE  Each(c, <<a, b, d, e, f, g, h, j, k, l, m, o, u>>)
  OBVIOUS
<1>1. DOMAIN <<a, b, d, e, f, g, h, j, k, l, m, o, u>> = 1 .. 13 /\ \A i \in 1 .. 13 : Alt(c, <<a, b, d, e, f, g, h, j, k, l, m, o, u>>[i])
  OBVIOUS
<1> QED
  BY <1>1 DEF Each, Alt

LEMMA TupleSeqs ==
    /\ \A a, b, d, e, f : IsSeq(<<a, b, d, e, f>>)
    /\ \A a, b, d, e, f, g, h, k : IsSeq(<<a, b, d, e, f, g, h, k>>)
<1>1. \A a, b, d, e, f : <<a, b, d, e, f>> \in Seq({a, b, d, e, f})
  OBVIOUS
<1>2. \A a, b, d, e, f, g, h, k : <<a, b, d, e, f, g, h, k>> \in Seq({a, b, d, e, f, g, h, k})
  OBVIOUS
<1> QED
  BY <1>1, <1>2 DEF IsSeq

LEMMA EachJoin ==
    \A c, a, b : IsSeq(a) /\ IsSeq(b) /\ Each(c, a) /\ Each(c, b) => Each(c, a \o b)
<1> SUFFICES ASSUME NEW c, NEW a, NEW b, IsSeq(a), IsSeq(b), Each(c, a), Each(c, b)
             PROVE  Each(c, a \o b)
  OBVIOUS
<1>1. /\ IsSeq(a \o b) /\ Len(a) \in Nat /\ Len(b) \in Nat
      /\ Len(a \o b) = Len(a) + Len(b)
      /\ \A i \in 1 .. Len(a) : (a \o b)[i] = a[i]
      /\ \A i \in 1 .. Len(b) : (a \o b)[Len(a) + i] = b[i]
  BY Concatenated
<1>2. DOMAIN a = 1 .. Len(a) /\ DOMAIN b = 1 .. Len(b) /\ DOMAIN (a \o b) = 1 .. Len(a \o b)
  BY <1>1, LenProperties DEF IsSeq
<1> PICK m, n \in Nat : m = Len(a) /\ n = Len(b)
  BY <1>1
<1>3. ASSUME NEW i \in 1 .. m + n PROVE Alt(c, (a \o b)[i])
  <2>1. CASE i <= m
    BY <2>1, <1>1, <1>2 DEF Each, Alt
  <2>2. CASE i > m
    <3>1. PICK k \in 1 .. n : i = m + k
      <4>1. i - m \in 1 .. n /\ i = m + (i - m)
        BY <2>2
      <4> QED
        BY <4>1
    <3> QED
      BY <3>1, <1>1, <1>2 DEF Each, Alt
  <2> QED
    BY <2>1, <2>2
<1> QED
  BY <1>1, <1>2, <1>3 DEF Each, Alt

-----------------------------------------------------------------------------
(* Functions, their ranks, and where they are called.                        *)
\* No receiver is being tried; and the function may fail without an error.
Settled(c) == Place(c) /\ c.mood = "settled"
Tame(c) == Settled(c) /\ c.f \notin Answers
Name ==
    {"type_name", "type_full", "qualified_name", "qualified_name_with_keywords", "primary",
     "block_literal", "postfix", "unary", "binary", "conditional", "assignment", "expression",
     "asm_operand", "asm_body", "compound_statement", "statement", "attributes",
     "decl_qualifiers", "raw_pragma_decl", "function_decl_or_definition", "declaration",
     "declaration_inner", "typedef", "struct_body", "enum", "interface_body", "class_interface",
     "class_implementation", "property", "method", "protocol", "forward_class", "namespace",
     "using"}

LEMMA FunctionNames == Function = Name
BY DEF Function, Program, Name

LEMMA Settle ==
    /\ \A c : Tame(c) => Settled(c) /\ c.f \notin Answers
    /\ \A c : Settled(c) => Place(c)
    /\ \A c, n, K, p : Place(c) => Place(Inner(c, n, K, p))
    /\ \A c, n, K, p : Settled(c) => Settled(Inner(c, n, K, p))
    /\ \A c, n, K, p : Tame(c) => Tame(Inner(c, n, K, p))
BY InnerFacts DEF Settled, Tame

LEMMA Callables ==
    /\ \A c, g : Settled(c) /\ g \in Name \ {"compound_statement"} => Callable(c, g)
    /\ \A c, g : Place(c) /\ g \in {"type_name", "type_full", "qualified_name"} => Callable(c, g)
<1>1. {"type_name", "type_full", "qualified_name"} \subseteq Name \ {"compound_statement"}
  BY DEF Name
<1> QED
  BY <1>1, FunctionNames DEF Settled, Callable, Place, Context, TypeFunction

LEMMA Named ==
    /\ "type_name" \in Name /\ "qualified_name_with_keywords" \in Name /\ "primary" \in Name
    /\ "block_literal" \in Name /\ "postfix" \in Name /\ "unary" \in Name /\ "binary" \in Name
    /\ "conditional" \in Name /\ "assignment" \in Name /\ "expression" \in Name
    /\ "asm_operand" \in Name /\ "asm_body" \in Name /\ "statement" \in Name /\ "attributes" \in Name
    /\ "decl_qualifiers" \in Name /\ "raw_pragma_decl" \in Name
    /\ "function_decl_or_definition" \in Name /\ "declaration" \in Name
    /\ "declaration_inner" \in Name /\ "typedef" \in Name /\ "struct_body" \in Name
    /\ "enum" \in Name /\ "class_interface" \in Name /\ "class_implementation" \in Name
    /\ "property" \in Name /\ "method" \in Name /\ "protocol" \in Name /\ "forward_class" \in Name
    /\ "namespace" \in Name /\ "using" \in Name /\ "type_full" \in Name /\ "qualified_name" \in Name
BY DEF Name

LEMMA Ranks ==
    /\ Rank("type_name") = 1 /\ Rank("postfix") = 1 /\ Rank("class_implementation") = 1
    /\ Rank("namespace") = 1 /\ Rank("type_full") = 2 /\ Rank("unary") = 2
    /\ Rank("binary") = 3 /\ Rank("typedef") = 3 /\ Rank("struct_body") = 3 /\ Rank("property") = 3
    /\ Rank("using") = 3 /\ Rank("block_literal") = 3 /\ Rank("function_decl_or_definition") = 3
    /\ Rank("conditional") = 4 /\ Rank("interface_body") = 4 /\ Rank("declaration_inner") = 4
    /\ Rank("assignment") = 5 /\ Rank("declaration") = 5 /\ Rank("expression") = 6
    /\ Rank("statement") = 7 /\ Rank("translation_unit") = 8
    /\ Rank("qualified_name") = 0 /\ Rank("qualified_name_with_keywords") = 0
    /\ Rank("primary") = 0 /\ Rank("asm_operand") = 0 /\ Rank("asm_body") = 0
    /\ Rank("compound_statement") = 0 /\ Rank("attributes") = 0 /\ Rank("decl_qualifiers") = 0
    /\ Rank("raw_pragma_decl") = 0 /\ Rank("enum") = 0 /\ Rank("class_interface") = 0
    /\ Rank("method") = 0 /\ Rank("protocol") = 0 /\ Rank("forward_class") = 0
BY DEF Rank

\* No set of kinds that a step asks for has the end of the file in it.
LEMMA NoEnd ==
    /\ "eof" \notin Ident /\ "eof" \notin match_name /\ "eof" \notin is_name_token
    /\ "eof" \notin Numeric /\ "eof" \notin SelectorPart /\ "eof" \notin UnaryOp
    /\ "eof" \notin BinaryOp /\ "eof" \notin LaterPart /\ "eof" \notin FirstPart
    /\ "eof" \notin RecoveryPoint
BY DEF Ident, match_name, is_name_token, Numeric, SelectorPart, UnaryOp, BinaryOp, LaterPart, FirstPart,
       RecoveryPoint, Qualifier, Plain, Keyword, Word, Flow, TypeWord, Storage, AtWord, AtOpener

\* A block.
LEMMA BlockLook ==
    \A c, K, p, k, n : k \subseteq First_token("compound_statement") /\ Zone(c, K, p) /\ Settled(c) /\ Passes(c, K, p, n) /\ Lower(c, "compound_statement", p)
        => Keeps(c, K, p, Look(k, <<Call("compound_statement")>>, n))
<1> SUFFICES ASSUME NEW c, NEW K, NEW p, NEW k, NEW n, k \subseteq First_token("compound_statement"),
                    Zone(c, K, p), Settled(c), Passes(c, K, p, n),
                    Lower(c, "compound_statement", p)
             PROVE  Keeps(c, K, p, Look(k, <<Call("compound_statement")>>, n))
  OBVIOUS
<1> PICK q : q = At(c.mood, K, p)
  OBVIOUS
<1> PICK t : t = Among(q, k)
  OBVIOUS
<1> PICK s : s = Returned(t, "compound_statement")
  OBVIOUS
<1>1. Mood(q) = {c.mood} /\ Stayed(q) = K /\ (Moved(q) <=> p = Past) /\ q.here = Kind
      /\ q.some = K /\ q.none = K /\ q.facts = {c.mood} \cup p
  BY AtFacts DEF At, Zone, Place
<1>2. t.here \subseteq k /\ t.some = K \cap k /\ t.none = K \cap k /\ t.facts = q.facts
  BY <1>1 DEF Among
<1>3. Mood(t) = {"settled"} /\ c.mood = "settled" /\ (p = Past => Moved(t))
  <2>1. Mood(t) = {c.mood} /\ c.mood = "settled"
    BY <1>1, <1>2 DEF Mood, Settled
  <2>2. p = Past => Moved(t)
    BY <1>1, <1>2 DEF Moved, Stayed
  <2> QED
    BY <2>1, <2>2
<1>4. "compound_statement" \in Function /\ t.here \subseteq First_token("compound_statement")
  BY <1>2, FunctionNames DEF Name
<1>5. s.here = Kind /\ s.some \subseteq K /\ s.none \subseteq K /\ {c.mood} \cup Pass(t) \subseteq s.facts
  BY <1>2, <1>3 DEF Returned, Stayed
<1>6. "past" \notin {c.mood} /\ p \subseteq Pass(t)
  BY <1>1, <1>3 DEF Context, Zone, Place, Case, Pass, Past
<1>7. Implies(s, q)
  BY <1>1, <1>5, <1>6 DEF Implies, Moved
<1>8. Fits(c, Call("compound_statement"), t, q)
  BY <1>3, <1>4, <1>7, FitsCall DEF Lower
<1>9. Implies(Without(q, k), q) /\ Implies(q, q)
  BY DEF Implies, Without, Moved, Stayed
<1>10. Chain(c, <<Call("compound_statement")>>, t, q) /\ Chain(c, n, Without(q, k), q)
  BY <1>8, <1>9, ChainOne, Weaken DEF Passes
<1> QED
  BY <1>10, FitsLook DEF Keeps

LEMMA BlockCall ==
    \A c, K, p, n : Zone(c, K, p) /\ Settled(c) /\ Passes(c, K, p, n) /\ Lower(c, "compound_statement", p)
        => Keeps(c, K, p, Look({"{"}, <<Call("compound_statement")>>, n))
BY BlockLook DEF First_token

LEMMA InnerZones ==
    /\ \A c, n : Place(c) => Zone(Inner(c, n, {}, Past), Kind, Past) /\ Zone(Inner(c, n, {}, Past), NotEnd, Past)
    /\ \A c, g : Lower(c, g, Past)
<1>1. \A c : Place(c) => Zone(c, {}, Past)
  BY DEF Zone, Case
<1>2. \A c, g : Lower(c, g, Past)
  BY DEF Lower
<1> QED
  BY <1>1, <1>2, Zones

-----------------------------------------------------------------------------
(* Types.                                                                    *)
LEMMA ArgumentsKept == \A c : Place(c) => After(c, Arguments)
<1> SUFFICES ASSUME NEW c, Place(c) PROVE After(c, Arguments)
  OBVIOUS
<1> PICK d : d = Inner(c, "type_args", {}, Past)
  OBVIOUS
<1>1. Place(d) /\ Zone(d, Kind, Past) /\ Turn(d, Past)
  BY AfterLoops, InnerZones, Settle
<1>2. Spends(d, Kind, Past, <<Call("type_full"),
                          IfOk(<<>>, <<SkipTo({",", ">"}), Look({"eof"}, <<Break>>, <<>>)>>),
                          OrBreak({","})>>)
  BY <1>1, InnerZones, KeepCall, KeepBranch, KeepSmall, KeepSkips, KeepJump, PassNone, Pass1, Pass2, Spend2, Spend3,
     Callables
<1> QED
  BY <1>2, AfterRules, AfterLoops, AfterTuple DEF Arguments

LEMMA AnglesKept == \A c : Place(c) => After(c, Angles)
<1> SUFFICES ASSUME NEW c, Place(c) PROVE After(c, Angles)
  OBVIOUS
<1> PICK d : d = Inner(c, "protocols", {}, Past)
  OBVIOUS
<1>1. Place(d) /\ Zone(d, Kind, Past) /\ Turn(d, Past)
  BY AfterLoops, InnerZones, Settle
<1>2. Spends(d, Kind, Past, <<OrBreak(Ident), OrBreak({","})>>)
  BY <1>1, KeepSmall, Spend2, NoEnd
<1> QED
  BY <1>2, AfterRules, AfterLoops, AfterTuple, ArgumentsKept DEF Angles

LEMMA ParameterTypesKept ==
    /\ \A c, K, p : Zone(c, K, p) => Keeps(c, K, p, ParameterTypes)
    /\ \A c : Place(c) => Aft(c, ParameterTypes)
<1>1. ASSUME NEW c, NEW K, NEW p, Zone(c, K, p) PROVE Keeps(c, K, p, ParameterTypes)
  <2> PICK d : d = Inner(c, "parameters", {}, Past)
    OBVIOUS
  <2>1. Place(c) /\ Place(d) /\ Zone(d, NotEnd, Past) /\ Turn(d, Past)
    BY <1>1, Zones, AfterLoops, InnerZones, Settle
  <2>2. Spends(d, NotEnd, Past, <<Call("type_full"), IfOk(<<May(is_name_token)>>, <<Skip>>), OrBreak({","})>>)
    BY <2>1, InnerZones, KeepCall, KeepBranch, KeepSmall, KeepPlain, Pass1, Spend2, Spend3, Callables, NoEnd
  <2>3. /\ Aft(c, Until({")"}, "parameters",
                        <<Call("type_full"), IfOk(<<May(is_name_token)>>, <<Skip>>), OrBreak({","})>>))
        /\ Aft(c, Need({")"})) /\ Passes(c, K, p, <<>>)
    BY <1>1, <2>1, <2>2, AfterLoops, AfterRules, PassNone
  <2> QED
    BY <1>1, <2>1, <2>3, AfterTuple, KeepBranch DEF ParameterTypes
<1>2. \A c : Place(c) => Zone(c, {}, Past)
  BY DEF Zone, Case
<1> QED
  BY <1>1, <1>2 DEF Aft

LEMMA ArraySizeKept == \A c : Place(c) => Aft(c, ArraySize)
BY AfterRules, AfterTuple, NoEnd DEF ArraySize

LEMMA DeclaratorKept == \A c : Place(c) => Aft(c, Declarator)
BY AfterRules, AfterTuple, NoEnd, ParameterTypesKept DEF Declarator

LEMMA MoreNamesKept == \A c, k : Place(c) /\ "eof" \notin k => Aft(c, MoreNames(k))
BY AfterRules, AfterLoops, AfterTuple, Settle DEF MoreNames

\* Inside the function g.
Called(c, g) == Place(c) /\ c.f = g

LEMMA CalledZone ==
    \A c, g : Called(c, g) => Zone(c, Kind, {}) /\ Place(c)
<1>1. Kind # {}
  BY DEF Kind
<1> QED
  BY <1>1 DEF Zone, Case, Called

LEMMA TypeNameObeyed == \A c : Called(c, "type_name") => Passes(c, Kind, {}, parse_type_name)
<1> SUFFICES ASSUME NEW c, Called(c, "type_name") PROVE Passes(c, Kind, {}, parse_type_name)
  OBVIOUS
<1>1. Place(c) /\ Zone(c, Kind, {}) /\ c.f \notin Answers /\ c.f \in Takes \ Opener
  BY CalledZone DEF Called, Answers, Takes, Opener
<1>2. Keeps(c, Kind, {}, While({"const", "static", "volatile", "block"}, "qualifiers", <<>>))
  BY <1>1, KeepWhile, AfterRules, Settle
<1>3. /\ Alt(c, On({"sizekw"}, <<Loop("sizes", <<Choose(<<OrBreak({"sizekw"})>>, <<Break>>)>>),
                               Choose(<<May({"basekw"})>>, <<>>), Some>>))
      /\ Alt(c, On({"basekw", "idkw"}, <<Some>>))
      /\ Alt(c, On({"struct", "enum"}, <<May(Ident), Some>>))
      /\ Alt(c, On({"typeof"}, <<Need({"("}), SkipBalanced, Need({")"}), Some>>))
  <2> PICK d : d = Inner(c, "sizes", {}, Past)
    OBVIOUS
  <2>1. Place(d) /\ Zone(d, Kind, Past) /\ Turn(d, Past)
    BY <1>1, AfterLoops, InnerZones, Settle
  <2>2. Spends(d, Kind, Past, <<Choose(<<OrBreak({"sizekw"})>>, <<Break>>)>>)
    BY <2>1, KeepSmall, KeepJump, SpendBranch, Spend1
  <2> QED
    BY <1>1, <2>2, AltOn, AfterRules, AfterLoops, AfterTuple, NoEnd
<1>4. Passes(c, Kind, {}, <<None>>) /\ After(c, <<Some>>)
  BY <1>1, KeepJump, Pass1, AfterRules, AfterTuple DEF Stays
<1>5. Lower(c, "qualified_name", {}) /\ Callable(c, "qualified_name") /\ "qualified_name" \in Takes \ Opener
  BY <1>1, Ranks, Callables DEF Lower, Called, Takes, Opener
<1>6. Passes(c, Kind, {}, <<Look(Ident, Result("qualified_name"), <<None>>)>>)
  BY <1>1, <1>4, <1>5, PassTake, KeepBranch, Pass1 DEF Result
<1> QED
  BY <1>1, <1>2, <1>3, <1>6, Each4, KeepBranch, Pass2 DEF parse_type_name

LEMMA TakeTry ==
    \A c, K, p, g :
        /\ Zone(c, K, p) /\ Callable(c, g) /\ Lower(c, g, p) /\ g \in Takes \ Opener
        /\ c.f \notin Answers /\ (p = Past \/ K \subseteq Stays(c.f, FALSE))
        => Spends(c, K, p, Try(g)) /\ Passes(c, K, p, Try(g)) /\ Passes(c, K, p, Result(g))
<1> SUFFICES ASSUME NEW c, NEW K, NEW p, NEW g,
                    Zone(c, K, p), Callable(c, g), Lower(c, g, p), g \in Takes \ Opener,
                    c.f \notin Answers, p = Past \/ K \subseteq Stays(c.f, FALSE)
             PROVE  Spends(c, K, p, Try(g)) /\ Passes(c, K, p, Try(g)) /\ Passes(c, K, p, Result(g))
  OBVIOUS
<1>1. Passes(c, K, p, <<None>>) /\ Spends(c, K, p, <<None>>)
  BY KeepJump, Pass1, Spend1
<1>2. After(c, <<>>) /\ After(c, <<Some>>)
  BY Zones, AfterRules, AfterTuple
<1> QED
  BY <1>1, <1>2, PassTake DEF Try, Result

LEMMA TypeFullObeyed == \A c : Called(c, "type_full") => Passes(c, Kind, {}, parse_type_full)
<1> SUFFICES ASSUME NEW c, Called(c, "type_full") PROVE Passes(c, Kind, {}, parse_type_full)
  OBVIOUS
<1>1. Place(c) /\ Zone(c, Kind, {}) /\ c.f \notin Answers /\ Kind \subseteq Stays(c.f, FALSE)
  BY CalledZone DEF Called, Answers, Stays, Opener
<1>2. Lower(c, "type_name", {}) /\ Callable(c, "type_name") /\ "type_name" \in Takes \ Opener
  BY <1>1, Ranks, Callables DEF Lower, Called, Takes, Opener
<1>3. Spends(c, Kind, {}, Try("type_name"))
  BY <1>1, <1>2, TakeTry
<1>4. After(c, <<Choose(<<Match({"<"}, Angles, <<>>)>>, <<>>),
      While({"*"}, "pointers", <<>>),
      Match({"("}, <<Declarator>>, <<>>),
      Some>>)
  BY <1>1, AfterRules, AfterLoops, AfterTuple, AnglesKept, DeclaratorKept, Settle
<1> QED
  BY <1>1, <1>3, <1>4, PassJoin DEF parse_type_full

LEMMA QualifiedNameObeyed ==
    /\ \A c : Called(c, "qualified_name") => Passes(c, Kind, {}, parse_qualified_name)
    /\ \A c : Called(c, "qualified_name_with_keywords")
          => Passes(c, Kind, {}, parse_qualified_name_with_keywords)
<1>1. ASSUME NEW c, NEW g, Called(c, g), g \in {"qualified_name", "qualified_name_with_keywords"}
      PROVE  Passes(c, Kind, {}, parse_qualified_name) /\ Passes(c, Kind, {}, parse_qualified_name_with_keywords)
  <2>1. Place(c) /\ Zone(c, Kind, {}) /\ c.f \notin Answers /\ Kind \subseteq Stays(c.f, FALSE)
    BY <1>1, CalledZone DEF Called, Answers, Stays, Opener
  <2>2. After(c, <<MoreNames(match_name), Some>>) /\ Passes(c, Kind, {}, <<None>>)
    BY <2>1, AfterRules, AfterTuple, MoreNamesKept, NoEnd, KeepJump, Pass1
  <2>3. "eof" \notin match_name \cup {"contextual"}
    BY NoEnd
  <2> QED
    BY <2>1, <2>2, <2>3, NoEnd, KeepBranch, Pass1 DEF parse_qualified_name, parse_qualified_name_with_keywords
<1> QED
  BY <1>1

-----------------------------------------------------------------------------
(* Expressions.                                                              *)
LEMMA CastKept == \A c : Settled(c) => After(c, Cast)
BY AfterRules, AfterTuple, Settle, Callables, Named DEF Cast

LEMMA ParenthesisedKept == \A c : Tame(c) => After(c, Parenthesised)
BY AfterRules, AfterTuple, Settle, Callables, Named, CastKept, NoEnd DEF Parenthesised

LEMMA SelectorKept == \A c : Settled(c) => After(c, Selector)
<1> SUFFICES ASSUME NEW c, Settled(c) PROVE After(c, Selector)
  OBVIOUS
<1> PICK d : d = Inner(c, "selector", {}, Past)
  OBVIOUS
<1>1. Place(c) /\ Place(d) /\ Zone(d, Kind, Past) /\ Turn(d, Past)
  BY AfterLoops, InnerZones, Settle
<1>2. Spends(d, Kind, Past, <<OrBreak(SelectorPart \ {"self", "super"}), OrBreak({":"})>>)
  BY <1>1, KeepSmall, Spend2, NoEnd
<1> QED
  BY <1>1, <1>2, AfterRules, AfterLoops, AfterTuple DEF Selector

LEMMA ElementsKept == \A c, k : Settled(c) /\ "eof" \notin k => After(c, Elements(k))
<1> SUFFICES ASSUME NEW c, NEW k, Settled(c), "eof" \notin k PROVE After(c, Elements(k))
  OBVIOUS
<1> PICK d : d = Inner(c, "elements", {}, Past)
  OBVIOUS
<1>1. Settled(d) /\ Place(d) /\ Place(c) /\ Zone(d, NotEnd, Past) /\ Turn(d, Past)
  BY AfterLoops, InnerZones, Settle
<1>2. Callable(d, "assignment") /\ Lower(d, "assignment", Past)
  BY <1>1, InnerZones, Callables, Named
<1>3. Spends(d, NotEnd, Past, <<Call("assignment"), OrBreak({","})>>)
  BY <1>1, <1>2, KeepSmall, KeepCall, Spend2
<1> QED
  BY <1>1, <1>3, AfterRules, AfterLoops, AfterTuple DEF Elements

LEMMA DictLiteralKept == \A c : Settled(c) => After(c, DictLiteral)
<1> SUFFICES ASSUME NEW c, Settled(c) PROVE After(c, DictLiteral)
  OBVIOUS
<1> PICK d : d = Inner(c, "entries", {}, Past)
  OBVIOUS
<1>1. Settled(d) /\ Place(d) /\ Place(c) /\ Zone(d, NotEnd, Past) /\ Turn(d, Past)
  BY AfterLoops, InnerZones, Settle
<1>2. Callable(d, "assignment") /\ Callable(d, "expression") /\ Lower(d, "assignment", Past)
  BY <1>1, InnerZones, Callables, Named
<1>3. After(d, <<Call("expression")>>) /\ Passes(d, NotEnd, Past, <<>>)
  BY <1>1, <1>2, AfterRules, AfterTuple, PassNone
<1>4. Spends(d, NotEnd, Past, <<Call("assignment"),
                                IfOk(<<Match({":"}, <<Call("expression")>>, <<>>)>>, <<>>),
                                OrBreak({","})>>)
  BY <1>1, <1>2, <1>3, KeepBranch, KeepSmall, KeepCall, Pass1, Spend2, Spend3
<1> QED
  BY <1>1, <1>4, AfterRules, AfterLoops, AfterTuple DEF DictLiteral

\* A receiver is read as a type, and read again when it is none.
LEMMA ReceiverKept == \A c : Settled(c) => Aft(c, Receiver)
<1> SUFFICES ASSUME NEW c, Settled(c) PROVE Aft(c, Receiver)
  OBVIOUS
<1> PICK q, t : q = Beyond(c) /\ t = Reset({"trial", "past"})
  OBVIOUS
<1> DEFINE no == <<Rewind, Call("expression")>>
           found == Look(Ident, <<Choose(<<Commit>>, no)>>, no)
           tried == <<Speculate, Call("type_full"), IfOk(<<found>>, no)>>
<1>1. /\ Place(c) /\ c.mood = "settled" /\ Callable(c, "expression")
      /\ Mood(q) = {"settled"} /\ Stayed(q) = {} /\ Implies(q, q) /\ Implies(Reset({"settled", "past"}), q)
      /\ q = At(c.mood, {}, Past)
  BY Callables, Named, Settle DEF Settled, Beyond, At, Past, Mood, Stayed, Implies, Moved, Reset
<1>2. Mood(t) = {"trial"} /\ Stayed(t) = {} /\ Implies(t, t) /\ Moved(t) /\ t.here = Kind
  BY DEF Reset, Mood, Stayed, Implies, Moved
<1>3. Chain(c, no, t, q)
  <2>1. Fits(c, Rewind, t, q)
    BY <1>1, <1>2, FitsTry
  <2>2. Fits(c, Call("expression"), q, q)
    BY <1>1, AfterRules DEF Aft, Keeps
  <2> QED
    BY <2>1, <2>2, ChainTwo
<1>4. Chain(c, <<Commit>>, t, q)
  BY <1>1, <1>2, FitsTry, ChainOne
<1> HIDE DEF no
<1>5. Implies(Among(t, Ident), t) /\ Implies(Without(t, Ident), t)
      /\ Implies(Succeeded(t), t) /\ Implies(Failed(t), t)
  BY DEF Implies, Among, Without, Succeeded, Failed, Moved, Stayed
<1>6. Chain(c, <<Choose(<<Commit>>, no)>>, t, q)
  BY <1>3, <1>4, FitsFork, ChainOne
<1>7. Chain(c, <<found>>, t, q)
  BY <1>1, <1>3, <1>5, <1>6, Weaken, FitsLook, ChainOne
<1> HIDE DEF found
<1>8. Fits(c, IfOk(<<found>>, no), t, q)
  BY <1>1, <1>3, <1>5, <1>7, Weaken, FitsIfOk
<1>9. Fits(c, Call("type_full"), t, t)
  <2>1. "type_full" \in Function /\ First_token("type_full") = Kind /\ "type_full" \in TypeFunction
    BY FunctionNames, Named DEF First_token, TypeFunction
  <2> PICK s : s = Returned(t, "type_full")
    OBVIOUS
  <2>2. s.here = Kind /\ s.some = {} /\ s.none = {} /\ {"trial", "past"} \subseteq s.facts
    BY <1>2 DEF Returned, Pass
  <2>3. t.some = {} /\ t.none = {} /\ t.facts = {"trial", "past"}
    BY DEF Reset
  <2>4. Implies(s, t)
    BY <1>2, <2>2, <2>3 DEF Implies, Moved
  <2> QED
    BY <1>2, <2>1, <2>4, FitsCall
<1>10. Fits(c, Speculate, q, t)
  BY <1>1, <1>2, FitsTry
<1>11. Chain(c, tried, q, q)
  <2>1. Chain(c, <<Speculate>>, q, t) /\ Chain(c, <<Call("type_full"), IfOk(<<found>>, no)>>, t, q)
    BY <1>8, <1>9, <1>10, ChainOne, ChainTwo
  <2>2. Chain(c, <<Speculate>> \o <<Call("type_full"), IfOk(<<found>>, no)>>, q, q)
    BY <2>1, ChainJoin
  <2>3. tried = <<Speculate>> \o <<Call("type_full"), IfOk(<<found>>, no)>>
    BY Split3
  <2> QED
    BY <2>2, <2>3
<1>12. After(c, tried) /\ After(c, <<Call("expression")>>)
  BY <1>1, <1>11, AfterRules, AfterTuple DEF After, Passes
<1>13. Aft(c, Look(Ident, tried, <<Call("expression")>>))
  BY <1>12, AfterRules
<1> QED
  BY <1>13 DEF Receiver, found, no

LEMMA MessageSendKept == \A c : Settled(c) => After(c, MessageSend)
<1> SUFFICES ASSUME NEW c, Settled(c) PROVE After(c, MessageSend)
  OBVIOUS
<1>1. \A d : Settled(d) => Callable(d, "assignment") /\ Place(d)
  BY Callables, Named, Settle
<1>2. \A d : Settled(d) =>
        After(d, <<Match({":"}, <<Call("assignment"),
                             While({","}, "variadic", <<Look({"]"}, <<Break>>, <<>>),
                                                        Call("assignment")>>)>>, <<>>)>>)
  BY <1>1, AfterRules, AfterLoops, AfterTuple, Settle
<1> QED
  BY <1>1, <1>2, ReceiverKept, AfterRules, AfterLoops, AfterTuple, Settle, NoEnd DEF MessageSend

LEMMA PrimaryObeyed == \A c : Called(c, "primary") /\ Settled(c) => Passes(c, Kind, {}, parse_primary)
<1> SUFFICES ASSUME NEW c, Called(c, "primary"), Settled(c) PROVE Passes(c, Kind, {}, parse_primary)
  OBVIOUS
<1>1. Place(c) /\ Zone(c, Kind, {}) /\ c.f \notin Answers /\ Kind \subseteq Stays(c.f, FALSE) /\ Tame(c)
  BY CalledZone DEF Called, Answers, Stays, Opener, Tame
<1>2. Passes(c, Kind, {}, <<None>>)
  BY <1>1, KeepJump, Pass1
<1>3. /\ Callable(c, "primary") /\ Callable(c, "block_literal") /\ Callable(c, "type_full")
      /\ "eof" \notin {"]"} /\ "eof" \notin {"}"}
  BY Callables, Named
<1>4. /\ Alt(c, On({"extension"}, Result("primary")))
      /\ Alt(c, On(Ident, <<MoreNames(match_name), Some>>))
      /\ Alt(c, On({"idkw", "contextual", "self", "super", "value", "number", "literal"}, <<Some>>))
      /\ Alt(c, On({"string"}, <<While({"string"}, "strings", <<>>), Some>>))
      /\ Alt(c, On({"@protocol"}, <<Need({"("}), May(Ident), Need({")"}), Some>>))
      /\ Alt(c, On({"@encode"}, <<Need({"("}), Call("type_full"), Need({")"}), Some>>))
      /\ Alt(c, On({"^"}, Result("block_literal")))
  BY <1>1, <1>3, AltOn, AfterRules, AfterLoops, AfterTuple, AfterCalls, MoreNamesKept, NoEnd, Settle
<1>5. /\ Alt(c, On({"@selector"}, Selector))
      /\ Alt(c, On({"("}, Parenthesised))
      /\ Alt(c, On({"@["}, Elements({"]"})))
      /\ Alt(c, On({"["}, MessageSend))
      /\ Alt(c, On({"{"}, parse_init_list_or_dict))
      /\ Alt(c, On({"@{"}, DictLiteral))
  BY <1>1, <1>3, AltOn, SelectorKept, ParenthesisedKept, ElementsKept, MessageSendKept, DictLiteralKept
     DEF parse_init_list_or_dict
<1> QED
  BY <1>1, <1>2, <1>4, <1>5, Each13, KeepBranch, Pass1 DEF parse_primary

LEMMA BlockLiteralObeyed ==
    \A c : Called(c, "block_literal") /\ Settled(c) => Passes(c, Kind, {}, parse_block_literal)
<1> SUFFICES ASSUME NEW c, Called(c, "block_literal"), Settled(c) PROVE Passes(c, Kind, {}, parse_block_literal)
  OBVIOUS
<1>1. Place(c) /\ Zone(c, Kind, {}) /\ Kind \subseteq Stays(c.f, TRUE)
  BY CalledZone DEF Called, Stays, Opener, Takes
<1>2. /\ Callable(c, "type_name") /\ Lower(c, "type_name", {})
      /\ Callable(c, "type_full") /\ Lower(c, "type_full", {}) /\ Lower(c, "compound_statement", {})
  BY Callables, Named, Ranks DEF Lower, Called
<1>3. Passes(c, Kind, {}, <<>>)
  BY <1>1, PassNone
<1>4. Keeps(c, Kind, {}, Look({"basekw", "sizekw", "idkw"}, <<Call("type_name")>>,
           <<Look(Ident, <<Call("type_full")>>, <<>>)>>))
  BY <1>1, <1>2, <1>3, KeepCall, KeepBranch, Pass1
<1>5. Keeps(c, Kind, {}, ParameterTypes)
  BY <1>1, ParameterTypesKept
<1>6. Keeps(c, Kind, {}, Look({"{"}, <<Call("compound_statement")>>, <<>>))
  BY <1>1, <1>2, <1>3, BlockCall
<1>7. Keeps(c, Kind, {}, Some)
  BY <1>1, KeepJump
<1> QED
  BY <1>1, <1>4, <1>5, <1>6, <1>7, Pass4 DEF parse_block_literal

LEMMA CallArgumentsKept == \A c : Settled(c) => After(c, CallArguments)
<1> SUFFICES ASSUME NEW c, Settled(c) PROVE After(c, CallArguments)
  OBVIOUS
<1> PICK d : d = Inner(c, "arguments", {}, Past)
  OBVIOUS
<1>1. Settled(d) /\ Place(d) /\ Place(c) /\ Zone(d, NotEnd, Past) /\ Turn(d, Past)
  BY AfterLoops, InnerZones, Settle
<1>2. Callable(d, "assignment") /\ Callable(d, "type_full") /\ \A g : Lower(d, g, Past)
  BY <1>1, InnerZones, Callables, Named
<1>3. After(d, <<OrBreak({","}), Continue>>) /\ Passes(d, NotEnd, Past, <<>>)
  BY <1>1, AfterRules, AfterTuple, PassNone
<1>4. Passes(d, NotEnd, Past, <<Call("type_full"), IfOk(<<OrBreak({","}), Continue>>, <<>>)>>)
  <2>1. "type_full" \in Takes \ Opener
    BY DEF Takes, Opener
  <2> QED
    BY <1>1, <1>2, <1>3, <2>1, PassTake
<1>5. Spends(d, NotEnd, Past,
            <<Look(is_builtin_type_arg_start,
                   <<Call("type_full"), IfOk(<<OrBreak({","}), Continue>>, <<>>)>>, <<>>),
              Call("assignment"), OrBreak({","})>>)
  BY <1>1, <1>2, <1>3, <1>4, KeepBranch, KeepSmall, KeepCall, Pass1, Spend2, Spend3
<1> QED
  BY <1>1, <1>5, AfterRules, AfterLoops, AfterTuple DEF CallArguments

\* What the functions of expressions have in common: they fail or take a token.
LEMMA Taking ==
    \A c, g, h : Called(c, g) /\ Settled(c) /\ g \notin Opener \cup Answers /\ h \in Takes \cap Name
                 /\ h \notin Opener \cup {"compound_statement"} /\ Rank(h) < Rank(g)
        => /\ Tame(c) /\ Place(c) /\ Zone(c, Kind, {}) /\ Kind \subseteq Stays(g, FALSE)
           /\ Callable(c, h) /\ Lower(c, h, {})
           /\ Spends(c, Kind, {}, Try(h)) /\ Passes(c, Kind, {}, Result(h))
<1> SUFFICES ASSUME NEW c, NEW g, NEW h, Called(c, g), Settled(c), g \notin Opener \cup Answers, h \in Takes \cap Name,
                    h \notin Opener \cup {"compound_statement"}, Rank(h) < Rank(g)
             PROVE  /\ Tame(c) /\ Place(c) /\ Zone(c, Kind, {}) /\ Kind \subseteq Stays(g, FALSE)
                    /\ Callable(c, h) /\ Lower(c, h, {})
                    /\ Spends(c, Kind, {}, Try(h)) /\ Passes(c, Kind, {}, Result(h))
  OBVIOUS
<1>1. Tame(c) /\ Place(c) /\ Zone(c, Kind, {}) /\ Kind \subseteq Stays(g, FALSE) /\ c.f = g
  BY CalledZone DEF Called, Tame, Stays
<1>2. Callable(c, h) /\ Lower(c, h, {})
  BY <1>1, Callables DEF Lower
<1> QED
  BY <1>1, <1>2, TakeTry DEF Tame

LEMMA PostfixObeyed == \A c : Called(c, "postfix") /\ Settled(c) => Passes(c, Kind, {}, parse_postfix)
<1> SUFFICES ASSUME NEW c, Called(c, "postfix"), Settled(c) PROVE Passes(c, Kind, {}, parse_postfix)
  OBVIOUS
<1>1. /\ "postfix" \notin Opener \cup Answers /\ "primary" \in Takes \cap Name
      /\ "primary" \notin Opener \cup {"compound_statement"} /\ Rank("primary") < Rank("postfix")
  BY Ranks, Named DEF Opener, Answers, Takes
<1>2. Tame(c) /\ Place(c) /\ Zone(c, Kind, {}) /\ Spends(c, Kind, {}, Try("primary"))
  BY <1>1, Taking
<1> PICK d : d = Inner(c, "postfix", {}, Past)
  OBVIOUS
<1>3. Settled(d) /\ Place(d) /\ Zone(d, Kind, Past) /\ Turn(d, Past) /\ Callable(d, "expression")
  BY <1>2, AfterLoops, InnerZones, Settle, Callables, Named
<1>4. /\ Alt(d, On({"::", "."}, <<OrBreak(match_name)>>))
      /\ Alt(d, On({"["}, <<Call("expression"), Need({"]"})>>))
      /\ Alt(d, On({"("}, CallArguments))
      /\ Alt(d, On({"++"}, <<>>))
  BY <1>3, AltOn, AfterRules, AfterTuple, CallArgumentsKept, NoEnd
<1>5. Spends(d, Kind, Past, <<Break>>)
  BY <1>3, KeepJump, Spend1
<1>6. After(c, <<Loop("postfix", <<Cases(<<On({"::", "."}, <<OrBreak(match_name)>>),
                                On({"["}, <<Call("expression"), Need({"]"})>>),
                                On({"("}, CallArguments),
                                On({"++"}, <<>>)>>, <<Break>>)>>),
      Some>>)
  BY <1>2, <1>3, <1>4, <1>5, Each4, SpendBranch, Spend1, AfterRules, AfterLoops, AfterTuple
<1> QED
  BY <1>2, <1>6, PassJoin DEF parse_postfix

LEMMA UnaryObeyed == \A c : Called(c, "unary") /\ Settled(c) => Passes(c, Kind, {}, parse_unary)
<1> SUFFICES ASSUME NEW c, Called(c, "unary"), Settled(c) PROVE Passes(c, Kind, {}, parse_unary)
  OBVIOUS
<1>1. /\ "unary" \notin Opener \cup Answers /\ "postfix" \in Takes \cap Name
      /\ "postfix" \notin Opener \cup {"compound_statement"} /\ Rank("postfix") < Rank("unary")
  BY Ranks, Named DEF Opener, Answers, Takes
<1>2. Tame(c) /\ Place(c) /\ Zone(c, Kind, {}) /\ Passes(c, Kind, {}, Result("postfix")) /\ c.f \notin Answers
  BY <1>1, Taking DEF Tame
<1>3. Callable(c, "unary") /\ Callable(c, "type_full") /\ Callable(c, "expression")
  BY Callables, Named
<1>4. After(c, Sizeof)
  BY <1>2, <1>3, AfterRules, AfterTuple DEF Sizeof
<1>5. /\ Alt(c, On(UnaryOp, Try("unary") \o <<Some>>))
      /\ Alt(c, On({"sizeof"}, <<Match({"("}, Sizeof, <<>>)>>))
      /\ Alt(c, On({"alignof"}, <<Match({"("}, <<Call("type_full"), IfOk(<<Need({")"}), Some>>, <<>>)>>,
                                      <<>>)>>))
  BY <1>2, <1>3, <1>4, AltOn, AfterRules, AfterTuple, AfterCalls, NoEnd
<1>6. Passes(c, Kind, {}, <<>>)
  BY <1>2, PassNone
<1> QED
  BY <1>2, <1>5, <1>6, Each3, KeepBranch, Pass1, PassJoin DEF parse_unary

LEMMA BinaryObeyed == \A c : Called(c, "binary") /\ Settled(c) => Passes(c, Kind, {}, parse_binary)
<1> SUFFICES ASSUME NEW c, Called(c, "binary"), Settled(c) PROVE Passes(c, Kind, {}, parse_binary)
  OBVIOUS
<1>1. /\ "binary" \notin Opener \cup Answers /\ "unary" \in Takes \cap Name
      /\ "unary" \notin Opener \cup {"compound_statement"} /\ Rank("unary") < Rank("binary")
  BY Ranks, Named DEF Opener, Answers, Takes
<1>2. Tame(c) /\ Place(c) /\ Zone(c, Kind, {}) /\ Spends(c, Kind, {}, Try("unary"))
  BY <1>1, Taking
<1>3. \A d : Tame(d) => After(d, Try("unary"))
  BY Settle, Callables, Named, AfterCalls
<1>4. After(c, <<While(BinaryOp, "operators", Try("unary")), Some>>)
  BY <1>2, <1>3, Settle, NoEnd, AfterRules, AfterLoops, AfterTuple
<1> QED
  BY <1>2, <1>4, PassJoin DEF parse_binary

LEMMA ConditionalObeyed ==
    \A c : Called(c, "conditional") /\ Settled(c) => Passes(c, Kind, {}, parse_conditional)
<1> SUFFICES ASSUME NEW c, Called(c, "conditional"), Settled(c) PROVE Passes(c, Kind, {}, parse_conditional)
  OBVIOUS
<1>1. /\ "conditional" \notin Opener \cup Answers /\ "binary" \in Takes \cap Name
      /\ "binary" \notin Opener \cup {"compound_statement"} /\ Rank("binary") < Rank("conditional")
  BY Ranks, Named DEF Opener, Answers, Takes
<1>2. Tame(c) /\ Place(c) /\ Zone(c, Kind, {}) /\ Spends(c, Kind, {}, Try("binary"))
  BY <1>1, Taking
<1>3. After(c, Try("expression")) /\ After(c, Try("conditional"))
  BY <1>2, Settle, Callables, Named, AfterCalls
<1>4. After(c, Try("expression") \o <<Need({":"})>> \o Try("conditional"))
  BY <1>2, <1>3, AfterRules, AfterTuple
<1>5. After(c, <<Match({"?"}, Try("expression") \o <<Need({":"})>> \o Try("conditional"), <<>>), Some>>)
  BY <1>2, <1>4, AfterRules, AfterTuple
<1> QED
  BY <1>2, <1>5, PassJoin DEF parse_conditional

LEMMA AssignmentObeyed ==
    \A c : Called(c, "assignment") /\ Settled(c) => Passes(c, Kind, {}, parse_assignment)
<1> SUFFICES ASSUME NEW c, Called(c, "assignment"), Settled(c) PROVE Passes(c, Kind, {}, parse_assignment)
  OBVIOUS
<1>1. /\ "assignment" \notin Opener \cup Answers /\ "conditional" \in Takes \cap Name
      /\ "conditional" \notin Opener \cup {"compound_statement"} /\ Rank("conditional") < Rank("assignment")
  BY Ranks, Named DEF Opener, Answers, Takes
<1>2. Tame(c) /\ Place(c) /\ Zone(c, Kind, {}) /\ Spends(c, Kind, {}, Try("conditional"))
  BY <1>1, Taking
<1>3. After(c, Try("assignment"))
  BY <1>2, Settle, Callables, Named, AfterCalls
<1>4. After(c, <<Match({"=", "assignop"}, Try("assignment"), <<>>), Some>>)
  BY <1>2, <1>3, AfterRules, AfterTuple
<1> QED
  BY <1>2, <1>4, PassJoin DEF parse_assignment

LEMMA ExpressionObeyed ==
    \A c : Called(c, "expression") /\ Settled(c) => Passes(c, Kind, {}, parse_expression)
<1> SUFFICES ASSUME NEW c, Called(c, "expression"), Settled(c) PROVE Passes(c, Kind, {}, parse_expression)
  OBVIOUS
<1>1. /\ "expression" \notin Opener \cup Answers /\ "assignment" \in Takes \cap Name
      /\ "assignment" \notin Opener \cup {"compound_statement"} /\ Rank("assignment") < Rank("expression")
  BY Ranks, Named DEF Opener, Answers, Takes
<1>2. Tame(c) /\ Place(c) /\ Zone(c, Kind, {}) /\ Spends(c, Kind, {}, Try("assignment"))
  BY <1>1, Taking
<1> PICK d : d = Inner(c, "commas", {}, Past)
  OBVIOUS
<1>3. Settled(d) /\ Place(d) /\ Zone(d, Kind, Past) /\ Turn(d, Past) /\ Callable(d, "assignment")
  BY <1>2, AfterLoops, InnerZones, Settle, Callables, Named
<1>4. Passes(d, Kind, Past, <<>>) /\ Passes(d, Kind, Past, <<Break>>)
  BY <1>3, PassNone, KeepJump, Pass1
<1>5. Spends(d, Kind, Past, <<Call("assignment"), IfOk(<<>>, <<Break>>), OrBreak({","})>>)
  BY <1>3, <1>4, KeepBranch, KeepCall, KeepSmall, Pass1, Spend2, Spend3 DEF Lower
<1>6. After(c, <<Match({","}, <<Loop("commas", <<Call("assignment"), IfOk(<<>>, <<Break>>), OrBreak({","})>>)>>,
            <<>>),
      Some>>)
  BY <1>2, <1>5, AfterRules, AfterLoops, AfterTuple
<1> QED
  BY <1>2, <1>6, PassJoin DEF parse_expression

-----------------------------------------------------------------------------
(* Statements.                                                               *)
\* A function may return None where a token was consumed, or its contract allows it.
MayFail(c, K, p) == p = Past \/ K \subseteq Stays(c.f, FALSE)

LEMMA PassAnswer ==
    \A c, K, p, g, y :
        /\ Zone(c, K, p) /\ Callable(c, g) /\ Lower(c, g, p) /\ g \in Answers \cap Takes /\ After(c, y)
        /\ MayFail(c, K, p)
        => /\ Passes(c, K, p, <<Call(g), IfOk(y, <<None>>)>>)
           /\ Spends(c, K, p, <<Call(g), IfOk(y, <<None>>)>>)
<1>1. ASSUME NEW c, NEW K, NEW p, NEW g, NEW y, NEW r,
             Zone(c, K, p), Callable(c, g), Lower(c, g, p), g \in Answers \cap Takes, After(c, y), MayFail(c, K, p),
             Implies(Beyond(c), r)
      PROVE  Goes(c, K, p, r, <<Call(g), IfOk(y, <<None>>)>>)
  BY <1>1, GoesAnswer DEF MayFail
<1> QED
  BY <1>1, ZoneFacts DEF Passes, Spends, Goes

\* A function that answers is called at the token it begins with.
LEMMA AnswerLook ==
    \A c, K, p, g, k, n :
        /\ Zone(c, K, p) /\ Settled(c) /\ Lower(c, g, p) /\ g \in Answers \cap Name
        /\ k \subseteq First_token(g) /\ "eof" \notin k
        /\ MayFail(c, K, p) /\ Passes(c, K, p, n)
        => Keeps(c, K, p, Look(k, Result(g), n))
<1> SUFFICES ASSUME NEW c, NEW K, NEW p, NEW g, NEW k, NEW n,
                    Zone(c, K, p), Settled(c), Lower(c, g, p), g \in Answers \cap Name,
                    k \subseteq First_token(g), "eof" \notin k,
                    MayFail(c, K, p), Passes(c, K, p, n)
             PROVE  Keeps(c, K, p, Look(k, Result(g), n))
  OBVIOUS
<1> PICK q : q = At(c.mood, K, p)
  OBVIOUS
<1> PICK t : t = Among(q, k)
  OBVIOUS
<1> PICK s : s = Returned(t, g)
  OBVIOUS
<1>1. Mood(q) = {c.mood} /\ Stayed(q) = K /\ (Moved(q) <=> p = Past) /\ q.here = Kind
      /\ q.some = K /\ q.none = K /\ q.facts = {c.mood} \cup p
  BY AtFacts DEF At, Zone, Place
<1>2. t.here \subseteq k /\ t.some = K \cap k /\ t.none = K \cap k /\ t.facts = q.facts
  BY <1>1 DEF Among
<1>3. /\ Mood(t) = {"settled"} /\ c.mood = "settled" /\ Stayed(t) = K \cap k
      /\ (p = Past => Moved(t))
  <2>1. Mood(t) = {c.mood} /\ c.mood = "settled"
    BY <1>1, <1>2 DEF Mood, Settled
  <2>2. p = Past => Moved(t)
    BY <1>1, <1>2 DEF Moved, Stayed
  <2>3. Stayed(t) = K \cap k
    BY <1>2 DEF Stayed
  <2> QED
    BY <2>1, <2>2, <2>3
<1>4. g \in Function /\ t.here \subseteq First_token(g)
  BY <1>2, FunctionNames
<1>5. Stays(g, TRUE) \subseteq {"eof"}
  BY DEF Stays, Answers, Opener, Takes
<1>6. s.here = Kind /\ s.some = {} /\ s.none \subseteq K /\ s.facts = {c.mood} \cup Pass(t) \cup {"answered"}
  BY <1>3, <1>5 DEF Returned
<1>7. p \subseteq Pass(t) /\ (p = Past => Pass(t) = Past) /\ c.f \in Function
  BY <1>1, <1>3 DEF Context, Zone, Place, Case, Pass, Past
<1>8. Implies(s, s) /\ Implies(q, q) /\ Implies(Without(q, k), q)
  BY DEF Implies, Without, Moved, Stayed
<1>9. Fits(c, Call(g), t, s)
  BY <1>3, <1>4, <1>8, FitsCall DEF Lower
<1>10. Chain(c, <<Some>>, Succeeded(s), q)
  <2> PICK u : u = Succeeded(s)
    OBVIOUS
  <2>1. Stayed(u) = {} /\ u.facts = s.facts
    BY <1>6 DEF Succeeded, Stayed
  <2>2. Mood(u) = {c.mood} /\ Moved(u)
    BY <1>3, <1>6, <2>1 DEF Mood, Pass, Moved
  <2> QED
    BY <1>7, <2>2, FitsReturn, ChainOne
<1>11. Chain(c, <<None>>, Failed(s), q)
  <2> PICK u : u = Failed(s)
    OBVIOUS
  <2>1. u.some = {} /\ u.none = s.none /\ u.facts = s.facts \cup {"blamed"}
    BY <1>6 DEF Failed
  <2>2. Mood(u) = {c.mood}
    BY <1>3, <1>6, <2>1 DEF Mood, Pass
  <2>3. Moved(u) \/ Stayed(u) \subseteq Stays(c.f, FALSE)
    BY <1>6, <1>7, <2>1 DEF Moved, Stayed, Past, MayFail
  <2>4. Fits(c, None, u, q)
    BY <1>7, <2>1, <2>2, <2>3, FitsReturn
  <2> QED
    BY <2>4, ChainOne
<1>12. Chain(c, Result(g), t, q)
  BY <1>9, <1>10, <1>11, FitsIfOk, ChainTwo DEF Result
<1>13. Chain(c, n, Without(q, k), q)
  BY <1>8, Weaken DEF Passes
<1> QED
  BY <1>12, <1>13, FitsLook DEF Keeps

LEMMA KeepLookNot ==
    \A c, p, k, y, n :
        /\ Zone(c, Kind, p) /\ "eof" \notin k /\ Passes(c, NotEnd, p, y) /\ Passes(c, Kind, p, n)
        => Keeps(c, Kind, p, Look(k, y, n))
<1> SUFFICES ASSUME NEW c, NEW p, NEW k, NEW y, NEW n,
                    Zone(c, Kind, p), "eof" \notin k, Passes(c, NotEnd, p, y), Passes(c, Kind, p, n)
             PROVE  Keeps(c, Kind, p, Look(k, y, n))
  OBVIOUS
<1> PICK q, t : q = At(c.mood, Kind, p) /\ t = At(c.mood, NotEnd, p)
  OBVIOUS
<1>1. Implies(t, q) /\ Implies(q, q) /\ Implies(Without(q, k), q)
  BY SameAt DEF NotEnd, Implies, Without, Moved, Stayed
<1>2. Implies(Among(q, k), t)
  BY DEF Implies, Among, Moved, Stayed, At, NotEnd
<1>3. Chain(c, y, Among(q, k), q) /\ Chain(c, n, Without(q, k), q)
  BY <1>1, <1>2, Weaken DEF Passes
<1> QED
  BY <1>3, FitsLook DEF Keeps

\* The end of a statement: that it fails is blamed on the missing semicolon.
LEMMA PassEnd ==
    \A c, K, p, g :
        /\ Zone(c, K, p) /\ Callable(c, g) /\ Lower(c, g, p) /\ g \in Takes \ (Opener \cup Answers)
        /\ MayFail(c, K, p)
        => Passes(c, K, p, <<Call(g), Need({";"}), IfOk(<<Some>>, <<None>>)>>)
<1> SUFFICES ASSUME NEW c, NEW K, NEW p, NEW g,
                    Zone(c, K, p), Callable(c, g), Lower(c, g, p), g \in Takes \ (Opener \cup Answers),
                    MayFail(c, K, p)
             PROVE  Passes(c, K, p, <<Call(g), Need({";"}), IfOk(<<Some>>, <<None>>)>>)
  OBVIOUS
<1> PICK q : q = At(c.mood, K, p)
  OBVIOUS
<1>1. Mood(q) = {c.mood} /\ Stayed(q) = K /\ (Moved(q) <=> p = Past) /\ q.here = Kind
  BY AtFacts DEF At, Zone, Place
<1> PICK s : s = Returned(q, g)
  OBVIOUS
<1> PICK k : k = {";"}
  OBVIOUS
<1> PICK u : u = [here |-> Kind, some |-> {}, none |-> s.none, facts |-> s.facts \cup Blame]
  OBVIOUS
<1>2. First_token(g) = Kind /\ g \in Function /\ Stays(g, TRUE) = {}
  BY DEF Callable, First_token, Stays
<1>3. s.here = Kind /\ s.some = {} /\ s.none \subseteq K /\ s.facts = {c.mood} \cup Pass(q)
  BY <1>1, <1>2 DEF Returned
<1>4. c.mood \in {"trial", "settled"} /\ (p = Past => Pass(q) = Past) /\ Pass(q) \subseteq Past /\ c.f \in Function
  BY <1>1 DEF Context, Zone, Place, Pass, Past
<1>5. Implies(s, s)
  BY DEF Implies, Moved
<1>6. Fits(c, Call(g), q, s)
  BY <1>1, <1>2, <1>5, FitsCall DEF Callable, Lower, Zone
<1>7. Fits(c, Need(k), s, u)
  <2>1. u.here = Kind /\ u.some = {} /\ u.none = s.none /\ u.facts = {c.mood} \cup Pass(q) \cup Blame
    BY <1>3
  <2>2. Mood(s) = {c.mood}
    BY <1>3, <1>4 DEF Mood, Past
  <2>3. Implies(Consumed(s, k), u)
    <3> PICK v : v = Consumed(s, k)
      OBVIOUS
    <3>1. v.here = Kind /\ v.some = {} /\ v.none = {} /\ {c.mood, "past"} \cup Blame \subseteq v.facts
      BY <2>2 DEF Consumed
    <3> QED
      BY <1>4, <2>1, <3>1 DEF Implies, Moved, Past
  <2>4. Implies(Reported(Without(s, k)), u)
    <3> PICK v : v = Reported(Without(s, k))
      OBVIOUS
    <3>1. v.here \subseteq Kind /\ v.some = {} /\ v.none \subseteq s.none /\ v.facts = s.facts \cup Blame
      BY <1>3 DEF Reported, With, Without
    <3> QED
      BY <1>3, <2>1, <3>1 DEF Implies, Moved
  <2>5. "eof" \notin k
    OBVIOUS
  <2> QED
    BY <2>3, <2>4, <2>5, FitsNeed
<1>8. u.some = {} /\ u.none \subseteq K /\ u.facts = {c.mood} \cup Pass(q) \cup {"answered", "blamed"}
  BY <1>3 DEF Blame
<1>9. Chain(c, <<Some>>, Succeeded(u), q)
  <2> PICK v : v = Succeeded(u)
    OBVIOUS
  <2>1. Stayed(v) = {} /\ v.facts = u.facts
    BY <1>8 DEF Succeeded, Stayed
  <2>2. Mood(v) = {c.mood} /\ Moved(v)
    BY <1>4, <1>8, <2>1 DEF Mood, Past, Moved
  <2> QED
    BY <1>4, <2>2, FitsReturn, ChainOne
<1>10. Chain(c, <<None>>, Failed(u), q)
  <2> PICK v : v = Failed(u)
    OBVIOUS
  <2>1. v.some = {} /\ v.none = u.none /\ v.facts = u.facts
    BY <1>8 DEF Failed
  <2>2. Mood(v) = {c.mood}
    BY <1>4, <1>8, <2>1 DEF Mood, Past
  <2>4. "blamed" \in v.facts
    BY <1>8, <2>1
  <2>3. Moved(v) \/ Stayed(v) \subseteq Stays(c.f, FALSE)
    BY <1>4, <1>8, <2>1 DEF Moved, Stayed, Past, MayFail
  <2> QED
    BY <1>4, <2>2, <2>3, <2>4, FitsReturn, ChainOne
<1>11. Chain(c, <<Call(g)>>, q, s) /\ Chain(c, <<Need(k), IfOk(<<Some>>, <<None>>)>>, s, q)
  BY <1>6, <1>7, <1>9, <1>10, FitsIfOk, ChainOne, ChainTwo
<1>12. Chain(c, <<Call(g)>> \o <<Need(k), IfOk(<<Some>>, <<None>>)>>, q, q)
  BY <1>11, ChainJoin
<1>13. <<Call(g), Need(k), IfOk(<<Some>>, <<None>>)>> = <<Call(g)>> \o <<Need(k), IfOk(<<Some>>, <<None>>)>>
  BY Split3
<1> QED
  BY <1>12, <1>13 DEF Passes

LEMMA AsmOperandObeyed ==
    \A c : Called(c, "asm_operand") /\ Settled(c) => Passes(c, Kind, {}, parse_asm_operand)
<1> SUFFICES ASSUME NEW c, Called(c, "asm_operand"), Settled(c) PROVE Passes(c, Kind, {}, parse_asm_operand)
  OBVIOUS
<1>1. Place(c) /\ Zone(c, Kind, {}) /\ Kind \subseteq Stays(c.f, FALSE) /\ Callable(c, "expression")
  BY CalledZone, Callables, Named DEF Called, Stays, Opener
<1>2. Keeps(c, Kind, {}, Match({"["}, <<May(Ident), Need({"]"})>>, <<>>))
  BY <1>1, PassNone, AfterRules, AfterTuple, KeepBranch, NoEnd
<1>3. Spends(c, Kind, {}, <<Error, None>>) /\ After(c, <<>>) /\ After(c, <<Error, None>>)
  BY <1>1, PassNone, AfterRules
<1>4. Spend(c, Kind, {}, Match({"string"}, <<>>, <<Error, None>>))
  BY <1>1, <1>3, SpendBranch
<1>5. Spends(c, Kind, {}, <<Match({"["}, <<May(Ident), Need({"]"})>>, <<>>),
                           Match({"string"}, <<>>, <<Error, None>>)>>)
  BY <1>2, <1>4, Spend2
<1>6. After(c, <<Need({"("}), Call("expression"), IfOk(<<>>, <<Error, None>>), Need({")"}), Some>>)
  BY <1>1, <1>3, AfterRules, AfterTuple
<1> QED
  BY <1>1, <1>5, <1>6, Join7at2, PassJoin DEF parse_asm_operand

LEMMA AsmOperandsKept ==
    \A c, item : Place(c) /\ Passes(Inner(c, "operands", {}, Past), Kind, Past, item)
        => Aft(c, AsmOperands(item))
<1> SUFFICES ASSUME NEW c, NEW item, Place(c), Passes(Inner(c, "operands", {}, Past), Kind, Past, item)
             PROVE  Aft(c, AsmOperands(item))
  OBVIOUS
<1> PICK d : d = Inner(c, "operands", {}, Past)
  OBVIOUS
<1>1. Place(d) /\ Zone(d, Kind, Past) /\ Turn(d, Past)
  BY AfterLoops, InnerZones, Settle
<1>2. Spends(d, Kind, Past, item \o <<OrBreak({","})>>)
  BY <1>1, KeepSmall, Spend1, PassJoin
<1> QED
  BY <1>2, AfterLoops DEF AsmOperands

LEMMA AsmBodyObeyed == \A c : Called(c, "asm_body") /\ Settled(c) => Passes(c, Kind, {}, parse_asm_body)
<1> SUFFICES ASSUME NEW c, Called(c, "asm_body"), Settled(c) PROVE Passes(c, Kind, {}, parse_asm_body)
  OBVIOUS
<1>1. Place(c) /\ Zone(c, Kind, {}) /\ Kind \subseteq Stays(c.f, FALSE)
  BY CalledZone DEF Called, Stays, Opener
<1>2. Keeps(c, Kind, {}, May({"volatile"})) /\ Keeps(c, Kind, {}, May({"goto"})) /\ Keeps(c, Kind, {}, Need({"("}))
  BY <1>1, KeepSmall, KeepPlain
<1>3. /\ Spends(c, Kind, {}, <<Error, None>>)
      /\ After(c, <<While({"string"}, "template", <<>>)>>)
  BY <1>1, PassNone, AfterRules, AfterLoops, AfterTuple, Settle
<1>4. Spend(c, Kind, {}, Match({"string"}, <<While({"string"}, "template", <<>>)>>, <<Error, None>>))
  BY <1>1, <1>3, SpendBranch
<1>5. Spends(c, Kind, {}, <<May({"volatile"}), May({"goto"}), Need({"("}),
                           Match({"string"}, <<While({"string"}, "template", <<>>)>>, <<Error, None>>)>>)
  BY <1>1, <1>2, <1>4, Pass2, Spend2, Spend4
<1> PICK d : d = Inner(c, "sections", {}, Past)
  OBVIOUS
<1> PICK e : e = Inner(d, "operands", {}, Past)
  OBVIOUS
<1>6. /\ Place(d) /\ Turn(d, Past) /\ Settled(e) /\ Place(e) /\ Zone(e, Kind, Past) /\ Lower(e, "asm_operand", Past)
      /\ MayFail(e, Kind, Past)
  BY <1>1, AfterLoops, InnerZones, Settle DEF MayFail
<1>7. Passes(e, Kind, Past, Try("asm_operand"))
  <2>1. Callable(e, "asm_operand") /\ "asm_operand" \in Answers \cap Takes /\ After(e, <<>>)
    BY <1>6, Callables, Named, AfterRules DEF Answers, Takes
  <2> QED
    BY <1>6, <2>1, PassAnswer DEF Try
<1>8. Passes(e, Kind, Past, parse_asm_clobbers) /\ Passes(e, Kind, Past, parse_asm_labels)
  <2>1. Passes(e, Kind, Past, <<Error, None>>) /\ After(e, <<>>)
    BY <1>6, PassNone, AfterRules
  <2> QED
    BY <1>6, <2>1, KeepBranch, Pass1, NoEnd DEF parse_asm_clobbers, parse_asm_labels
<1>9. After(d, <<Look({":"}, <<Continue>>, <<>>),
              Choose(<<AsmOperands(Try("asm_operand"))>>,
                     <<Choose(<<AsmOperands(parse_asm_clobbers)>>,
                              <<Choose(<<AsmOperands(parse_asm_labels)>>, <<Break>>)>>)>>)>>)
  BY <1>6, <1>7, <1>8, AsmOperandsKept, AfterRules, AfterTuple
<1>10. After(c, <<While({":"}, "sections",
            <<Look({":"}, <<Continue>>, <<>>),
              Choose(<<AsmOperands(Try("asm_operand"))>>,
                     <<Choose(<<AsmOperands(parse_asm_clobbers)>>,
                              <<Choose(<<AsmOperands(parse_asm_labels)>>, <<Break>>)>>)>>)>>),
      Need({")"}), Need({";"}), Some>>)
  BY <1>1, <1>9, AfterRules, AfterLoops, AfterTuple
<1> QED
  BY <1>1, <1>5, <1>10, Join8at4, PassJoin DEF parse_asm_body

LEMMA DeclarationStart ==
    \A c, K, p, y, n : Passes(c, K, p, y) /\ Passes(c, K, p, n)
        => Keeps(c, K, p, is_declaration_start(y, n))
BY KeepBranch, Pass1 DEF is_declaration_start

LEMMA BodyKept == \A c : Settled(c) => After(c, Condition) /\ After(c, Body)
BY Settle, Callables, Named, AfterRules, AfterTuple DEF Condition, Body

LEMMA ForKept == \A c : Settled(c) => After(c, For)
<1> SUFFICES ASSUME NEW c, Settled(c) PROVE After(c, For)
  OBVIOUS
<1>1. Place(c) /\ Callable(c, "expression") /\ Callable(c, "declaration")
  BY Settle, Callables, Named
<1>2. After(c, <<Call("declaration")>>) /\ After(c, <<Call("expression"), Need({";"})>>)
      /\ After(c, <<Call("expression"), Need({")"})>>) /\ After(c, <<>>)
  BY <1>1, AfterRules, AfterTuple
<1>3. Aft(c, is_declaration_start(<<Call("declaration")>>, <<Call("expression"), Need({";"})>>))
  BY <1>2, DeclarationStart DEF Aft, After
<1>4. After(c, <<Need({"("}),
      Match({";"}, <<>>, <<is_declaration_start(<<Call("declaration")>>,
                                                <<Call("expression"), Need({";"})>>)>>),
      Match({";"}, <<>>, <<Call("expression"), Need({";"})>>),
      Match({")"}, <<>>, <<Call("expression"), Need({")"})>>)>>)
  BY <1>1, <1>2, <1>3, AfterRules, AfterTuple
<1> QED
  BY <1>4, BodyKept, AfterRules DEF For

LEMMA TryCatchKept == \A c : Settled(c) => After(c, TryCatch)
<1> SUFFICES ASSUME NEW c, Settled(c) PROVE After(c, TryCatch)
  OBVIOUS
<1>1. \A d : Settled(d) => Place(d) /\ Callable(d, "statement") /\ Callable(d, "type_full")
  BY Settle, Callables, Named
<1>2. \A d : Settled(d) =>
        After(d, <<Match({"("}, <<Call("type_full"), May(Ident), Need({")"})>>, <<>>), Call("statement")>>)
  BY <1>1, AfterRules, AfterTuple, NoEnd
<1> QED
  BY <1>1, <1>2, AfterRules, AfterLoops, AfterTuple, Settle DEF TryCatch

LEMMA StatementObeyed == \A c : Called(c, "statement") /\ Settled(c) => Passes(c, Kind, {}, parse_statement)
<1> SUFFICES ASSUME NEW c, Called(c, "statement"), Settled(c) PROVE Passes(c, Kind, {}, parse_statement)
  OBVIOUS
<1>1. /\ Place(c) /\ Zone(c, Kind, {}) /\ Zone(c, NotEnd, {}) /\ MayFail(c, Kind, {})
      /\ c.f = "statement"
  BY CalledZone, Zones DEF Called, Stays, Opener, MayFail
<1>2. /\ Lower(c, "raw_pragma_decl", {}) /\ Lower(c, "compound_statement", {})
      /\ Lower(c, "attributes", {}) /\ Lower(c, "declaration", {}) /\ Lower(c, "expression", {})
  BY <1>1, Ranks DEF Lower
<1>3. /\ Callable(c, "attributes") /\ Callable(c, "declaration") /\ Callable(c, "expression")
      /\ Callable(c, "statement") /\ Callable(c, "asm_body")
  BY Callables, Named
<1>4. After(c, <<Some>>) /\ After(c, <<>>) /\ Passes(c, Kind, {}, <<>>) /\ Passes(c, NotEnd, {}, <<>>)
  BY <1>1, AfterRules, AfterTuple, PassNone
<1>5. Keeps(c, Kind, {}, Look({"pragma"}, Result("raw_pragma_decl"), <<>>))
  <2>1. "raw_pragma_decl" \in Answers \cap Name /\ {"pragma"} \subseteq First_token("raw_pragma_decl")
    BY Named DEF Answers, First_token, Kind, Keyword
  <2> QED
    BY <1>1, <1>2, <1>4, <2>1, AnswerLook
<1>6. Keeps(c, Kind, {}, Look({"{"}, Result("compound_statement"), <<>>))
  <2>1. "compound_statement" \in Answers \cap Name /\ {"{"} \subseteq First_token("compound_statement")
    BY DEF Answers, First_token, Name
  <2> QED
    BY <1>1, <1>2, <1>4, <2>1, AnswerLook
<1>7. Keeps(c, Kind, {}, Look(Ident, <<Ahead({":"}, <<Skip, Need({":"}), Some>>, <<>>)>>, <<>>))
  <2>1. Spend(c, NotEnd, {}, Skip) /\ After(c, <<Need({":"}), Some>>)
    BY <1>1, SpendSkip, AfterRules, AfterTuple DEF NotEnd
  <2>2. Spends(c, NotEnd, {}, <<Skip>> \o <<Need({":"}), Some>>)
    BY <2>1, Spend1, PassJoin
  <2>3. <<Skip>> \o <<Need({":"}), Some>> = <<Skip, Need({":"}), Some>>
    BY Split3
  <2>4. Passes(c, NotEnd, {}, <<Skip, Need({":"}), Some>>)
    BY <1>1, <2>2, <2>3, PassJoin
  <2>5. Passes(c, NotEnd, {}, <<Ahead({":"}, <<Skip, Need({":"}), Some>>, <<>>)>>)
    BY <1>4, <2>4, KeepBranch, Pass1
  <2> QED
    BY <1>1, <1>4, <2>5, KeepLookNot, NoEnd
<1>8. Each(c, Jumps)
  <2>1. After(c, Result("asm_body"))
    <3>1. "asm_body" \in Answers \cap Takes
      BY DEF Answers, Takes
    <3> QED
      BY <1>1, <1>3, <3>1, AfterCalls
  <2> QED
    BY <1>1, <1>3, <2>1, AltOn, Each5, AfterRules, AfterTuple, NoEnd DEF Jumps
<1> DEFINE blocks ==
        <<On({"if"}, Condition \o <<Call("statement"), Match({"else"}, <<Call("statement")>>, <<>>), Some>>),
          On({"while", "switch", "@synchronized"}, Condition \o Body),
          On({"do"}, <<Call("statement"), Need({"while"})>> \o Condition \o <<Need({";"}), Some>>),
          On({"for"}, For),
          On({"case"}, <<Call("expression"), Need({":"})>> \o Body),
          On({"default"}, <<Need({":"})>> \o Body),
          On({"@try"}, TryCatch),
          On({"@pool"}, Body)>>
<1>9. Each(c, blocks)
  BY <1>1, <1>3, AltOn, Each8, AfterRules, AfterTuple, BodyKept, ForKept, TryCatchKept
<1>10. Keeps(c, Kind, {}, Cases(Jumps \o blocks, <<>>))
  <2>1. IsSeq(blocks) /\ IsSeq(Jumps)
    BY TupleSeqs DEF Jumps
  <2> HIDE DEF blocks
  <2>2. Each(c, Jumps \o blocks)
    BY <1>8, <1>9, <2>1, EachJoin
  <2> QED
    BY <1>1, <1>4, <2>2, KeepBranch
<1>11. Keeps(c, Kind, {}, Look({"attr"}, <<Call("attributes")>>, <<>>))
  BY <1>1, <1>2, <1>3, <1>4, KeepCall, KeepBranch, Pass1
<1>12. Keeps(c, Kind, {}, is_declaration_start(<<Call("declaration"), IfOk(<<Some>>, <<>>)>>, <<>>))
  <2>1. "declaration" \in Takes \ Opener
    BY DEF Takes, Opener
  <2>2. Passes(c, Kind, {}, <<Call("declaration"), IfOk(<<Some>>, <<>>)>>)
    BY <1>1, <1>2, <1>3, <1>4, <2>1, PassTake
  <2> QED
    BY <1>4, <2>2, DeclarationStart
<1>13. Passes(c, Kind, {}, <<Call("expression"), Need({";"}), IfOk(<<Some>>, <<None>>)>>)
  <2>1. "expression" \in Takes \ (Opener \cup Answers)
    BY DEF Takes, Opener, Answers
  <2> QED
    BY <1>1, <1>2, <1>3, <2>1, PassEnd
<1>14. Passes(c, Kind, {}, <<Look({"pragma"}, Result("raw_pragma_decl"), <<>>),
        Look(Ident, <<Ahead({":"}, <<Skip, Need({":"}), Some>>, <<>>)>>, <<>>),
        Cases(Jumps \o blocks, <<>>),
        Look({"{"}, Result("compound_statement"), <<>>),
        Look({"attr"}, <<Call("attributes")>>, <<>>),
        is_declaration_start(<<Call("declaration"), IfOk(<<Some>>, <<>>)>>, <<>>)>>)
  BY <1>1, <1>5, <1>6, <1>7, <1>10, <1>11, <1>12, Pass6
<1> QED
  BY <1>13, <1>14, Join9at6 DEF parse_statement

-----------------------------------------------------------------------------
(* Declarations.                                                             *)
\* A function that begins by skipping its keyword: that the token stays is the end of the file.
LEMMA SkipFirst ==
    \A c, t : Place(c) =>
        /\ Passes(c, {"eof"}, {}, t) => Passes(c, Kind, {}, <<Skip>> \o t)
        /\ Spends(c, {"eof"}, {}, t) => Spends(c, Kind, {}, <<Skip>> \o t)
<1> SUFFICES ASSUME NEW c, NEW t, Place(c)
             PROVE  /\ Passes(c, {"eof"}, {}, t) => Passes(c, Kind, {}, <<Skip>> \o t)
                    /\ Spends(c, {"eof"}, {}, t) => Spends(c, Kind, {}, <<Skip>> \o t)
  OBVIOUS
<1> PICK k : k = {"eof"}
  OBVIOUS
<1>1. k \subseteq Kind /\ k # {}
  BY DEF Kind
<1>2. Zone(c, Kind, {}) /\ Zone(c, k, {})
  BY <1>1 DEF Zone, Case, Place
<1> PICK q, r : q = At(c.mood, Kind, {}) /\ r = At(c.mood, k, {})
  OBVIOUS
<1>3. Mood(q) = {c.mood} /\ q.here = Kind /\ q.some = Kind /\ q.none = Kind /\ q.facts = {c.mood}
  BY <1>2, AtFacts DEF Zone, Place, At
<1>4. r.here = Kind /\ r.some = k /\ r.none = k /\ r.facts = {c.mood}
  BY DEF At
<1>5. Implies(Consumed(q, Kind), r)
  BY <1>2, <1>3, ConsumedAt, ZoneFacts, ImpliesTrans DEF Zone, Place
<1>6. Implies(Among(q, k), r)
  BY <1>1, <1>3, <1>4 DEF Among, Implies, Moved, Stayed
<1>7. Chain(c, <<Skip>>, q, r)
  BY <1>5, <1>6, FitsSkip, ChainOne
<1>8. Implies(r, q) /\ Implies(q, q) /\ Implies(Beyond(c), Beyond(c))
  BY <1>1, <1>2, SameAt, ZoneFacts
<1>9. Passes(c, k, {}, t) => Passes(c, Kind, {}, <<Skip>> \o t)
  <2>1. ASSUME Chain(c, t, r, r) PROVE Chain(c, <<Skip>> \o t, q, r)
    BY <1>7, <2>1, ChainJoin
  <2> QED
    BY <2>1, <1>8, Weaken DEF Passes
<1>10. Spends(c, k, {}, t) => Spends(c, Kind, {}, <<Skip>> \o t)
  BY <1>7, ChainJoin DEF Spends
<1> QED
  BY <1>9, <1>10

LEMMA OpensTuple ==
    \A c : Place(c) =>
        /\ \A a, b : Passes(c, {"eof"}, {}, <<a, b>>) => Passes(c, Kind, {}, <<Skip, a, b>>)
        /\ \A a, b, d : Passes(c, {"eof"}, {}, <<a, b, d>>) => Passes(c, Kind, {}, <<Skip, a, b, d>>)
        /\ \A a, b, d, e : Spends(c, {"eof"}, {}, <<a, b, d, e>>) => Spends(c, Kind, {}, <<Skip, a, b, d, e>>)
        /\ \A a, b, d, e, f, g : Spends(c, {"eof"}, {}, <<a, b, d, e, f, g>>)
              => Spends(c, Kind, {}, <<Skip, a, b, d, e, f, g>>)
<1> SUFFICES ASSUME NEW c, Place(c)
    PROVE
        /\ \A a, b : Passes(c, {"eof"}, {}, <<a, b>>) => Passes(c, Kind, {}, <<Skip, a, b>>)
        /\ \A a, b, d : Passes(c, {"eof"}, {}, <<a, b, d>>) => Passes(c, Kind, {}, <<Skip, a, b, d>>)
        /\ \A a, b, d, e : Spends(c, {"eof"}, {}, <<a, b, d, e>>) => Spends(c, Kind, {}, <<Skip, a, b, d, e>>)
        /\ \A a, b, d, e, f, g : Spends(c, {"eof"}, {}, <<a, b, d, e, f, g>>)
              => Spends(c, Kind, {}, <<Skip, a, b, d, e, f, g>>)
  OBVIOUS
<1> PICK k, s : k = {"eof"} /\ s = Skip
  OBVIOUS
<1>0. \A t : /\ Passes(c, k, {}, t) => Passes(c, Kind, {}, <<s>> \o t)
             /\ Spends(c, k, {}, t) => Spends(c, Kind, {}, <<s>> \o t)
  BY SkipFirst
<1>1. ASSUME NEW a, NEW b, Passes(c, k, {}, <<a, b>>) PROVE Passes(c, Kind, {}, <<s, a, b>>)
  <2>1. <<s, a, b>> = <<s>> \o <<a, b>>
    BY Split3
  <2> QED
    BY <1>0, <1>1, <2>1
<1>2. ASSUME NEW a, NEW b, NEW d, Passes(c, k, {}, <<a, b, d>>) PROVE Passes(c, Kind, {}, <<s, a, b, d>>)
  <2>1. <<s, a, b, d>> = <<s>> \o <<a, b, d>>
    BY Split4at1
  <2> QED
    BY <1>0, <1>2, <2>1
<1>3. ASSUME NEW a, NEW b, NEW d, NEW e, Spends(c, k, {}, <<a, b, d, e>>)
      PROVE  Spends(c, Kind, {}, <<s, a, b, d, e>>)
  <2>1. <<s, a, b, d, e>> = <<s>> \o <<a, b, d, e>>
    BY Split5at1
  <2> QED
    BY <1>0, <1>3, <2>1
<1>4. ASSUME NEW a, NEW b, NEW d, NEW e, NEW f, NEW g, Spends(c, k, {}, <<a, b, d, e, f, g>>)
      PROVE  Spends(c, Kind, {}, <<s, a, b, d, e, f, g>>)
  <2>1. <<s, a, b, d, e, f, g>> = <<s>> \o <<a, b, d, e, f, g>>
    BY Split7at1
  <2> QED
    BY <1>0, <1>4, <2>1
<1> QED
  BY <1>1, <1>2, <1>3, <1>4

LEMMA AttributesObeyed == \A c : Called(c, "attributes") => Passes(c, Kind, {}, parse_attributes)
<1> SUFFICES ASSUME NEW c, Called(c, "attributes") PROVE Passes(c, Kind, {}, parse_attributes)
  OBVIOUS
<1>1. Place(c) /\ Zone(c, Kind, {}) /\ Kind \subseteq Stays(c.f, TRUE)
  BY CalledZone DEF Called, Stays, Opener, Takes
<1> PICK d : d = Inner(c, "attributes", Kind, {})
  OBVIOUS
<1>2. Place(d) /\ Turn(d, Past)
  BY <1>1, TurnFacts, InnerFacts
<1>3. After(d, <<OrBreak({"("}), OrBreak({"("}), SkipBalanced, May({")"}), May({")"})>>)
  BY <1>2, AfterRules, AfterLoops, AfterTuple
<1> QED
  BY <1>1, <1>3, KeepWhile, KeepJump, Pass2 DEF parse_attributes

LEMMA DeclQualifiersObeyed ==
    \A c : Called(c, "decl_qualifiers") => Passes(c, Kind, {}, parse_decl_qualifiers)
<1> SUFFICES ASSUME NEW c, Called(c, "decl_qualifiers") PROVE Passes(c, Kind, {}, parse_decl_qualifiers)
  OBVIOUS
<1>1. Place(c) /\ Zone(c, Kind, {}) /\ Kind \subseteq Stays(c.f, TRUE)
  BY CalledZone DEF Called, Stays, Opener, Takes
<1> PICK d : d = Inner(c, "qualifiers", Kind, {})
  OBVIOUS
<1>2. Place(d) /\ After(d, <<>>)
  BY <1>1, InnerFacts, AfterRules
<1> QED
  BY <1>1, <1>2, KeepWhile, KeepJump, Pass2 DEF parse_decl_qualifiers

LEMMA RawPragmaObeyed ==
    \A c : Called(c, "raw_pragma_decl") => Passes(c, Kind, {}, parse_raw_pragma_decl)
<1> SUFFICES ASSUME NEW c, Called(c, "raw_pragma_decl") PROVE Passes(c, Kind, {}, parse_raw_pragma_decl)
  OBVIOUS
<1> PICK k : k = {"eof"}
  OBVIOUS
<1>1. Place(c) /\ Zone(c, k, {}) /\ k \subseteq Stays(c.f, TRUE)
  <2>1. k \subseteq Kind /\ k # {}
    BY DEF Kind
  <2> QED
    BY <2>1, CalledZone DEF Called, Stays, Opener, Zone, Case
<1> PICK d : d = Inner(c, "line", k, {})
  OBVIOUS
<1>2. Zone(d, NotEnd, {}) /\ Turn(d, {}) /\ "eof" \notin NotEnd
  BY <1>1, Zones, TurnFacts DEF NotEnd
<1>3. Spends(d, NotEnd, {}, <<Break>>) /\ Spends(d, NotEnd, {}, <<Skip>>)
  BY <1>2, KeepJump, SpendSkip, Spend1
<1>4. Keeps(c, k, {}, Until({}, "line", <<Choose(<<Break>>, <<Skip>>)>>))
  BY <1>1, <1>3, SpendBranch, Spend1, KeepUntil
<1>5. Until({}, "line", <<Choose(<<Break>>, <<Skip>>)>>)
        = Loop("line", <<Look({"eof"}, <<Break>>, <<>>), Choose(<<Break>>, <<Skip>>)>>)
  BY Split2 DEF Until
<1>6. Passes(c, k, {}, <<Loop("line", <<Look({"eof"}, <<Break>>, <<>>), Choose(<<Break>>, <<Skip>>)>>), Some>>)
  BY <1>1, <1>4, <1>5, KeepJump, Pass2
<1> QED
  BY <1>1, <1>6, OpensTuple DEF parse_raw_pragma_decl

\* A function that may fail or succeed without a token, called where it is called.
Free(g) == g \in Name \ (Opener \cup Takes \cup Answers)
LEMMA FreeFacts ==
    \A c, g : Called(c, g) /\ Settled(c) /\ Free(g) =>
        /\ Tame(c) /\ Place(c) /\ Zone(c, Kind, {}) /\ c.f = g
        /\ Kind \subseteq Stays(c.f, TRUE) /\ Kind \subseteq Stays(c.f, FALSE) /\ c.f \notin Answers
BY CalledZone DEF Called, Tame, Stays, Free

LEMMA FunctionObeyed ==
    \A c : Called(c, "function_decl_or_definition") /\ Settled(c)
        => Passes(c, Kind, {}, parse_function_decl_or_definition)
<1> SUFFICES ASSUME NEW c, Called(c, "function_decl_or_definition"), Settled(c)
             PROVE  Passes(c, Kind, {}, parse_function_decl_or_definition)
  OBVIOUS
<1>1. /\ Tame(c) /\ Place(c) /\ Zone(c, Kind, {}) /\ c.f = "function_decl_or_definition"
      /\ Kind \subseteq Stays(c.f, TRUE)
  <2>1. Free("function_decl_or_definition")
    BY Named DEF Free, Opener, Takes, Answers
  <2> QED
    BY <2>1, FreeFacts
<1> PICK d : d = Inner(c, "parameters", Kind, {})
  OBVIOUS
<1>2. Settled(d) /\ Place(d) /\ Zone(d, NotEnd, {}) /\ Turn(d, Past) /\ d.f = c.f /\ "eof" \notin NotEnd
  <2>1. "eof" \notin NotEnd
    BY DEF NotEnd
  <2>2. Zone(d, NotEnd, {}) /\ Turn(d, Past) /\ d.f = c.f
    BY <1>1, Zones, TurnFacts, InnerFacts
  <2> QED
    BY <2>1, <2>2, Settle
<1>3. /\ Callable(d, "type_full") /\ Callable(d, "attributes") /\ Callable(c, "attributes")
      /\ Lower(d, "type_full", {}) /\ Lower(c, "attributes", {}) /\ Lower(c, "compound_statement", {})
  BY <1>1, <1>2, Callables, Named, Ranks DEF Lower
<1>4. Keeps(d, NotEnd, {}, Match({"..."}, <<Break>>, <<>>))
  BY <1>2, KeepBranch, PassNone, AfterRules, AfterTuple
<1>5. Spends(d, NotEnd, {}, <<Call("type_full"),
              IfOk(<<Match(is_name_token, <<ArraySize>>, <<>>), Call("attributes")>>, <<Skip>>)>>)
  <2>1. "type_full" \in Takes \ Opener
    BY DEF Takes, Opener
  <2>2. After(d, <<Match(is_name_token, <<ArraySize>>, <<>>), Call("attributes")>>)
    BY <1>2, <1>3, AfterRules, AfterTuple, ArraySizeKept, NoEnd
  <2>3. Spends(d, NotEnd, {}, <<Skip>>)
    BY <1>2, SpendSkip, Spend1
  <2> QED
    BY <1>2, <1>3, <2>1, <2>2, <2>3, PassTake
<1>6. After(d, <<OrBreak({","})>>)
  BY <1>2, AfterRules, AfterTuple
<1>7. Spends(d, NotEnd, {}, <<Match({"..."}, <<Break>>, <<>>), Call("type_full"),
              IfOk(<<Match(is_name_token, <<ArraySize>>, <<>>), Call("attributes")>>, <<Skip>>),
              OrBreak({","})>>)
  BY <1>4, <1>5, <1>6, Pass1, Spend3, Join4at3
<1>8. Keeps(c, Kind, {}, Look({"{"}, <<Call("compound_statement")>>, <<Need({";"})>>))
  BY <1>1, <1>3, BlockCall, KeepPlain, Pass1, Settle
<1> QED
  BY <1>1, <1>3, <1>7, <1>8, KeepPlain, KeepUntil, KeepCall, KeepJump, Pass6
     DEF parse_function_decl_or_definition

LEMMA VariablesKept == \A c : Settled(c) => Aft(c, Initializer) /\ After(c, Variables)
<1> SUFFICES ASSUME NEW c, Settled(c) PROVE Aft(c, Initializer) /\ After(c, Variables)
  OBVIOUS
<1>1. \A d : Settled(d) => Place(d) /\ Aft(d, Initializer)
  BY Settle, Callables, Named, AfterRules, AfterTuple DEF Initializer
<1> PICK d : d = Inner(c, "declarators", {}, Past)
  OBVIOUS
<1>2. Settled(d) /\ Place(d) /\ Place(c) /\ Zone(d, Kind, Past) /\ Turn(d, Past)
  BY AfterLoops, InnerZones, Settle
<1>3. Spends(d, Kind, Past, <<OrBreak(Ident), Initializer, OrBreak({","})>>)
  BY <1>1, <1>2, AfterRules, AfterTuple, KeepSmall, Spend1, Join3at1, NoEnd
<1>4. Aft(c, Match({","}, <<Loop("declarators", <<OrBreak(Ident), Initializer, OrBreak({","})>>)>>, <<>>))
  BY <1>2, <1>3, AfterRules, AfterLoops, AfterTuple
<1> QED
  BY <1>1, <1>2, <1>4, AfterRules, AfterTuple, ArraySizeKept DEF Variables

LEMMA FunctionOrVariablesKept == \A c : Tame(c) => After(c, FunctionOrVariables)
<1> SUFFICES ASSUME NEW c, Tame(c) PROVE After(c, FunctionOrVariables)
  OBVIOUS
<1>1. Settled(c) /\ Place(c) /\ c.f \notin Answers /\ Callable(c, "function_decl_or_definition")
  BY Settle, Callables, Named
<1> QED
  BY <1>1, AfterRules, AfterTuple, AfterCalls, VariablesKept DEF FunctionOrVariables

LEMMA StructKept == \A c : Tame(c) => After(c, StructRest) /\ After(c, Struct)
<1> SUFFICES ASSUME NEW c, Tame(c) PROVE After(c, StructRest) /\ After(c, Struct)
  OBVIOUS
<1>1. Settled(c) /\ Place(c) /\ c.f \notin Answers
  BY Settle
<1>2. /\ Callable(c, "struct_body") /\ Callable(c, "attributes") /\ Callable(c, "decl_qualifiers")
      /\ Callable(c, "qualified_name_with_keywords")
  BY <1>1, Callables, Named
<1>3. After(c, <<Call("attributes"), Need({";"}), Some>>)
  BY <1>1, <1>2, AfterRules, AfterTuple
<1>4. After(c, StructRest)
  BY <1>1, <1>2, <1>3, AfterRules, AfterCalls DEF StructRest
<1>5. Place(Inner(c, "pointers", {}, Past)) /\ After(Inner(c, "pointers", {}, Past), <<>>)
  BY <1>1, InnerFacts, AfterRules
<1>6. After(c, <<Look({"{"}, StructRest, <<>>), Match({";"}, <<Some>>, <<>>),
                 While({"*"}, "pointers", <<>>), Call("decl_qualifiers")>>)
  BY <1>1, <1>2, <1>4, <1>5, AfterRules, AfterLoops, AfterTuple
<1>7. After(c, Try("qualified_name_with_keywords") \o FunctionOrVariables)
  BY <1>1, <1>2, AfterRules, AfterCalls, FunctionOrVariablesKept
<1>8. After(c, <<Look({"{"}, StructRest, <<>>), Match({";"}, <<Some>>, <<>>),
                 While({"*"}, "pointers", <<>>), Call("decl_qualifiers")>>
               \o Try("qualified_name_with_keywords") \o FunctionOrVariables)
  BY <1>1, <1>2, <1>6, AfterRules, AfterCalls, FunctionOrVariablesKept
<1> QED
  BY <1>1, <1>4, <1>8, AfterRules, AfterTuple, NoEnd DEF Struct

LEMMA DeclarationObeyed ==
    \A c : Called(c, "declaration") /\ Settled(c) => Passes(c, Kind, {}, parse_declaration)
<1> SUFFICES ASSUME NEW c, Called(c, "declaration"), Settled(c) PROVE Passes(c, Kind, {}, parse_declaration)
  OBVIOUS
<1>1. /\ "declaration" \notin Opener \cup Answers /\ "declaration_inner" \in Takes \cap Name
      /\ "declaration_inner" \notin Opener \cup {"compound_statement"}
      /\ Rank("declaration_inner") < Rank("declaration")
  BY Ranks, Named DEF Opener, Answers, Takes
<1>2. Zone(c, Kind, {}) /\ Passes(c, Kind, {}, Result("declaration_inner"))
  BY <1>1, Taking
<1>3. Callable(c, "attributes") /\ Lower(c, "attributes", {})
  BY Callables, Named, Ranks DEF Lower, Called
<1> QED
  BY <1>2, <1>3, KeepCall, Pass1, PassJoin DEF parse_declaration

LEMMA OpenerLook ==
    \A c, K, p, k, g : Zone(c, K, p) /\ Tame(c) /\ g \in Opener /\ Lower(c, g, p) /\ "eof" \notin k
        => Keeps(c, K, p, Look(k, Result(g), <<>>))
<1> SUFFICES ASSUME NEW c, NEW K, NEW p, NEW k, NEW g, Zone(c, K, p), Tame(c), g \in Opener, Lower(c, g, p),
                    "eof" \notin k
             PROVE  Keeps(c, K, p, Look(k, Result(g), <<>>))
  OBVIOUS
<1>1. Settled(c) /\ Place(c) /\ c.f \notin Answers
  BY Settle
<1>2. Callable(c, g)
  <2>1. g \in Name \ {"compound_statement"}
    BY DEF Opener, Name
  <2> QED
    BY <1>1, <2>1, Callables
<1>3. Aft(c, IfOk(<<Some>>, <<None>>)) /\ Passes(c, K, p, <<>>)
  BY <1>1, AfterRules, AfterTuple, PassNone
<1> PICK r : r = At(c.mood, K, p)
  OBVIOUS
<1>4. Does(c, K, p, r, Look(k, <<Call(g), IfOk(<<Some>>, <<None>>)>>, <<>>))
  BY <1>1, <1>2, <1>3, DoesOpener, ZoneFacts DEF Goes, Passes
<1> QED
  BY <1>4 DEF Does, Keeps, Result

LEMMA DeclarationInnerObeyed ==
    \A c : Called(c, "declaration_inner") /\ Settled(c) => Passes(c, Kind, {}, parse_declaration_inner)
<1> SUFFICES ASSUME NEW c, Called(c, "declaration_inner"), Settled(c)
             PROVE  Passes(c, Kind, {}, parse_declaration_inner)
  OBVIOUS
<1>1. /\ Tame(c) /\ Place(c) /\ Zone(c, Kind, {}) /\ c.f = "declaration_inner" /\ c.f \notin Answers
      /\ Kind \subseteq Stays(c.f, FALSE)
  BY CalledZone DEF Called, Tame, Stays, Opener, Answers
<1>2. /\ Callable(c, "declaration_inner") /\ Callable(c, "asm_body") /\ Callable(c, "attributes")
      /\ Callable(c, "typedef") /\ Callable(c, "enum") /\ Callable(c, "decl_qualifiers")
      /\ Callable(c, "type_full") /\ Callable(c, "qualified_name_with_keywords")
  BY Callables, Named
<1>3. /\ Lower(c, "decl_qualifiers", {}) /\ Lower(c, "type_full", {})
      /\ \A g \in Opener : Lower(c, g, {})
  BY <1>1, Ranks DEF Lower, Opener
<1>4. Keeps(c, Kind, {}, Cases(<<On({"extension"}, Result("declaration_inner")),
              On({"asm"}, Result("asm_body")),
              On({"typedef"}, <<Call("attributes")>> \o Result("typedef")),
              On({"struct"}, Struct),
              On({"enum"}, Result("enum"))>>, <<>>))
  BY <1>1, <1>2, AltOn, Each5, KeepBranch, PassNone, AfterRules, AfterTuple, AfterCalls, StructKept
<1>5. /\ Keeps(c, Kind, {}, Look({"pragma"}, Result("raw_pragma_decl"), <<>>))
      /\ Keeps(c, Kind, {}, Look({"@interface"}, Result("class_interface"), <<>>))
      /\ Keeps(c, Kind, {}, Look({"@implementation"}, Result("class_implementation"), <<>>))
      /\ Keeps(c, Kind, {}, Look({"@protocol"}, Result("protocol"), <<>>))
      /\ Keeps(c, Kind, {}, Look({"@class"}, Result("forward_class"), <<>>))
      /\ Keeps(c, Kind, {}, Look({"@namespace"}, Result("namespace"), <<>>))
      /\ Keeps(c, Kind, {}, Look({"@using"}, Result("using"), <<>>))
  <2>1. /\ "raw_pragma_decl" \in Opener /\ "class_interface" \in Opener /\ "class_implementation" \in Opener
        /\ "protocol" \in Opener /\ "forward_class" \in Opener /\ "namespace" \in Opener /\ "using" \in Opener
    BY DEF Opener
  <2> QED
    BY <1>1, <1>3, <2>1, OpenerLook
<1>6. Spends(c, Kind, {}, <<Call("type_full"), IfOk(<<>>, <<Match(Ident, <<>>, <<None>>)>>)>>)
  <2>1. "type_full" \in Takes \ Opener
    BY DEF Takes, Opener
  <2>2. After(c, <<>>) /\ Spends(c, Kind, {}, <<Match(Ident, <<>>, <<None>>)>>)
    BY <1>1, AfterRules, KeepJump, SpendBranch, Spend1, NoEnd
  <2> QED
    BY <1>1, <1>2, <1>3, <2>1, <2>2, PassTake
<1>7. After(c, <<Call("attributes"), Choose(<<>>, Try("qualified_name_with_keywords"))>>)
  BY <1>1, <1>2, AfterRules, AfterTuple, AfterCalls
<1>8. Spends(c, Kind, {}, <<Call("decl_qualifiers"),
        Call("type_full"), IfOk(<<>>, <<Match(Ident, <<>>, <<None>>)>>),
        Call("attributes"), Choose(<<>>, Try("qualified_name_with_keywords"))>>)
  BY <1>1, <1>2, <1>3, <1>6, <1>7, KeepCall, Pass1, Spend3, Join5at3
<1>9. Passes(c, Kind, {}, <<Cases(<<On({"extension"}, Result("declaration_inner")),
              On({"asm"}, Result("asm_body")),
              On({"typedef"}, <<Call("attributes")>> \o Result("typedef")),
              On({"struct"}, Struct),
              On({"enum"}, Result("enum"))>>, <<>>),
      Look({"pragma"}, Result("raw_pragma_decl"), <<>>),
      Look({"@interface"}, Result("class_interface"), <<>>),
      Look({"@implementation"}, Result("class_implementation"), <<>>),
      Look({"@protocol"}, Result("protocol"), <<>>),
      Look({"@class"}, Result("forward_class"), <<>>),
      Look({"@namespace"}, Result("namespace"), <<>>),
      Look({"@using"}, Result("using"), <<>>)>>)
  BY <1>1, <1>4, <1>5, Pass8
<1> QED
  BY <1>1, <1>8, <1>9, Join13at8, FunctionOrVariablesKept, PassJoin DEF parse_declaration_inner

LEMMA AliasKept == \A c : Place(c) => After(c, Alias)
BY AfterRules, AfterTuple, NoEnd DEF Alias

LEMMA SizesKept == \A c, k : Place(c) /\ "eof" \notin k => Aft(c, While({"["}, "sizes", <<May(k), Need({"]"})>>))
<1> SUFFICES ASSUME NEW c, NEW k, Place(c), "eof" \notin k
             PROVE  Aft(c, While({"["}, "sizes", <<May(k), Need({"]"})>>))
  OBVIOUS
<1> PICK d : d = Inner(c, "sizes", {}, Past)
  OBVIOUS
<1>1. Place(d)
  BY InnerFacts
<1> QED
  BY <1>1, AfterRules, AfterTuple, AfterLoops

LEMMA NamedTypeKept ==
    \A c : Tame(c) /\ Zone(c, Kind, {}) /\ Lower(c, "type_full", {})
           /\ Kind \subseteq Stays(c.f, TRUE) /\ Kind \subseteq Stays(c.f, FALSE)
        => Passes(c, Kind, {}, NamedType)
<1> SUFFICES ASSUME NEW c, Tame(c), Zone(c, Kind, {}), Lower(c, "type_full", {}),
                    Kind \subseteq Stays(c.f, TRUE), Kind \subseteq Stays(c.f, FALSE)
             PROVE  Passes(c, Kind, {}, NamedType)
  OBVIOUS
<1>1. Settled(c) /\ Place(c) /\ c.f \notin Answers /\ Callable(c, "type_full")
  BY Settle, Callables, Named
<1>2. Keeps(c, Kind, {}, Some) /\ Keeps(c, Kind, {}, None) /\ Keeps(c, Kind, {}, Need({";"})) /\ Passes(c, Kind, {}, <<>>)
  BY <1>1, KeepJump, KeepPlain, PassNone
<1>3. After(c, <<While({"["}, "sizes", <<May(Numeric), Need({"]"})>>), Need({";"}), Some>>)
  BY <1>1, SizesKept, AfterRules, AfterTuple, NoEnd
<1>4. Keeps(c, Kind, {}, Match(Ident, <<While({"["}, "sizes", <<May(Numeric), Need({"]"})>>), Need({";"}), Some>>, <<>>))
  BY <1>2, <1>3, KeepBranch, NoEnd
<1>5. Keeps(c, Kind, {}, Choose(<<Need({";"}), Some>>, <<>>))
  BY <1>2, Pass2, KeepBranch
<1> QED
  BY <1>1, <1>2, <1>4, <1>5, KeepCall, Pass5 DEF NamedType

LEMMA TypedefObeyed == \A c : Called(c, "typedef") /\ Settled(c) => Passes(c, Kind, {}, parse_typedef)
<1> SUFFICES ASSUME NEW c, Called(c, "typedef"), Settled(c) PROVE Passes(c, Kind, {}, parse_typedef)
  OBVIOUS
<1>1. /\ Tame(c) /\ Place(c) /\ Zone(c, Kind, {}) /\ c.f = "typedef" /\ c.f \notin Answers
      /\ Kind \subseteq Stays(c.f, TRUE) /\ Kind \subseteq Stays(c.f, FALSE)
  <2>1. Free("typedef")
    BY Named DEF Free, Opener, Takes, Answers
  <2> QED
    BY <2>1, FreeFacts
<1>2. Callable(c, "enum") /\ Callable(c, "struct_body") /\ Callable(c, "type_full") /\ Lower(c, "type_full", {})
  BY <1>1, Callables, Named, Ranks DEF Lower
<1>3. /\ After(c, Alias) /\ After(c, <<Need({";"}), Some>>) /\ After(c, <<Need({";"}), None>>)
      /\ After(c, Try("enum")) /\ After(c, Try("struct_body")) /\ Passes(c, Kind, {}, <<>>)
  BY <1>1, <1>2, AliasKept, AfterRules, AfterTuple, AfterCalls, PassNone
<1>4. Keeps(c, Kind, {}, Match({"enum"}, Try("enum") \o Alias \o <<Need({";"}), Some>>, <<>>))
  BY <1>1, <1>3, AfterRules, KeepBranch
<1>5. After(c, <<Look({"{"}, Try("struct_body"), <<>>)>> \o Alias \o <<Need({";"}), Some>>)
  BY <1>1, <1>3, AfterRules, AfterTuple
<1>6. After(c, Try("struct_body") \o Alias \o <<Need({";"}), Some>>)
  BY <1>3, AfterRules
<1>7. After(c, <<Match(Ident, <<Look({"{"}, Try("struct_body"), <<>>)>> \o Alias \o <<Need({";"}), Some>>, <<>>),
                 Look({"{"}, Try("struct_body") \o Alias \o <<Need({";"}), Some>>, <<>>),
                 Need({";"}), None>>)
  BY <1>1, <1>5, <1>6, AfterRules, AfterTuple, NoEnd
<1>8. Keeps(c, Kind, {},
        Match({"struct"}, <<Match(Ident, <<Look({"{"}, Try("struct_body"), <<>>)>> \o Alias \o <<Need({";"}), Some>>, <<>>),
                 Look({"{"}, Try("struct_body") \o Alias \o <<Need({";"}), Some>>, <<>>),
                 Need({";"}), None>>, <<>>))
  BY <1>1, <1>3, <1>7, KeepBranch
<1> QED
  BY <1>1, <1>2, <1>4, <1>8, Pass2, NamedTypeKept, PassJoin DEF parse_typedef

LEMMA EnumObeyed == \A c : Called(c, "enum") /\ Settled(c) => Passes(c, Kind, {}, parse_enum)
<1> SUFFICES ASSUME NEW c, Called(c, "enum"), Settled(c) PROVE Passes(c, Kind, {}, parse_enum)
  OBVIOUS
<1>1. Place(c) /\ Zone(c, Kind, {}) /\ c.f \notin Answers /\ Kind \subseteq Stays(c.f, FALSE)
  BY CalledZone DEF Called, Stays, Opener, Answers
<1> PICK d : d = Inner(c, "members", {}, Past)
  OBVIOUS
<1>2. Place(d) /\ Zone(d, NotEnd, Past) /\ Turn(d, Past)
  BY <1>1, InnerZones, AfterLoops, InnerFacts
<1>3. Spends(d, NotEnd, Past, <<OrBreak(Ident), Match({"="}, <<May({"number"})>>, <<>>), OrBreak({","})>>)
  BY <1>2, AfterRules, AfterTuple, KeepSmall, Spend1, Join3at1, NoEnd
<1>4. After(c, <<Until({"}"}, "members",
             <<OrBreak(Ident), Match({"="}, <<May({"number"})>>, <<>>), OrBreak({","})>>), Need({"}"}), Some>>)
  BY <1>1, <1>3, AfterRules, AfterLoops, AfterTuple
<1>5. After(c, <<Look({"{"}, <<>>, <<Need({";"}), Some>>)>>)
  BY <1>1, AfterRules, AfterTuple
<1> QED
  BY <1>1, <1>4, <1>5, PassNone, KeepBranch, KeepJump, Pass3, NoEnd DEF parse_enum

-----------------------------------------------------------------------------
(* The fields of a structure.                                                *)
LEMMA SpendNeed == \A c, K, p : Zone(c, K, p) /\ "eof" \notin K => Spend(c, K, p, Need(K))
<1> SUFFICES ASSUME NEW c, NEW K, NEW p, Zone(c, K, p), "eof" \notin K PROVE Spend(c, K, p, Need(K))
  OBVIOUS
<1> PICK q : q = At(c.mood, K, p)
  OBVIOUS
<1>1. Mood(q) = {c.mood} /\ q.some = K /\ q.none = K /\ c.mood \in q.facts /\ q.here = Kind
  BY AtFacts DEF Zone, Place, At
<1>2. Implies(Consumed(q, K), Beyond(c))
  BY <1>1, ConsumedAt DEF Zone, Place
<1>3. Implies(Reported(Without(q, K)), Beyond(c))
  BY <1>1 DEF Reported, With, Without, Implies, Beyond, At, Moved, Stayed, Past
<1> QED
  BY <1>2, <1>3, FitsNeed DEF Spend

\* A field without a type: what is neither ";" nor "}" ends the list.
LEMMA FieldEnd ==
    \A c, p : Place(c) /\ (p = {} \/ p = Past) /\ Turn(c, p)
        => Goes(c, Kind \ {"}", "eof"}, p, At(c.mood, {";"}, p), <<Look({";", "}"}, <<>>, <<Break>>)>>)
<1> SUFFICES ASSUME NEW c, NEW p, Place(c), p = {} \/ p = Past, Turn(c, p)
             PROVE  Goes(c, Kind \ {"}", "eof"}, p, At(c.mood, {";"}, p), <<Look({";", "}"}, <<>>, <<Break>>)>>)
  OBVIOUS
<1>0. \A y, z, u : Chain(c, <<Break>>, y, z) /\ Implies(u, y) /\ Implies(z, z) => Chain(c, <<Break>>, u, z)
  BY Weaken
<1> PICK K, k, e : K = Kind \ {"}", "eof"} /\ k = {";", "}"} /\ e = {";"}
  OBVIOUS
<1>1. K \cap k \subseteq e /\ K \subseteq Kind /\ K # {} /\ K \ k \subseteq Kind /\ K \ k # {} /\ e \subseteq Kind
  <2>1. ";" \in K /\ "if" \in K /\ "if" \notin k
    BY DEF Kind, Word, Flow
  <2> QED
    BY <2>1
<1> PICK q, r, t : q = At(c.mood, K, p) /\ r = At(c.mood, e, p) /\ t = At(c.mood, K \ k, p)
  OBVIOUS
<1>2. Implies(Among(q, k), r) /\ Implies(Without(q, k), t)
  BY <1>1 DEF Among, Without, At, Implies, Moved, Stayed
<1>3. Zone(c, K \ k, p)
  BY <1>1 DEF Zone, Case
<1>4. Fits(c, Break, t, r)
  BY <1>3, DoesBreak DEF Does
<1>5. Chain(c, <<>>, Among(q, k), r)
  BY <1>2, Nothing
<1>6. Chain(c, <<Break>>, Without(q, k), r)
  <2>1. Chain(c, <<Break>>, t, r)
    BY <1>4, ChainOne
  <2>2. Implies(r, r)
    BY DEF Implies, At, Moved, Stayed
  <2> QED
    BY <2>1, <2>2, <1>0, <1>2
<1>7. Chain(c, <<Look(k, <<>>, <<Break>>)>>, q, r)
  BY <1>5, <1>6, FitsLook, ChainOne
<1> QED
  BY <1>7 DEF Goes

LEMMA ChainFive ==
    \A c, a, b, d, e, f, q, r, t :
        Chain(c, <<a, b, d>>, q, r) /\ Chain(c, <<e, f>>, r, t) => Chain(c, <<a, b, d, e, f>>, q, t)
<1> SUFFICES ASSUME NEW c, NEW a, NEW b, NEW d, NEW e, NEW f, NEW q, NEW r, NEW t,
                    Chain(c, <<a, b, d>>, q, r), Chain(c, <<e, f>>, r, t)
             PROVE  Chain(c, <<a, b, d, e, f>>, q, t)
  OBVIOUS
<1>1. <<a, b, d, e, f>> = <<a, b, d>> \o <<e, f>>
  BY Split5at3
<1>2. Chain(c, <<a, b, d>> \o <<e, f>>, q, t)
  BY ChainJoin
<1> QED
  BY <1>1, <1>2

\* A turn of a list of fields, from a token that does not end it.
LEMMA FieldSpends ==
    \A c, y, w :
        /\ Settled(c) /\ Turn(c, {}) /\ Turn(c, Past) /\ Lower(c, "type_full", {}) /\ After(c, y) /\ Aft(c, w)
        => Goes(c, Kind \ {"}", "eof"}, {}, Beyond(c),
                <<May({"extension"}), Call("type_full"), IfOk(y, <<Look({";", "}"}, <<>>, <<Break>>)>>),
                  Need({";"}), w>>)
<1> SUFFICES ASSUME NEW c, NEW y, NEW w, Settled(c), Turn(c, {}), Turn(c, Past),
                    Lower(c, "type_full", {}), After(c, y), Aft(c, w)
             PROVE  Goes(c, Kind \ {"}", "eof"}, {}, Beyond(c),
                         <<May({"extension"}), Call("type_full"),
                           IfOk(y, <<Look({";", "}"}, <<>>, <<Break>>)>>), Need({";"}), w>>)
  OBVIOUS
<1>1. Place(c) /\ Callable(c, "type_full")
  BY Settle, Callables, Named
<1>2. "type_full" \in Takes \ Opener
  BY DEF Takes, Opener
<1> PICK K, e : K = Kind \ {"}", "eof"} /\ e = {";"}
  OBVIOUS
<1>3. Zone(c, K, {}) /\ Zone(c, e, {})
  <2>1. ";" \in Kind \ {"}", "eof"} /\ e \subseteq Kind /\ e # {}
    BY DEF Kind
  <2>2. Case(K, {}) /\ Case(e, {})
    BY <2>1 DEF Case
  <2> QED
    BY <1>1, <2>2 DEF Zone
<1> PICK n, t : n = <<Look({";", "}"}, <<>>, <<Break>>)>> /\ t = At(c.mood, e, {})
  OBVIOUS
<1>4. Goes(c, K, {}, t, n)
  BY <1>1, FieldEnd
<1>5. Implies(Beyond(c), t)
  BY <1>3, ZoneFacts
<1>6. Goes(c, K, {}, t, <<Call("type_full"), IfOk(y, n)>>)
  BY <1>1, <1>2, <1>3, <1>4, <1>5, GoesTake
<1>7. Passes(c, K, {}, <<May({"extension"})>>)
  BY <1>3, KeepSmall, Pass1
<1>8. Goes(c, K, {}, t, <<May({"extension"}), Call("type_full"), IfOk(y, n)>>)
  <2>1. <<May({"extension"}), Call("type_full"), IfOk(y, n)>>
          = <<May({"extension"})>> \o <<Call("type_full"), IfOk(y, n)>>
    BY Split3
  <2>2. Goes(c, K, {}, t, <<May({"extension"})>> \o <<Call("type_full"), IfOk(y, n)>>)
    BY <1>6, <1>7, ChainJoin DEF Goes, Passes
  <2> QED
    BY <2>1, <2>2
<1>9. Spends(c, e, {}, <<Need(e), w>>)
  <2>1. "eof" \notin e
    OBVIOUS
  <2> QED
    BY <1>3, <2>1, SpendNeed, Spend2
<1>10. Goes(c, K, {}, Beyond(c), <<May({"extension"}), Call("type_full"), IfOk(y, n), Need(e), w>>)
  BY <1>8, <1>9, ChainFive DEF Goes, Spends
<1> QED
  BY <1>10

LEMMA BitWidthKept == \A c : Place(c) => Aft(c, BitWidth)
<1> SUFFICES ASSUME NEW c, Place(c) PROVE Aft(c, BitWidth)
  OBVIOUS
<1> PICK d : d = Inner(c, "widths", {}, Past)
  OBVIOUS
<1> PICK e : e = Inner(d, "width", {}, Past)
  OBVIOUS
<1>1. Place(d) /\ Place(e)
  BY InnerFacts
<1>2. After(e, <<May(Numeric)>>)
  BY <1>1, AfterRules, AfterTuple, NoEnd
<1>3. After(d, <<May(Numeric), While({"+", "-", "*", "binop", ">>", "&"}, "width", <<May(Numeric)>>)>>)
  BY <1>1, <1>2, AfterRules, AfterTuple, AfterLoops, NoEnd
<1> QED
  BY <1>3, AfterLoops DEF BitWidth

LEMMA StructBodyObeyed == \A c : Called(c, "struct_body") /\ Settled(c) => Passes(c, Kind, {}, parse_struct_body)
<1> SUFFICES ASSUME NEW c, Called(c, "struct_body"), Settled(c) PROVE Passes(c, Kind, {}, parse_struct_body)
  OBVIOUS
<1>1. Tame(c) /\ Place(c) /\ Zone(c, Kind, {}) /\ c.f = "struct_body" /\ Kind \subseteq Stays(c.f, TRUE)
  <2>1. Free("struct_body")
    BY Named DEF Free, Opener, Takes, Answers
  <2> QED
    BY <2>1, FreeFacts
<1> PICK d : d = Inner(c, "fields", Kind, {})
  OBVIOUS
<1>2. Zone(d, Kind, {}) /\ Turn(d, {}) /\ Turn(d, Past) /\ d.f = c.f /\ Place(d) /\ Settled(d)
  <2>1. Zone(d, Kind, {}) /\ Turn(d, {}) /\ Turn(d, Past) /\ d.f = c.f
    BY <1>1, Zones, TurnFacts, InnerFacts
  <2> QED
    BY <1>1, <2>1, Settle, InnerFacts
<1>3. Lower(d, "type_full", {}) /\ Callable(d, "attributes")
  BY <1>1, <1>2, Ranks, Callables, Named DEF Lower
<1>4. Aft(d, While({","}, "names", <<Match(Ident, <<Call("attributes")>>, <<>>)>>))
  <2> PICK e : e = Inner(d, "names", {}, Past)
    OBVIOUS
  <2>1. Place(e) /\ Callable(e, "attributes")
    BY <1>2, Settle, Callables, Named
  <2>2. After(e, <<Match(Ident, <<Call("attributes")>>, <<>>)>>)
    BY <2>1, AfterRules, AfterTuple, NoEnd
  <2> QED
    BY <1>2, <2>2, AfterLoops
<1>5. Aft(d, While({"static", "const", "volatile", "inline"}, "qualifiers", <<>>))
  <2> PICK e : e = Inner(d, "qualifiers", {}, Past)
    OBVIOUS
  <2>1. Place(e) /\ After(e, <<>>)
    BY <1>2, Settle, AfterRules
  <2> QED
    BY <1>2, <2>1, AfterLoops
<1>6. After(d, <<May(Ident), While({"["}, "sizes", <<May(Numeric), Need({"]"})>>), BitWidth, Call("attributes"),
                 While({","}, "names", <<Match(Ident, <<Call("attributes")>>, <<>>)>>)>>)
  BY <1>2, <1>3, <1>4, SizesKept, BitWidthKept, AfterRules, AfterTuple, NoEnd
<1> DEFINE fields ==
      <<May({"extension"}), Call("type_full"),
        IfOk(<<May(Ident), While({"["}, "sizes", <<May(Numeric), Need({"]"})>>),
               BitWidth, Call("attributes"),
               While({","}, "names", <<Match(Ident, <<Call("attributes")>>, <<>>)>>)>>,
             <<Look({";", "}"}, <<>>, <<Break>>)>>),
        Need({";"}),
        While({"static", "const", "volatile", "inline"}, "qualifiers", <<>>)>>
<1>7. Goes(d, Kind \ {"}", "eof"}, {}, Beyond(d), fields)
  BY <1>2, <1>3, <1>5, <1>6, FieldSpends
<1>8. Keeps(c, Kind, {}, Until({"}"}, "fields", fields))
  <2> HIDE DEF fields
  <2> PICK k, L : k = {"}"} /\ L = Kind \ {"}", "eof"}
    OBVIOUS
  <2>1. Kind \ (k \cup {"eof"}) \subseteq L
    OBVIOUS
  <2>2. Spends(d, Kind, {}, <<Look(k \cup {"eof"}, <<Break>>, <<>>)>> \o fields)
    BY <1>2, <1>7, <2>1, Narrow DEF Spends, Goes
  <2>3. Keeps(c, Kind, {}, Until(k, "fields", fields))
    BY <1>1, <2>2, KeepLoop DEF Until
  <2> QED
    BY <2>3
<1> QED
  BY <1>1, <1>8, KeepPlain, KeepJump, Pass4 DEF parse_struct_body

-----------------------------------------------------------------------------
(* Classes, protocols and namespaces.                                        *)
LEMMA ListSpends ==
    \A c, n, k, l : Place(c) /\ n # "none" /\ "eof" \notin k /\ "eof" \notin l
        => Aft(c, Loop(n, <<OrBreak(k), OrBreak(l)>>))
<1> SUFFICES ASSUME NEW c, NEW n, NEW k, NEW l, Place(c), n # "none", "eof" \notin k, "eof" \notin l
             PROVE  Aft(c, Loop(n, <<OrBreak(k), OrBreak(l)>>))
  OBVIOUS
<1> PICK d : d = Inner(c, n, {}, Past)
  OBVIOUS
<1>1. Place(d) /\ Zone(d, Kind, Past) /\ Turn(d, Past)
  BY InnerZones, AfterLoops, InnerFacts
<1>2. Spends(d, Kind, Past, <<OrBreak(k), OrBreak(l)>>)
  BY <1>1, KeepSmall, Spend2
<1> QED
  BY <1>2, AfterLoops

LEMMA CategoryKept == \A c, K, p : Zone(c, K, p) => Keeps(c, K, p, Category)
<1> SUFFICES ASSUME NEW c, NEW K, NEW p, Zone(c, K, p) PROVE Keeps(c, K, p, Category)
  OBVIOUS
<1>1. Place(c) /\ Passes(c, K, p, <<>>)
  BY PassNone, Zones
<1>2. After(c, <<SkipTo({")"}), Need({")"})>>)
  BY <1>1, AfterRules, AfterLoops, AfterTuple
<1> QED
  BY <1>1, <1>2, KeepBranch DEF Category

LEMMA SuperclassKept == \A c, K, p : Zone(c, K, p) => Keeps(c, K, p, Superclass)
<1> SUFFICES ASSUME NEW c, NEW K, NEW p, Zone(c, K, p) PROVE Keeps(c, K, p, Superclass)
  OBVIOUS
<1>1. Place(c) /\ Passes(c, K, p, <<>>)
  BY PassNone, Zones
<1>2. After(c, <<Look(Ident, <<Call("qualified_name")>>, <<>>)>>)
  BY <1>1, Callables, AfterRules, AfterTuple
<1> QED
  BY <1>1, <1>2, KeepBranch DEF Superclass

LEMMA ProtocolsKept == \A c, K, p : Zone(c, K, p) => Keeps(c, K, p, Protocols)
<1> SUFFICES ASSUME NEW c, NEW K, NEW p, Zone(c, K, p) PROVE Keeps(c, K, p, Protocols)
  OBVIOUS
<1>1. Place(c) /\ Passes(c, K, p, <<>>)
  BY PassNone, Zones
<1>2. Aft(c, Loop("protocols", <<OrBreak(Ident), OrBreak({","})>>)) /\ Aft(c, May({">", ">>"}))
  BY <1>1, ListSpends, AfterRules, NoEnd
<1>3. After(c, <<Loop("protocols", <<OrBreak(Ident), OrBreak({","})>>), May({">", ">>"})>>)
  BY <1>1, <1>2, AfterTuple
<1> QED
  BY <1>1, <1>3, KeepBranch DEF Protocols

\* The instance variables: the loop that may turn without a token.
LEMMA IvarsKept == \A c, K, p : Zone(c, K, p) /\ Settled(c) => Keeps(c, K, p, Ivars)
<1> SUFFICES ASSUME NEW c, NEW K, NEW p, Zone(c, K, p), Settled(c) PROVE Keeps(c, K, p, Ivars)
  OBVIOUS
<1>1. Place(c) /\ Passes(c, K, p, <<>>) /\ Zone(c, {}, Past)
  BY PassNone, Zones
<1> PICK d : d = Inner(c, "ivars", {}, Past)
  OBVIOUS
<1>2. Place(d) /\ Zone(d, Kind, Past) /\ Turn(d, Past) /\ Settled(d) /\ Passes(d, Kind, Past, <<>>)
  BY <1>1, InnerZones, AfterLoops, Settle, PassNone
<1>3. Callable(d, "type_full") /\ Lower(d, "type_full", Past)
  BY <1>2, Callables, InnerZones
<1>4. After(d, <<Continue>>) /\ After(d, <<SkipTo({")"}), Need({")"})>>)
  BY <1>2, AfterRules, AfterLoops, AfterTuple
<1>5. Keeps(d, Kind, Past, Loop("names", <<OrBreak(match_name), ArraySize, OrBreak({","})>>))
  <2> PICK e : e = Inner(d, "names", Kind, Past)
    OBVIOUS
  <2>1. Place(e) /\ Zone(e, Kind, Past) /\ Turn(e, Past)
    BY <1>2, Zones, TurnFacts, InnerFacts
  <2>2. Spends(e, Kind, Past, <<OrBreak(match_name), ArraySize, OrBreak({","})>>)
    BY <2>1, ArraySizeKept, AfterRules, AfterTuple, KeepSmall, Spend1, Join3at1, NoEnd
  <2> QED
    BY <1>2, <2>2, KeepLoop
<1>6. Passes(d, Kind, Past,
        <<Match({"@public"}, <<Continue>>, <<>>),
          May({"extension"}),
          Match({"("}, <<SkipTo({")"}), Need({")"})>>, <<>>),
          Call("type_full"),
          IfOk(<<Loop("names", <<OrBreak(match_name), ArraySize, OrBreak({","})>>)>>, <<>>),
          Need({";"})>>)
  BY <1>2, <1>3, <1>4, <1>5, KeepBranch, KeepSmall, KeepCall, KeepPlain, Pass1, Pass6
<1>7. Aft(c, Until({"}"}, "ivars",
        <<Match({"@public"}, <<Continue>>, <<>>),
          May({"extension"}),
          Match({"("}, <<SkipTo({")"}), Need({")"})>>, <<>>),
          Call("type_full"),
          IfOk(<<Loop("names", <<OrBreak(match_name), ArraySize, OrBreak({","})>>)>>, <<>>),
          Need({";"})>>))
  BY <1>1, <1>6, KeepUntil DEF Aft
<1> QED
  BY <1>1, <1>7, AfterRules, AfterTuple, KeepBranch DEF Ivars

\* A call that takes a token from any token but the end of the file, or Skip does.
LEMMA TakeOrSkip ==
    \A c, p, g : Zone(c, NotEnd, p) /\ Callable(c, g) /\ Lower(c, g, p) /\ g \in Takes \ Opener
        => Spends(c, NotEnd, p, <<Call(g), IfOk(<<>>, <<Skip>>)>>)
<1> SUFFICES ASSUME NEW c, NEW p, NEW g, Zone(c, NotEnd, p), Callable(c, g), Lower(c, g, p), g \in Takes \ Opener
             PROVE  Spends(c, NotEnd, p, <<Call(g), IfOk(<<>>, <<Skip>>)>>)
  OBVIOUS
<1>1. "eof" \notin NotEnd
  BY DEF NotEnd
<1>2. Spends(c, NotEnd, p, <<Skip>>) /\ After(c, <<>>)
  BY <1>1, SpendSkip, Spend1, Zones, AfterRules
<1> QED
  BY <1>2, PassTake

LEMMA PragmaLook ==
    \A c, K, p : Zone(c, K, p) /\ Settled(c) /\ Turn(c, Past) /\ Lower(c, "raw_pragma_decl", p)
        => Keeps(c, K, p, Look({"pragma"}, <<Call("raw_pragma_decl"), Continue>>, <<>>))
<1> SUFFICES ASSUME NEW c, NEW K, NEW p, Zone(c, K, p), Settled(c), Turn(c, Past), Lower(c, "raw_pragma_decl", p)
             PROVE  Keeps(c, K, p, Look({"pragma"}, <<Call("raw_pragma_decl"), Continue>>, <<>>))
  OBVIOUS
<1>1. Place(c) /\ Callable(c, "raw_pragma_decl") /\ Passes(c, K, p, <<>>)
  BY Settle, Callables, Named, PassNone
<1>2. Aft(c, Continue) /\ "raw_pragma_decl" \in Opener
  BY <1>1, AfterRules DEF Opener
<1> PICK r : r = At(c.mood, K, p)
  OBVIOUS
<1>3. Does(c, K, p, r, Look({"pragma"}, <<Call("raw_pragma_decl"), Continue>>, <<>>))
  BY <1>1, <1>2, DoesOpener, ZoneFacts DEF Goes, Passes
<1> QED
  BY <1>3 DEF Does, Keeps

LEMMA MembersKept ==
    \A c, K, p : Zone(c, K, p) /\ Settled(c) /\ Lower(c, "raw_pragma_decl", p) /\ Lower(c, "method", p)
        => Passes(c, K, p, Members)
<1> SUFFICES ASSUME NEW c, NEW K, NEW p, Zone(c, K, p), Settled(c),
                    Lower(c, "raw_pragma_decl", p), Lower(c, "method", p)
             PROVE  Passes(c, K, p, Members)
  OBVIOUS
<1> PICK d : d = Inner(c, "members", K, p)
  OBVIOUS
<1>1. Zone(d, NotEnd, p) /\ Turn(d, Past) /\ d.f = c.f /\ Place(d) /\ Settled(d)
  <2>1. Zone(d, NotEnd, p) /\ Turn(d, Past) /\ d.f = c.f
    BY Zones, TurnFacts, InnerFacts
  <2> QED
    BY <2>1, Settle
<1>2. Callable(d, "property") /\ Callable(d, "method") /\ Lower(d, "raw_pragma_decl", p) /\ Lower(d, "method", p)
  BY <1>1, Callables, Named DEF Lower
<1>3. Aft(d, Loop("names", <<Match(SelectorPart \ {"self", "super"},
                                   <<Match({"="}, <<May(Ident)>>, <<>>)>>, <<Break>>), OrBreak({","})>>))
  <2> PICK e : e = Inner(d, "names", {}, Past)
    OBVIOUS
  <2>1. Place(e) /\ Zone(e, Kind, Past) /\ Turn(e, Past)
    BY <1>1, InnerZones, AfterLoops, InnerFacts
  <2>2. After(e, <<Match({"="}, <<May(Ident)>>, <<>>)>>)
    BY <2>1, AfterRules, AfterTuple, NoEnd
  <2>3. Spends(e, Kind, Past, <<Break>>) /\ Aft(e, OrBreak({","})) /\ "eof" \notin SelectorPart \ {"self", "super"}
    BY <2>1, KeepJump, Spend1, AfterRules, NoEnd
  <2>4. Spends(e, Kind, Past, <<Match(SelectorPart \ {"self", "super"},
                                      <<Match({"="}, <<May(Ident)>>, <<>>)>>, <<Break>>), OrBreak({","})>>)
    BY <2>1, <2>2, <2>3, SpendBranch, Spend2
  <2> QED
    BY <1>1, <2>4, AfterLoops
<1>4. /\ After(d, <<Break>>) /\ After(d, <<Continue>>) /\ After(d, <<Call("property"), Continue>>)
      /\ After(d, <<Loop("names", <<Match(SelectorPart \ {"self", "super"},
                                          <<Match({"="}, <<May(Ident)>>, <<>>)>>, <<Break>>), OrBreak({","})>>),
                    Need({";"}), Continue>>)
      /\ Passes(d, NotEnd, p, <<>>)
  BY <1>1, <1>2, <1>3, AfterRules, AfterTuple, PassNone
<1>5. /\ Keeps(d, NotEnd, p, Match({"@end"}, <<Break>>, <<>>))
      /\ Keeps(d, NotEnd, p, Look({"pragma"}, <<Call("raw_pragma_decl"), Continue>>, <<>>))
      /\ Keeps(d, NotEnd, p, Match({"@property"}, <<Call("property"), Continue>>, <<>>))
      /\ Keeps(d, NotEnd, p,
               Match({"@synthesize"},
                     <<Loop("names", <<Match(SelectorPart \ {"self", "super"},
                                             <<Match({"="}, <<May(Ident)>>, <<>>)>>, <<Break>>), OrBreak({","})>>),
                       Need({";"}), Continue>>, <<>>))
      /\ Keeps(d, NotEnd, p, Match({"@public", "block", "strong"}, <<Continue>>, <<>>))
  BY <1>1, <1>2, <1>4, KeepBranch, PragmaLook
<1>6. Spends(d, NotEnd, p, <<Call("method"), IfOk(<<>>, <<Skip>>)>>)
  <2>1. "method" \in Takes \ Opener
    BY DEF Takes, Opener
  <2> QED
    BY <1>1, <1>2, <2>1, TakeOrSkip
<1>7. Spends(d, NotEnd, p, <<Match({"@end"}, <<Break>>, <<>>),
              Look({"pragma"}, <<Call("raw_pragma_decl"), Continue>>, <<>>),
              Match({"@property"}, <<Call("property"), Continue>>, <<>>),
              Match({"@synthesize"},
                     <<Loop("names", <<Match(SelectorPart \ {"self", "super"},
                                             <<Match({"="}, <<May(Ident)>>, <<>>)>>, <<Break>>), OrBreak({","})>>),
                       Need({";"}), Continue>>, <<>>),
              Match({"@public", "block", "strong"}, <<Continue>>, <<>>),
              Call("method"), IfOk(<<>>, <<Skip>>)>>)
  BY <1>1, <1>5, <1>6, Pass5, Spend7
<1> QED
  BY <1>7, KeepUntil, Pass1 DEF Members

LEMMA InterfaceBodyKept ==
    \A c, K, p : Zone(c, K, p) /\ Settled(c) /\ Lower(c, "raw_pragma_decl", p) /\ Lower(c, "method", p)
                 /\ (p = Past \/ K \subseteq Stays(c.f, TRUE))
        => Passes(c, K, p, InterfaceBody)
<1> SUFFICES ASSUME NEW c, NEW K, NEW p, Zone(c, K, p), Settled(c),
                    Lower(c, "raw_pragma_decl", p), Lower(c, "method", p), p = Past \/ K \subseteq Stays(c.f, TRUE)
             PROVE  Passes(c, K, p, InterfaceBody)
  OBVIOUS
<1>1. Passes(c, K, p, <<Superclass, Protocols, Ivars>>)
  BY SuperclassKept, ProtocolsKept, IvarsKept, Pass3
<1>2. Passes(c, K, p, <<Some>>)
  BY KeepJump, Pass1
<1> QED
  BY <1>1, <1>2, MembersKept, PassJoin DEF InterfaceBody

LEMMA InterfaceBodyObeyed ==
    \A c : Called(c, "interface_body") /\ Settled(c) => Passes(c, Kind, {}, InterfaceBody)
<1> SUFFICES ASSUME NEW c, Called(c, "interface_body"), Settled(c) PROVE Passes(c, Kind, {}, InterfaceBody)
  OBVIOUS
<1>1. Zone(c, Kind, {}) /\ c.f = "interface_body" /\ Kind \subseteq Stays(c.f, TRUE)
  BY CalledZone DEF Called, Stays, Opener, Takes
<1>2. Lower(c, "raw_pragma_decl", {}) /\ Lower(c, "method", {})
  BY <1>1, Ranks DEF Lower
<1> QED
  BY <1>1, <1>2, InterfaceBodyKept

LEMMA AtEnd == \A c, g : Called(c, g) /\ g \in Opener =>
                   /\ Zone(c, {"eof"}, {}) /\ {"eof"} \subseteq Stays(c.f, TRUE) /\ {"eof"} \subseteq Stays(c.f, FALSE)
                   /\ Place(c)
<1> SUFFICES ASSUME NEW c, NEW g, Called(c, g), g \in Opener
             PROVE  /\ Zone(c, {"eof"}, {}) /\ {"eof"} \subseteq Stays(c.f, TRUE)
                    /\ {"eof"} \subseteq Stays(c.f, FALSE) /\ Place(c)
  OBVIOUS
<1>1. {"eof"} \subseteq Kind /\ {"eof"} # {}
  BY DEF Kind
<1>2. Zone(c, {"eof"}, {})
  BY <1>1, CalledZone DEF Zone, Case
<1> QED
  BY <1>2, CalledZone DEF Called, Stays

LEMMA InterfaceNameSpends ==
    \A c : Place(c) /\ Zone(c, {"eof"}, {}) /\ {"eof"} \subseteq Stays(c.f, FALSE) => Spends(c, Kind, {}, InterfaceName)
<1> SUFFICES ASSUME NEW c, Place(c), Zone(c, {"eof"}, {}), {"eof"} \subseteq Stays(c.f, FALSE)
             PROVE  Spends(c, Kind, {}, InterfaceName)
  OBVIOUS
<1>1. Spends(c, {"eof"}, {}, <<Match(match_name, <<>>, <<Error, None>>)>>)
  BY PassNone, SpendBranch, AfterRules, Spend1, NoEnd
<1>2. Aft(c, While({"::"}, "qualified", <<Match(match_name, <<>>, <<Error, None>>)>>))
  <2> PICK d : d = Inner(c, "qualified", {}, Past)
    OBVIOUS
  <2>1. Place(d)
    BY InnerFacts
  <2>2. After(d, <<Match(match_name, <<>>, <<Error, None>>)>>)
    BY <2>1, AfterRules, AfterTuple, NoEnd
  <2> QED
    BY <2>2, AfterLoops
<1>3. Aft(c, Category)
  BY Zones, CategoryKept DEF Aft
<1>4. Aft(c, Match({"<"}, <<Loop("type_params", <<OrBreak(match_name), OrBreak({","})>>), Need({">"})>>, <<>>))
  BY ListSpends, AfterRules, AfterTuple, NoEnd
<1>5. After(c, <<While({"::"}, "qualified", <<Match(match_name, <<>>, <<Error, None>>)>>), Category,
                 Match({"<"}, <<Loop("type_params", <<OrBreak(match_name), OrBreak({","})>>), Need({">"})>>, <<>>)>>)
  BY <1>2, <1>3, <1>4, AfterTuple
<1>6. Spends(c, {"eof"}, {}, <<Match(match_name, <<>>, <<Error, None>>),
                 While({"::"}, "qualified", <<Match(match_name, <<>>, <<Error, None>>)>>), Category,
                 Match({"<"}, <<Loop("type_params", <<OrBreak(match_name), OrBreak({","})>>), Need({">"})>>, <<>>)>>)
  BY <1>1, <1>5, Join4at1
<1> QED
  BY <1>6, OpensTuple DEF InterfaceName

LEMMA ClassInterfaceObeyed ==
    \A c : Called(c, "class_interface") /\ Settled(c) => Passes(c, Kind, {}, parse_class_interface)
<1> SUFFICES ASSUME NEW c, Called(c, "class_interface"), Settled(c)
             PROVE  Passes(c, Kind, {}, parse_class_interface)
  OBVIOUS
<1>1. "class_interface" \in Opener
  BY DEF Opener
<1>2. Spends(c, Kind, {}, InterfaceName) /\ Place(c) /\ Zone(c, Kind, {}) /\ Zone(c, {}, Past)
  BY <1>1, AtEnd, InterfaceNameSpends, CalledZone, Zones
<1>3. After(c, InterfaceBody)
  BY <1>2, InterfaceBodyKept, InnerZones DEF After
<1> QED
  BY <1>2, <1>3, PassJoin DEF parse_class_interface

LEMMA NameSpends ==
    \A c : /\ Settled(c) /\ Zone(c, {"eof"}, {}) /\ {"eof"} \subseteq Stays(c.f, FALSE)
           /\ Lower(c, "qualified_name_with_keywords", {})
        => Spends(c, {"eof"}, {}, <<Call("qualified_name_with_keywords"), IfOk(<<>>, <<Error, None>>)>>)
<1> SUFFICES ASSUME NEW c, Settled(c), Zone(c, {"eof"}, {}), {"eof"} \subseteq Stays(c.f, FALSE),
                    Lower(c, "qualified_name_with_keywords", {})
             PROVE  Spends(c, {"eof"}, {}, <<Call("qualified_name_with_keywords"), IfOk(<<>>, <<Error, None>>)>>)
  OBVIOUS
<1>1. Callable(c, "qualified_name_with_keywords") /\ Place(c)
  BY Settle, Callables, Named
<1>2. "qualified_name_with_keywords" \in Takes \ Opener
  BY DEF Takes, Opener
<1>3. After(c, <<>>) /\ Spends(c, {"eof"}, {}, <<Error, None>>)
  BY <1>1, AfterRules, PassNone
<1> QED
  BY <1>1, <1>2, <1>3, PassTake

LEMMA ClassImplementationObeyed ==
    \A c : Called(c, "class_implementation") /\ Settled(c) => Passes(c, Kind, {}, parse_class_implementation)
<1> SUFFICES ASSUME NEW c, Called(c, "class_implementation"), Settled(c)
             PROVE  Passes(c, Kind, {}, parse_class_implementation)
  OBVIOUS
<1>1. "class_implementation" \in Opener /\ Lower(c, "qualified_name_with_keywords", {})
  BY Ranks DEF Opener, Called, Lower
<1>2. /\ Spends(c, {"eof"}, {}, <<Call("qualified_name_with_keywords"), IfOk(<<>>, <<Error, None>>)>>)
      /\ Place(c) /\ Zone(c, Kind, {}) /\ Zone(c, {}, Past)
  BY <1>1, AtEnd, NameSpends, CalledZone, Zones
<1> PICK d : d = Inner(c, "members", {}, Past)
  OBVIOUS
<1>3. Settled(d) /\ Place(d) /\ Zone(d, NotEnd, Past) /\ Turn(d, Past) /\ "eof" \notin NotEnd
  <2>1. "eof" \notin NotEnd
    BY DEF NotEnd
  <2> QED
    BY <1>2, <2>1, AfterLoops, InnerZones, Settle
<1>4. Callable(d, "method") /\ Callable(d, "declaration") /\ \A g : Lower(d, g, Past)
  BY <1>3, Callables, Named, InnerZones
<1>5. "method" \in Takes \ Opener /\ "declaration" \in Takes \ Opener
  BY DEF Takes, Opener
<1>6. /\ After(d, <<Break>>) /\ After(d, <<Continue>>) /\ Passes(d, NotEnd, Past, <<>>)
      /\ After(d, <<Match({"("}, <<SkipBalanced, May({")"})>>, <<>>), SkipTo({";"}), May({";"}), Continue>>)
  BY <1>3, AfterRules, AfterLoops, AfterTuple, PassNone
<1>7. /\ Passes(d, NotEnd, Past, <<Call("method"), IfOk(<<Continue>>, <<>>)>>)
      /\ Passes(d, NotEnd, Past, <<Call("declaration"), IfOk(<<Continue>>, <<>>)>>)
  BY <1>3, <1>4, <1>5, <1>6, PassTake
<1>8. /\ Keeps(d, NotEnd, Past, Match({"@end"}, <<Break>>, <<>>))
      /\ Keeps(d, NotEnd, Past, Look({"pragma"}, <<Call("raw_pragma_decl"), Continue>>, <<>>))
      /\ Keeps(d, NotEnd, Past, Match({"@property", "@synthesize"},
              <<Match({"("}, <<SkipBalanced, May({")"})>>, <<>>), SkipTo({";"}), May({";"}), Continue>>, <<>>))
      /\ Keeps(d, NotEnd, Past, Look({"+", "-"}, <<Call("method"), IfOk(<<Continue>>, <<>>)>>,
                   <<is_declaration_start(<<Call("declaration"), IfOk(<<Continue>>, <<>>)>>, <<>>)>>))
  BY <1>3, <1>4, <1>6, <1>7, KeepBranch, PragmaLook, DeclarationStart, Pass1
<1>9. Spends(d, NotEnd, Past, <<Call("method"), IfOk(<<>>, <<Look({"eof"}, <<Break>>, <<Skip>>)>>)>>)
  <2>1. Spends(d, NotEnd, Past, <<Look({"eof"}, <<Break>>, <<Skip>>)>>) /\ After(d, <<>>)
    BY <1>3, KeepJump, SpendSkip, SpendBranch, Spend1, AfterRules
  <2> QED
    BY <1>3, <1>4, <1>5, <2>1, PassTake
<1>10. Spends(d, NotEnd, Past,
            <<Match({"@end"}, <<Break>>, <<>>),
              Look({"pragma"}, <<Call("raw_pragma_decl"), Continue>>, <<>>),
              Match({"@property", "@synthesize"},
                    <<Match({"("}, <<SkipBalanced, May({")"})>>, <<>>), SkipTo({";"}), May({";"}), Continue>>,
                    <<>>),
              Look({"+", "-"}, <<Call("method"), IfOk(<<Continue>>, <<>>)>>,
                   <<is_declaration_start(<<Call("declaration"), IfOk(<<Continue>>, <<>>)>>, <<>>)>>),
              Call("method"), IfOk(<<>>, <<Look({"eof"}, <<Break>>, <<Skip>>)>>)>>)
  BY <1>3, <1>8, <1>9, Pass4, Spend6
<1>11. Aft(c, Category) /\ Aft(c, Superclass)
  BY <1>2, CategoryKept, SuperclassKept DEF Aft
<1>12. After(c, <<Category, Superclass, Until({}, "members",
            <<Match({"@end"}, <<Break>>, <<>>),
              Look({"pragma"}, <<Call("raw_pragma_decl"), Continue>>, <<>>),
              Match({"@property", "@synthesize"},
                    <<Match({"("}, <<SkipBalanced, May({")"})>>, <<>>), SkipTo({";"}), May({";"}), Continue>>,
                    <<>>),
              Look({"+", "-"}, <<Call("method"), IfOk(<<Continue>>, <<>>)>>,
                   <<is_declaration_start(<<Call("declaration"), IfOk(<<Continue>>, <<>>)>>, <<>>)>>),
              Call("method"), IfOk(<<>>, <<Look({"eof"}, <<Break>>, <<Skip>>)>>)>>), Some>>)
  BY <1>2, <1>10, <1>11, AfterRules, AfterLoops, AfterTuple
<1>13. Spends(c, Kind, {}, parse_class_implementation)
  BY <1>2, <1>12, Join6at2, OpensTuple DEF parse_class_implementation
<1> QED
  BY <1>2, <1>13, PassJoin

LEMMA PropertyObeyed == \A c : Called(c, "property") /\ Settled(c) => Passes(c, Kind, {}, parse_property)
<1> SUFFICES ASSUME NEW c, Called(c, "property"), Settled(c) PROVE Passes(c, Kind, {}, parse_property)
  OBVIOUS
<1>1. /\ Place(c) /\ Zone(c, Kind, {}) /\ c.f \notin Answers /\ Kind \subseteq Stays(c.f, FALSE)
      /\ Callable(c, "type_full") /\ Lower(c, "type_full", {})
  <2>1. Place(c) /\ Zone(c, Kind, {}) /\ c.f \notin Answers /\ Kind \subseteq Stays(c.f, FALSE)
    BY CalledZone DEF Called, Stays, Opener, Answers
  <2>2. Callable(c, "type_full")
    BY Callables, Named
  <2>3. Lower(c, "type_full", {})
    BY Ranks DEF Called, Lower
  <2> QED
    BY <2>1, <2>2, <2>3
<1> PICK d : d = Inner(c, "attributes", {}, Past)
  OBVIOUS
<1>2. Place(d) /\ Zone(d, NotEnd, Past) /\ Turn(d, Past) /\ "eof" \notin NotEnd
  <2>1. "eof" \notin NotEnd
    BY DEF NotEnd
  <2> QED
    BY <1>1, <2>1, AfterLoops, InnerZones, InnerFacts
<1>3. After(d, <<Choose(<<Need({"="}), Match(Ident, <<May({":"})>>, <<>>)>>, <<>>)>>)
  BY <1>2, AfterRules, AfterTuple, NoEnd
<1>4. Spends(d, NotEnd, Past, <<Match({"contextual"},
                                   <<Choose(<<Need({"="}), Match(Ident, <<May({":"})>>, <<>>)>>, <<>>)>>,
                                   <<Skip>>), OrBreak({","})>>)
  <2>1. Spends(d, NotEnd, Past, <<Skip>>) /\ Aft(d, OrBreak({","}))
    BY <1>2, SpendSkip, Spend1, AfterRules
  <2> QED
    BY <1>2, <1>3, <2>1, SpendBranch, Spend2
<1>5. After(c, <<Until({")"}, "attributes", <<Match({"contextual"},
                                   <<Choose(<<Need({"="}), Match(Ident, <<May({":"})>>, <<>>)>>, <<>>)>>,
                                   <<Skip>>), OrBreak({","})>>), Need({")"})>>)
  BY <1>1, <1>4, AfterRules, AfterLoops, AfterTuple
<1>6. After(c, <<Match({"["}, <<May({"number"}), Need({"]"})>>, <<>>),
                 Match({","}, <<Loop("names", <<OrBreak(match_name), OrBreak({","})>>)>>, <<>>),
                 Need({";"}), Some>>)
  BY <1>1, ListSpends, AfterRules, AfterTuple, NoEnd
<1>7. Passes(c, Kind, {}, <<>>)
  BY <1>1, PassNone
<1> QED
  BY <1>1, <1>5, <1>6, <1>7, KeepBranch, KeepCall, KeepPlain, KeepJump, Pass5, NoEnd DEF parse_property

LEMMA ParameterKept == \A c : Settled(c) => Aft(c, MethodType) /\ After(c, Parameter)
<1> SUFFICES ASSUME NEW c, Settled(c) PROVE Aft(c, MethodType) /\ After(c, Parameter)
  OBVIOUS
<1>1. Place(c) /\ Callable(c, "type_full")
  BY Settle, Callables, Named
<1>2. Aft(c, MethodType)
  BY <1>1, AfterRules, AfterTuple DEF MethodType
<1> QED
  BY <1>1, <1>2, AfterRules, AfterTuple, NoEnd DEF Parameter

LEMMA CParametersKept == \A c : Settled(c) => Aft(c, CParameters)
<1> SUFFICES ASSUME NEW c, Settled(c) PROVE Aft(c, CParameters)
  OBVIOUS
<1> PICK d : d = Inner(c, "parameters", {}, Past)
  OBVIOUS
<1>1. Place(c) /\ Place(d) /\ Zone(d, NotEnd, Past) /\ Turn(d, Past) /\ Passes(d, NotEnd, Past, <<>>)
      /\ After(d, <<>>)
  BY AfterLoops, InnerZones, Settle, PassNone, AfterRules
<1>2. Callable(d, "type_full") /\ Lower(d, "type_full", Past)
  BY <1>1, InnerZones, Callables
<1>3. Keeps(d, NotEnd, Past, IfOk(<<May(is_name_token)>>, <<>>))
  BY <1>1, KeepSmall, Pass1, KeepBranch, NoEnd
<1>4. Spends(d, NotEnd, Past, <<Call("type_full"), IfOk(<<May(is_name_token)>>, <<>>), OrBreak({","})>>)
  BY <1>1, <1>2, <1>3, KeepCall, KeepSmall, Pass1, Spend2, Spend3
<1> QED
  BY <1>1, <1>4, AfterRules, AfterLoops, AfterTuple DEF CParameters

LEMMA MethodBodyKept == \A c : Settled(c) => After(c, MethodBody)
<1> SUFFICES ASSUME NEW c, Settled(c) PROVE After(c, MethodBody)
  OBVIOUS
<1>1. Place(c) /\ Zone(c, {}, Past) /\ Lower(c, "compound_statement", Past)
  BY Settle, InnerZones DEF Zone, Case
<1>2. After(c, <<Need({";"})>>)
  BY <1>1, AfterRules, AfterTuple
<1>3. Aft(c, Look({"{"}, <<Call("compound_statement")>>, <<Need({";"})>>))
  BY <1>1, <1>2, BlockCall DEF Aft, After
<1> QED
  BY <1>1, <1>3, AfterRules, AfterTuple DEF MethodBody

LEMMA MethodObeyed == \A c : Called(c, "method") /\ Settled(c) => Passes(c, Kind, {}, parse_method)
<1> SUFFICES ASSUME NEW c, Called(c, "method"), Settled(c) PROVE Passes(c, Kind, {}, parse_method)
  OBVIOUS
<1>1. Place(c) /\ Zone(c, Kind, {}) /\ c.f \notin Answers /\ Kind \subseteq Stays(c.f, FALSE)
  BY CalledZone DEF Called, Stays, Opener, Answers
<1>2. Spends(c, Kind, {}, <<Match({"+", "-"}, <<>>, <<None>>)>>)
  BY <1>1, KeepJump, SpendBranch, Spend1, AfterRules
<1>3. Aft(c, While(LaterPart, "parts", <<Match({":"}, Parameter, <<Break>>)>>))
  <2> PICK d : d = Inner(c, "parts", {}, Past)
    OBVIOUS
  <2>1. Settled(d) /\ Place(d) /\ Turn(d, Past)
    BY <1>1, AfterLoops, Settle
  <2>2. After(d, <<Match({":"}, Parameter, <<Break>>)>>)
    BY <2>1, ParameterKept, AfterRules, AfterTuple
  <2> QED
    BY <1>1, <2>2, AfterLoops, NoEnd
<1>4. After(c, Parameter \o <<While(LaterPart, "parts", <<Match({":"}, Parameter, <<Break>>)>>)>> \o MethodBody)
  BY <1>1, <1>3, ParameterKept, MethodBodyKept, AfterRules, AfterTuple
<1>5. After(c, <<Match({":"}, Parameter
                       \o <<While(LaterPart, "parts", <<Match({":"}, Parameter, <<Break>>)>>)>>
                       \o MethodBody, <<>>)>>)
  BY <1>1, <1>4, AfterRules, AfterTuple
<1>6. After(c, <<MethodType,
                 Match(FirstPart,
                   <<Match({":"}, Parameter
                             \o <<While(LaterPart, "parts", <<Match({":"}, Parameter, <<Break>>)>>)>>
                             \o MethodBody, <<>>)>>, <<>>),
                 CParameters>>)
  BY <1>1, <1>5, ParameterKept, CParametersKept, AfterRules, AfterTuple, NoEnd
<1>7. Spends(c, Kind, {}, parse_method)
  BY <1>2, <1>6, Join4at1, MethodBodyKept, PassJoin DEF parse_method
<1> QED
  BY <1>1, <1>7, PassJoin

LEMMA ProtocolObeyed == \A c : Called(c, "protocol") /\ Settled(c) => Passes(c, Kind, {}, parse_protocol)
<1> SUFFICES ASSUME NEW c, Called(c, "protocol"), Settled(c) PROVE Passes(c, Kind, {}, parse_protocol)
  OBVIOUS
<1>1. "protocol" \in Opener
  BY DEF Opener
<1>2. /\ Place(c) /\ Zone(c, Kind, {}) /\ Zone(c, {}, Past)
      /\ Zone(c, {"eof"}, {}) /\ {"eof"} \subseteq Stays(c.f, FALSE)
  BY <1>1, AtEnd, CalledZone, Zones
<1>3. Spends(c, {"eof"}, {}, <<Match(match_name, <<>>, <<Error, None>>)>>)
  BY <1>2, PassNone, SpendBranch, AfterRules, Spend1, NoEnd
<1> PICK d : d = Inner(c, "members", {}, Past)
  OBVIOUS
<1>4. Settled(d) /\ Place(d) /\ Zone(d, NotEnd, Past) /\ Turn(d, Past)
  BY <1>2, AfterLoops, InnerZones, Settle
<1>5. Spends(d, NotEnd, Past, <<Match({"@end"}, <<Break>>, <<>>), Match({"@optional"}, <<Continue>>, <<>>),
                                Call("method"), IfOk(<<>>, <<Skip>>)>>)
  <2>1. Callable(d, "method") /\ Lower(d, "method", Past) /\ "method" \in Takes \ Opener
    BY <1>4, InnerZones, Callables, Named DEF Takes, Opener
  <2>2. Spends(d, NotEnd, Past, <<Call("method"), IfOk(<<>>, <<Skip>>)>>)
    BY <1>4, <2>1, TakeOrSkip
  <2>3. After(d, <<Break>>) /\ After(d, <<Continue>>) /\ Passes(d, NotEnd, Past, <<>>)
    BY <1>4, AfterRules, AfterTuple, PassNone
  <2> QED
    BY <1>4, <2>2, <2>3, KeepBranch, Pass2, Spend4
<1>6. Aft(c, Protocols)
  BY <1>2, ProtocolsKept DEF Aft
<1>7. After(c, <<Protocols, Until({}, "members",
            <<Match({"@end"}, <<Break>>, <<>>), Match({"@optional"}, <<Continue>>, <<>>),
              Call("method"), IfOk(<<>>, <<Skip>>)>>), Some>>)
  BY <1>2, <1>5, <1>6, AfterRules, AfterLoops, AfterTuple
<1>8. Spends(c, Kind, {}, parse_protocol)
  BY <1>2, <1>3, <1>7, Join4at1, OpensTuple DEF parse_protocol
<1> QED
  BY <1>2, <1>8, PassJoin

LEMMA ForwardClassObeyed ==
    \A c : Called(c, "forward_class") /\ Settled(c) => Passes(c, Kind, {}, parse_forward_class)
<1> SUFFICES ASSUME NEW c, Called(c, "forward_class"), Settled(c) PROVE Passes(c, Kind, {}, parse_forward_class)
  OBVIOUS
<1>1. "forward_class" \in Opener
  BY DEF Opener
<1> PICK k : k = {"eof"}
  OBVIOUS
<1>2. Place(c) /\ Zone(c, k, {}) /\ k \subseteq Stays(c.f, TRUE)
  BY <1>1, AtEnd
<1> PICK d : d = Inner(c, "names", k, {})
  OBVIOUS
<1>3. Place(d) /\ Zone(d, Kind, {}) /\ Turn(d, {}) /\ Turn(d, Past)
  BY <1>2, Zones, TurnFacts, InnerFacts
<1>4. Spends(d, Kind, {}, <<OrBreak(Ident), OrBreak({","})>>)
  BY <1>3, KeepSmall, AfterRules, Spend2, NoEnd
<1>5. Passes(c, k, {}, <<Loop("names", <<OrBreak(Ident), OrBreak({","})>>), Need({";"}), Some>>)
  BY <1>2, <1>4, KeepLoop, KeepPlain, KeepJump, Pass3
<1> QED
  BY <1>2, <1>5, OpensTuple DEF parse_forward_class

LEMMA NamespaceObeyed == \A c : Called(c, "namespace") /\ Settled(c) => Passes(c, Kind, {}, parse_namespace)
<1> SUFFICES ASSUME NEW c, Called(c, "namespace"), Settled(c) PROVE Passes(c, Kind, {}, parse_namespace)
  OBVIOUS
<1>1. "namespace" \in Opener /\ Lower(c, "qualified_name_with_keywords", {})
  BY Ranks DEF Opener, Called, Lower
<1>2. /\ Spends(c, {"eof"}, {}, <<Call("qualified_name_with_keywords"), IfOk(<<>>, <<Error, None>>)>>)
      /\ Place(c) /\ Zone(c, Kind, {})
  BY <1>1, AtEnd, NameSpends, CalledZone
<1> PICK d : d = Inner(c, "members", {}, Past)
  OBVIOUS
<1>3. Settled(d) /\ Place(d) /\ Zone(d, NotEnd, Past) /\ Turn(d, Past)
  BY <1>2, AfterLoops, InnerZones, Settle
<1>4. Spends(d, NotEnd, Past, <<Match({"@endnamespace"}, <<Break>>, <<>>),
                                Call("declaration"), IfOk(<<>>, <<Skip>>)>>)
  <2>1. Callable(d, "declaration") /\ Lower(d, "declaration", Past) /\ "declaration" \in Takes \ Opener
    BY <1>3, InnerZones, Callables, Named DEF Takes, Opener
  <2>2. Spends(d, NotEnd, Past, <<Call("declaration"), IfOk(<<>>, <<Skip>>)>>)
    BY <1>3, <2>1, TakeOrSkip
  <2>3. After(d, <<Break>>) /\ Passes(d, NotEnd, Past, <<>>)
    BY <1>3, AfterRules, AfterTuple, PassNone
  <2> QED
    BY <1>3, <2>2, <2>3, KeepBranch, Pass1, Spend3
<1>5. After(c, <<Until({}, "members", <<Match({"@endnamespace"}, <<Break>>, <<>>),
                                Call("declaration"), IfOk(<<>>, <<Skip>>)>>), Some>>)
  BY <1>2, <1>4, AfterRules, AfterLoops, AfterTuple
<1>6. Spends(c, Kind, {}, parse_namespace)
  BY <1>2, <1>5, Join4at2, OpensTuple DEF parse_namespace
<1> QED
  BY <1>2, <1>6, PassJoin

LEMMA UsingObeyed == \A c : Called(c, "using") /\ Settled(c) => Passes(c, Kind, {}, parse_using)
<1> SUFFICES ASSUME NEW c, Called(c, "using"), Settled(c) PROVE Passes(c, Kind, {}, parse_using)
  OBVIOUS
<1>1. "using" \in Opener /\ c.f \notin Answers
  BY DEF Opener, Answers, Called
<1> PICK k : k = {"eof"}
  OBVIOUS
<1>2. Place(c) /\ Zone(c, k, {}) /\ k \subseteq Stays(c.f, TRUE)
  BY <1>1, AtEnd
<1>3. Callable(c, "qualified_name_with_keywords") /\ Callable(c, "type_full")
  BY Callables, Named
<1>4. "eof" \notin {"@namespace"} \cup Ident
  BY NoEnd
<1>5. After(c, <<Choose(<<Call("qualified_name_with_keywords"), Need({";"}), IfOk(<<Some>>, <<None>>)>>,
                        <<Match({"="}, <<Call("type_full")>>, <<MoreNames(Ident)>>)>>)>>)
  BY <1>1, <1>2, <1>3, MoreNamesKept, AfterRules, AfterTuple, NoEnd
<1>6. Passes(c, k, {}, <<>>)
  BY <1>2, PassNone
<1>7. Keeps(c, k, {}, Match({"@namespace"} \cup Ident,
            <<Choose(<<Call("qualified_name_with_keywords"), Need({";"}), IfOk(<<Some>>, <<None>>)>>,
                     <<Match({"="}, <<Call("type_full")>>, <<MoreNames(Ident)>>)>>)>>, <<>>))
  BY <1>2, <1>4, <1>5, <1>6, KeepBranch
<1>8. Passes(c, k, {}, <<Match({"@namespace"} \cup Ident,
            <<Choose(<<Call("qualified_name_with_keywords"), Need({";"}), IfOk(<<Some>>, <<None>>)>>,
                     <<Match({"="}, <<Call("type_full")>>, <<MoreNames(Ident)>>)>>)>>, <<>>), Need({";"}), Some>>)
  BY <1>2, <1>7, KeepPlain, KeepJump, Pass3
<1> QED
  BY <1>2, <1>8, OpensTuple DEF parse_using

LEMMA ChainThree ==
    \A c, a, b, d, q, r, s, t :
        Fits(c, a, q, r) /\ Fits(c, b, r, s) /\ Fits(c, d, s, t) => Chain(c, <<a, b, d>>, q, t)
<1> SUFFICES ASSUME NEW c, NEW a, NEW b, NEW d, NEW q, NEW r, NEW s, NEW t,
                    Fits(c, a, q, r), Fits(c, b, r, s), Fits(c, d, s, t)
             PROVE  Chain(c, <<a, b, d>>, q, t)
  OBVIOUS
<1>1. <<a, b, d>> = <<a>> \o <<b, d>>
  BY Split3
<1>2. Chain(c, <<a>>, q, r) /\ Chain(c, <<b, d>>, r, t)
  BY ChainOne, ChainTwo
<1>3. Chain(c, <<a>> \o <<b, d>>, q, t)
  BY <1>2, ChainJoin
<1> QED
  BY <1>1, <1>3

-----------------------------------------------------------------------------
(* Recovery.                                                                 *)
\* What a recovery skips a token with: only a block drops it.
Excused(x, q) == x = Skip \/ (x = Drop /\ "excused" \in q.facts)
LEMMA FitsExcused ==
    \A c, x, q, r :
        /\ Excused(x, q) /\ "eof" \notin q.here
        /\ Implies(Consumed(q, Kind), r) /\ Implies(Among(q, {"eof"}), r)
        => Fits(c, x, q, r)
BY FitsSkip, FitsDrop DEF Excused

LEMMA FitsForced ==
    \A c, q, E, x :
        /\ Context(c) /\ c.mood = "settled" /\ c.loop # "none" /\ Mood(q) = {"settled"} /\ q.here \subseteq Kind
        /\ Stayed(q) \cap E = {} /\ "eof" \in E
        /\ x = Skip \/ (x = Drop /\ c.loop = "statements" /\ "gone" \in q.facts)
        => Fits(c, IfStill(<<Look(E, <<>>, <<x>>)>>), q, Beyond(c))
<1> SUFFICES ASSUME NEW c, NEW q, NEW E, NEW x,
                    Context(c), c.mood = "settled", c.loop # "none", Mood(q) = {"settled"}, q.here \subseteq Kind,
                    Stayed(q) \cap E = {}, "eof" \in E,
                    x = Skip \/ (x = Drop /\ c.loop = "statements" /\ "gone" \in q.facts)
             PROVE  Fits(c, IfStill(<<Look(E, <<>>, <<x>>)>>), q, Beyond(c))
  OBVIOUS
<1> PICK w : w = Still(q, c.loop)
  OBVIOUS
<1>1. /\ w.here = q.here /\ w.some = q.some /\ w.none = q.none /\ q.facts \subseteq w.facts
      /\ Mood(w) = {"settled"} /\ (x = Drop => "excused" \in w.facts)
  <2>1. x = Drop => c.loop = "statements" /\ "gone" \in q.facts
    BY DEF Skip, Drop
  <2> QED
    BY <2>1 DEF Still, With, Mood
<1> PICK r : r = Beyond(c)
  OBVIOUS
<1>2. r.here = Kind /\ r.some = {} /\ r.none = {} /\ r.facts = {"settled", "past"}
  BY DEF Beyond, At, Past
<1>3. Implies(Left(q), r)
  BY <1>2 DEF Left, Implies, Moved, Stayed, Mood
<1>4. Implies(Among(w, E), r)
  BY <1>1, <1>2 DEF Among, Implies, Moved, Stayed, Mood
<1> PICK t : t = Without(w, E)
  OBVIOUS
<1>5. Mood(t) = {c.mood} /\ "eof" \notin t.here /\ Excused(x, t) /\ "eof" \notin t.some /\ "eof" \notin t.none
  BY <1>1 DEF Without, Mood, Excused
<1>6. Implies(Consumed(t, Kind), r)
  BY <1>5, ConsumedAt
<1>7. Implies(Among(t, {"eof"}), r)
  BY <1>2, <1>5 DEF Among, Implies, Moved, Stayed, Mood
<1>8. Fits(c, x, t, r)
  BY <1>5, <1>6, <1>7, FitsExcused
<1>9. Fits(c, Look(E, <<>>, <<x>>), w, r)
  BY <1>4, <1>8, Nothing, ChainOne, FitsLook
<1> QED
  BY <1>3, <1>9, ChainOne, FitsStill

\* Synchronisation: it stops at the end of the file, after a semicolon or at a point of recovery.
LEMMA FitsSynchronize ==
    \A c, q, r, x :
        /\ Mood(q) = {"settled"} /\ c.mood = "settled"
        /\ x = Skip \/ (x = Drop /\ "ended" \in q.facts)
        /\ "gone" \in q.facts <=> "ended" \in q.facts
        /\ r = [here |-> Kind, some |-> Stayed(q), none |-> Stayed(q),
                facts |-> {"settled"} \cup (q.facts \cap {"gone"})]
        => Fits(c, Loop("synchronize", <<Look({"eof"}, <<Break>>, <<>>), AfterSemicolon(<<Break>>),
                                         Look(RecoveryPoint, <<Break>>, <<x>>)>>), q, r)
<1> SUFFICES ASSUME NEW c, NEW q, NEW r, NEW x, Mood(q) = {"settled"}, c.mood = "settled",
                    x = Skip \/ (x = Drop /\ "ended" \in q.facts), "gone" \in q.facts <=> "ended" \in q.facts,
                    r = [here |-> Kind, some |-> Stayed(q), none |-> Stayed(q),
                         facts |-> {"settled"} \cup (q.facts \cap {"gone"})]
             PROVE  Fits(c, Loop("synchronize", <<Look({"eof"}, <<Break>>, <<>>), AfterSemicolon(<<Break>>),
                                                  Look(RecoveryPoint, <<Break>>, <<x>>)>>), q, r)
  OBVIOUS
<1> PICK S : S = Stayed(q)
  OBVIOUS
<1> PICK T : T = Turning(q, "synchronize")
  OBVIOUS
<1>1. /\ "settled" \in T /\ "trial" \notin T /\ "excused" \notin T /\ r.facts \subseteq T
      /\ ("gone" \in T <=> "ended" \in T) /\ (x = Drop => "ended" \in T)
      /\ T \subseteq {"settled", "past", "gone", "ended"}
  <2>1. x = Drop => "ended" \in q.facts
    BY DEF Skip, Drop
  <2> QED
    BY <2>1 DEF Turning, Mood, Pass
<1>2. r.here = Kind /\ r.some = S /\ r.none = S
  OBVIOUS
<1> PICK d : d = InLoop(c, "synchronize", q, r)
  OBVIOUS
<1>3. d.loop = "synchronize" /\ d.keep = S /\ d.exit = r
  BY DEF InLoop
<1>4. ASSUME NEW u, NEW t, u.here \subseteq Kind, T \subseteq u.facts
      PROVE  Chain(d, <<Break>>, u, t)
  <2>1. Implies(Leaving(u, S), r)
    BY <1>1, <1>2, <1>4 DEF Leaving, Implies
  <2> QED
    BY <1>3, <2>1, FitsBreak, ChainOne
<1> PICK a, e : a = Open(Kind, T) /\ e = Turned(q, "synchronize")
  OBVIOUS
<1>5. a.here = Kind /\ a.facts = T /\ e.here = Kind /\ e.some = {} /\ e.none = {} /\ e.facts = T
  BY DEF Open, Turned, Reset
<1> PICK b : b = Without(a, {"eof"})
  OBVIOUS
<1>6. b.here \subseteq Kind /\ "eof" \notin b.here /\ "eof" \notin b.some /\ "eof" \notin b.none /\ b.facts = T
  BY <1>5 DEF Without, Open
<1>7. Fits(d, Look({"eof"}, <<Break>>, <<>>), a, b)
  <2>1. Among(a, {"eof"}).here \subseteq Kind /\ T \subseteq Among(a, {"eof"}).facts
    BY <1>5 DEF Among
  <2>2. Implies(b, b)
    BY DEF Implies, Moved
  <2> QED
    BY <1>4, <2>1, <2>2, Nothing, FitsLook
<1> PICK f : f = NotEnded(b)
  OBVIOUS
<1>8. /\ f.here = b.here /\ f.some = b.some /\ f.none = b.none /\ T \subseteq f.facts
      /\ f.facts \subseteq T \cup {"excused"} /\ ("ended" \in T <=> "excused" \in f.facts)
  BY <1>1, <1>6 DEF NotEnded, With
<1>9. Fits(d, AfterSemicolon(<<Break>>), b, f)
  <2>1. Implies(f, f)
    BY DEF Implies, Moved
  <2> QED
    BY <1>4, <1>6, <2>1, FitsAfterSemicolon
<1>10. Fits(d, Look(RecoveryPoint, <<Break>>, <<x>>), f, e)
  <2>1. Chain(d, <<Break>>, Among(f, RecoveryPoint), e)
    <3>1. Among(f, RecoveryPoint).here \subseteq Kind /\ T \subseteq Among(f, RecoveryPoint).facts
      BY <1>6, <1>8 DEF Among
    <3> QED
      BY <1>4, <3>1
  <2> PICK g : g = Without(f, RecoveryPoint)
    OBVIOUS
  <2>2. "eof" \notin g.here /\ "eof" \notin g.some /\ "eof" \notin g.none /\ g.facts = f.facts
    <3>1. g.here = f.here \ RecoveryPoint /\ g.some = f.some \ RecoveryPoint
          /\ g.none = f.none \ RecoveryPoint /\ g.facts = f.facts
      BY DEF Without
    <3> QED
      BY <1>6, <1>8, <3>1
  <2>3. Excused(x, g)
    BY <1>1, <1>8, <2>2 DEF Excused
  <2>4. Implies(Consumed(g, Kind), e)
    <3>1. T \ {"past"} \subseteq Consumed(g, Kind).facts
      <4>1. Mood(g) \subseteq Consumed(g, Kind).facts
            /\ ("excused" \in g.facts => Excuse \subseteq Consumed(g, Kind).facts)
        BY DEF Consumed
      <4>2. "settled" \in Mood(g)
        BY <1>1, <1>8, <2>2 DEF Mood
      <4>3. "ended" \in T => {"ended", "gone"} \subseteq Consumed(g, Kind).facts
        BY <1>8, <2>2, <4>1 DEF Excuse
      <4> QED
        BY <1>1, <4>1, <4>2, <4>3
    <3>2. Consumed(g, Kind).here = Kind /\ Consumed(g, Kind).some = {} /\ Consumed(g, Kind).none = {}
      BY DEF Consumed
    <3> QED
      BY <1>5, <3>1, <3>2 DEF Implies, Moved, Stayed
  <2>5. Implies(Among(g, {"eof"}), e)
    BY <1>5, <1>8, <2>2 DEF Among, Implies, Moved, Stayed
  <2>6. Fits(d, x, g, e)
    BY <2>2, <2>3, <2>4, <2>5, FitsExcused
  <2> QED
    BY <2>1, <2>6, ChainOne, FitsLook
<1>11. Chain(d, <<Look({"eof"}, <<Break>>, <<>>), AfterSemicolon(<<Break>>),
                  Look(RecoveryPoint, <<Break>>, <<x>>)>>, a, e)
  BY <1>7, <1>9, <1>10, ChainThree
<1> QED
  BY <1>11, FitsLoop

\* After a call that consumed a token or failed: what is skipped is reported, or follows a ";".
LEMMA FitsRecovery ==
    \A c, q, E, x :
        /\ Context(c) /\ c.mood = "settled" /\ c.loop # "none"
        /\ Mood(q) = {"settled"} /\ q.here = Kind /\ q.some = {} /\ q.none \cap (E \cup {"eof"}) = {}
        /\ x = Skip \/ (x = Drop /\ c.loop = "statements" /\ "answered" \in q.facts)
        => Fits(c, Recovery(E, x), q, Beyond(c))
<1> SUFFICES ASSUME NEW c, NEW q, NEW E, NEW x,
                    Context(c), c.mood = "settled", c.loop # "none",
                    Mood(q) = {"settled"}, q.here = Kind, q.some = {}, q.none \cap (E \cup {"eof"}) = {},
                    x = Skip \/ (x = Drop /\ c.loop = "statements" /\ "answered" \in q.facts)
             PROVE  Fits(c, Recovery(E, x), q, Beyond(c))
  OBVIOUS
<1> PICK k : k = E \cup {"eof"}
  OBVIOUS
<1> PICK forced : forced = IfStill(<<Look(k, <<>>, <<x>>)>>)
  OBVIOUS
<1>1. "eof" \in k
  OBVIOUS
<1>2. ASSUME NEW u, Mood(u) = {"settled"}, u.here \subseteq Kind, Stayed(u) \cap k = {},
             x = Skip \/ (x = Drop /\ c.loop = "statements" /\ "gone" \in u.facts)
      PROVE  Fits(c, forced, u, Beyond(c))
  BY <1>1, <1>2, FitsForced
<1>3. x = Drop => c.loop = "statements" /\ "answered" \in q.facts
  BY DEF Skip, Drop
<1>4. Chain(c, <<IfPanic(<<Recover, forced>>)>>, Succeeded(q), Beyond(c))
  <2> PICK u : u = Succeeded(q)
    OBVIOUS
  <2>1. u.here = Kind /\ u.some = {} /\ u.none = {} /\ Mood(u) = {"settled"}
    BY DEF Succeeded, Mood
  <2>2. Implies(u, Beyond(c))
    BY <2>1 DEF Implies, Beyond, At, Moved, Stayed, Past, Mood
  <2> PICK v : v = Recovering(Reported(u))
    OBVIOUS
  <2>3. v.here = Kind /\ v.some = {} /\ v.none = {} /\ Mood(v) = {"settled"} /\ "gone" \in v.facts
    BY <2>1 DEF Recovering, Reported, With, Mood, Blame
  <2>4. Fits(c, forced, v, Beyond(c))
    BY <1>2, <1>3, <2>3 DEF Stayed
  <2>5. Fits(c, Recover, Reported(u), v)
    <3>1. Implies(v, v)
      BY DEF Implies, Moved
    <3> QED
      BY <3>1, FitsRecover
  <2>6. Chain(c, <<Recover, forced>>, Reported(u), Beyond(c))
    BY <2>4, <2>5, ChainTwo
  <2> QED
    BY <2>2, <2>6, FitsIfPanic, ChainOne
<1>5. Chain(c, synchronize(x) \o <<forced>>, Failed(q), Beyond(c))
  <2> PICK u : u = Failed(q)
    OBVIOUS
  <2>1. u.here = Kind /\ u.some = {} /\ u.none = q.none /\ Mood(u) = {"settled"}
        /\ (x = Drop => "blamed" \in u.facts)
    BY <1>3 DEF Failed, Mood
  <2> PICK v : v = Recovering(u)
    OBVIOUS
  <2>2. v.here = Kind /\ v.some = {} /\ v.none = q.none /\ Mood(v) = {"settled"}
        /\ ("gone" \in v.facts <=> "ended" \in v.facts) /\ (x = Drop => "ended" \in v.facts)
    BY <2>1 DEF Recovering, Mood
  <2>3. Fits(c, Recover, u, v)
    <3>1. Implies(v, v)
      BY DEF Implies, Moved
    <3> QED
      BY <3>1, FitsRecover
  <2> PICK r : r = [here |-> Kind, some |-> Stayed(v), none |-> Stayed(v),
                    facts |-> {"settled"} \cup (v.facts \cap {"gone"})]
    OBVIOUS
  <2> PICK turns : turns = Loop("synchronize", <<Look({"eof"}, <<Break>>, <<>>), AfterSemicolon(<<Break>>),
                                                 Look(RecoveryPoint, <<Break>>, <<x>>)>>)
    OBVIOUS
  <2>4. Fits(c, turns, v, r)
    <3>1. x = Skip \/ (x = Drop /\ "ended" \in v.facts)
      BY <2>2
    <3> QED
      BY <2>2, <3>1, FitsSynchronize
  <2>5. Fits(c, forced, r, Beyond(c))
    <3>1. Mood(r) = {"settled"} /\ r.here \subseteq Kind /\ Stayed(r) = q.none
      BY <2>2 DEF Mood, Stayed
    <3>2. x = Skip \/ (x = Drop /\ c.loop = "statements" /\ "gone" \in r.facts)
      BY <1>3, <2>2
    <3> QED
      BY <1>2, <3>1, <3>2
  <2>6. Chain(c, <<Recover, turns>>, u, r) /\ Chain(c, <<forced>>, r, Beyond(c))
    BY <2>3, <2>4, <2>5, ChainTwo, ChainOne
  <2>7. synchronize(x) = <<Recover, turns>>
    BY DEF synchronize
  <2> QED
    BY <2>6, <2>7, ChainJoin
<1>6. Recovery(E, x) = IfOk(<<IfPanic(<<Recover, forced>>)>>, synchronize(x) \o <<forced>>)
  BY DEF Recovery
<1> QED
  BY <1>4, <1>5, <1>6, FitsIfOk

-----------------------------------------------------------------------------
(* Blocks.                                                                   *)
LEMMA StatementsKept ==
    \A c : Settled(c) => Aft(c, Until({"}"}, "statements", <<Call("statement"), Recovery({"}"}, Drop)>>))
<1> SUFFICES ASSUME NEW c, Settled(c)
             PROVE  Aft(c, Until({"}"}, "statements", <<Call("statement"), Recovery({"}"}, Drop)>>))
  OBVIOUS
<1> PICK d : d = Inner(c, "statements", {}, Past)
  OBVIOUS
<1>1. Settled(d) /\ Place(d) /\ Zone(d, Kind, Past) /\ Turn(d, Past) /\ d.loop = "statements"
  BY InnerZones, AfterLoops, Settle, InnerFacts
<1> PICK k, L : k = {"}"} /\ L = Kind \ {"}", "eof"}
  OBVIOUS
<1>2. L \cap (k \cup {"eof"}) = {} /\ Kind \ (k \cup {"eof"}) \subseteq L /\ L \subseteq Kind
  OBVIOUS
<1> PICK q : q = At(d.mood, L, Past)
  OBVIOUS
<1>3. Mood(q) = {"settled"} /\ q.here = Kind /\ Moved(q) /\ Stayed(q) = L
  BY <1>1 DEF Settled, At, Mood, Moved, Stayed, Past
<1> PICK s : s = Returned(q, "statement")
  OBVIOUS
<1>4. Mood(s) = {"settled"} /\ s.here = Kind /\ s.some = {} /\ s.none \subseteq L /\ "answered" \in s.facts
  <2>1. "statement" \in Answers /\ Stays("statement", TRUE) = {}
    BY DEF Answers, Stays, Takes, Opener
  <2> QED
    BY <1>3, <2>1 DEF Returned, Mood, Pass
<1>5. Fits(d, Call("statement"), q, s)
  <2>1. "statement" \in Function /\ Kind \subseteq First_token("statement") /\ d.mood = "settled"
    BY <1>1, FunctionNames, Named DEF First_token, Settled
  <2>2. Implies(s, s)
    BY DEF Implies, Moved
  <2> QED
    BY <1>3, <2>1, <2>2, FitsCall
<1>6. Fits(d, Recovery(k, Drop), s, Beyond(d))
  <2>1. Context(d) /\ d.mood = "settled" /\ d.loop # "none"
    BY <1>1 DEF Settled, Place
  <2>2. s.none \cap (k \cup {"eof"}) = {}
    BY <1>2, <1>4
  <2> QED
    BY <1>1, <1>4, <2>1, <2>2, FitsRecovery
<1>7. Chain(d, <<Call("statement"), Recovery(k, Drop)>>, q, Beyond(d))
  BY <1>5, <1>6, ChainTwo
<1>8. Spends(d, Kind, Past, <<Look(k \cup {"eof"}, <<Break>>, <<>>)>> \o <<Call("statement"), Recovery(k, Drop)>>)
  BY <1>1, <1>2, <1>7, Narrow DEF Spends
<1>9. Aft(c, Until(k, "statements", <<Call("statement"), Recovery(k, Drop)>>))
  BY <1>8, AfterLoops, Settle DEF Until
<1> QED
  BY <1>9

LEMMA CompoundObeyed ==
    \A c : Called(c, "compound_statement") /\ Settled(c)
        => Chain(c, parse_compound_statement, Open({"{"}, {"settled"}), Anything)
<1> SUFFICES ASSUME NEW c, Called(c, "compound_statement"), Settled(c)
             PROVE  Chain(c, parse_compound_statement, Open({"{"}, {"settled"}), Anything)
  OBVIOUS
<1>1. Place(c) /\ Context(c) /\ c.mood = "settled"
  BY DEF Settled, Place
<1>2. After(c, <<Until({"}"}, "statements", <<Call("statement"), Recovery({"}"}, Drop)>>), Need({"}"}), Some>>)
  BY <1>1, StatementsKept, AfterRules, AfterTuple
<1>3. ASSUME NEW t, After(c, t)
      PROVE  Chain(c, <<Need({"{"})>> \o t, Open({"{"}, {"settled"}), Anything)
  <2> PICK k : k = {"{"}
    OBVIOUS
  <2> PICK q : q = Open(k, {"settled"})
    OBVIOUS
  <2>1. q.here = k /\ q.some = k /\ q.none = k /\ Mood(q) = {c.mood} /\ "settled" \in q.facts
    BY <1>1 DEF Open, Mood
  <2>2. Implies(Consumed(q, k), Beyond(c))
    BY <1>1, <2>1, ConsumedAt
  <2>3. Implies(Reported(Without(q, k)), Beyond(c))
    BY <1>1, <2>1 DEF Reported, With, Without, Implies, Beyond, At, Moved, Stayed, Past
  <2>4. Chain(c, <<Need(k)>>, q, Beyond(c))
    <3>1. "eof" \notin k
      OBVIOUS
    <3> QED
      BY <2>2, <2>3, <3>1, FitsNeed, ChainOne
  <2>5. Implies(Beyond(c), Anything) /\ Implies(q, q)
    BY DEF Implies, Beyond, At, Anything, Open, Moved
  <2>6. Chain(c, <<Need(k)>> \o t, q, Beyond(c))
    BY <1>3, <2>4, ChainJoin DEF After, Passes, Beyond
  <2> QED
    BY <2>5, <2>6, Weaken
<1>4. Chain(c, <<Need({"{"})>> \o
               <<Until({"}"}, "statements", <<Call("statement"), Recovery({"}"}, Drop)>>), Need({"}"}), Some>>,
            Open({"{"}, {"settled"}), Anything)
  BY <1>2, <1>3
<1>5. \A y, u, w, v : <<y, u, w, v>> = <<y>> \o <<u, w, v>>
  BY Split4at1
<1> QED
  BY <1>4, <1>5 DEF parse_compound_statement

\* The unit is declarations until the end.
LEMMA UnitKept == UnitObeyed
<1> PICK q0 : q0 = Open(Kind, {"settled"})
  OBVIOUS
<1>1. /\ q0.here = Kind /\ q0.some = Kind /\ q0.none = Kind /\ q0.facts = {"settled"}
      /\ Mood(q0) = {"settled"} /\ ~Moved(q0) /\ Stayed(q0) = Kind
  <2>1. Kind # {}
    BY DEF Kind
  <2> QED
    BY <2>1 DEF Open, Mood, Moved, Stayed
<1> PICK d : d = InLoop(Outermost, "declarations", q0, q0)
  OBVIOUS
<1>2. /\ d.f = "translation_unit" /\ d.mood = "settled" /\ d.loop = "declarations" /\ d.loop # "none"
      /\ d.keep = Kind /\ d.exit = q0 /\ Outermost.mood = "settled" /\ Context(d)
  BY <1>1 DEF InLoop, Outermost, InFunction, Context
<1>3. Turning(q0, "declarations") = {"settled"} /\ Turned(q0, "declarations") = Reset({"settled"})
  BY <1>1 DEF Turning, Turned, Pass
<1> PICK E : E = {"eof"}
  OBVIOUS
<1>4. Fits(d, Look({} \cup E, <<Break>>, <<>>), q0, Without(q0, E))
  <2>1. Implies(Leaving(Among(q0, E), d.keep), d.exit)
    BY <1>1, <1>2 DEF Implies, Leaving, Among, Moved
  <2>2. Chain(d, <<Break>>, Among(q0, {} \cup E), Without(q0, E))
    BY <1>2, <2>1, FitsBreak, ChainOne
  <2>3. Chain(d, <<>>, Without(q0, {} \cup E), Without(q0, E))
    <3>1. Implies(Without(q0, E), Without(q0, E)) /\ {} \cup E = E
      BY DEF Implies, Moved
    <3> QED
      BY <3>1, Nothing
  <2> QED
    BY <2>2, <2>3, FitsLook
<1> PICK q : q = Without(q0, E)
  OBVIOUS
<1>5. Mood(q) = {"settled"} /\ q.here \subseteq Kind /\ Stayed(q) = Kind \ E
  BY <1>1 DEF Without, Mood, Stayed
<1> PICK s : s = Returned(q, "declaration")
  OBVIOUS
<1>6. Mood(s) = {"settled"} /\ s.here = Kind /\ s.some = {} /\ s.none \cap ({} \cup E) = {}
  <2>1. "declaration" \in Takes \ Opener
    BY DEF Takes, Opener
  <2>2. Stays("declaration", TRUE) = {}
    BY <2>1 DEF Stays
  <2> QED
    BY <1>5, <2>2 DEF Returned, Mood, Pass
<1>7. Fits(d, Call("declaration"), q, s)
  <2>1. "declaration" \in Function /\ Kind \subseteq First_token("declaration")
    BY FunctionNames, Named DEF First_token
  <2>2. Rank("declaration") < Rank(d.f)
    BY <1>2, Ranks
  <2>3. Implies(s, s)
    BY DEF Implies, Moved
  <2> QED
    BY <1>2, <1>5, <2>1, <2>2, <2>3, FitsCall
<1>8. Fits(d, Recovery({}, Skip), s, Beyond(d))
  BY <1>2, <1>6, FitsRecovery
<1>9. Chain(d, <<Call("declaration"), Recovery({}, Skip)>>, q, Beyond(d))
  BY <1>7, <1>8, ChainTwo
<1>10. Chain(d, <<Look({} \cup E, <<Break>>, <<>>)>> \o <<Call("declaration"), Recovery({}, Skip)>>, q0, Beyond(d))
  BY <1>4, <1>9, ChainOne, ChainJoin
<1>11. Implies(Beyond(d), Turned(q0, "declarations")) /\ Implies(q0, q0)
  BY <1>2, <1>3 DEF Implies, Beyond, At, Reset, Moved, Past
<1>12. Chain(d, <<Look({} \cup E, <<Break>>, <<>>)>> \o <<Call("declaration"), Recovery({}, Skip)>>,
             Open(Kind, Turning(q0, "declarations")), Turned(q0, "declarations"))
  BY <1>3, <1>10, <1>11, Weaken
<1>13. Fits(Outermost, Until({}, "declarations", <<Call("declaration"), Recovery({}, Skip)>>), q0, q0)
  <2>1. Mood(q0) = {Outermost.mood}
    BY <1>1, <1>2
  <2> QED
    BY <1>12, <2>1, FitsLoop DEF Until
<1>14. Implies(q0, Anything)
  BY <1>1 DEF Implies, Anything, Open, Moved
<1>15. Chain(Outermost, parse_translation_unit, q0, Anything)
  <2>1. Chain(Outermost, parse_translation_unit, q0, q0)
    BY <1>13, ChainOne DEF parse_translation_unit
  <2> QED
    BY <1>11, <1>14, <2>1, Weaken
<1> QED
  BY <1>15 DEF UnitObeyed

-----------------------------------------------------------------------------
\* What a lemma about a function says of its contract.
LEMMA Contract ==
    \A g, m, s : g \in Function \ {"compound_statement"} /\ m \in {"settled", "trial"}
                 /\ Passes(InFunction(g, m), Kind, {}, s)
        => Chain(InFunction(g, m), s, Start(g, m), Anything)
<1> SUFFICES ASSUME NEW g, NEW m, NEW s, g # "compound_statement",
                    Passes(InFunction(g, m), Kind, {}, s)
             PROVE  Chain(InFunction(g, m), s, Start(g, m), Anything)
  OBVIOUS
<1> PICK c, q, r : c = InFunction(g, m) /\ q = At(m, Kind, {}) /\ r = Start(g, m)
  OBVIOUS
<1>1. c.mood = m
  BY DEF InFunction
<1>2. Chain(c, s, q, q)
  BY <1>1 DEF Passes
<1>3. Implies(r, q)
  BY DEF Implies, At, Start, Open, First_token, Moved
<1>4. Implies(q, Anything)
  BY DEF Implies, At, Anything, Open, Moved
<1> QED
  BY <1>2, <1>3, <1>4, Weaken

LEMMA CalledSettled ==
    \A g \in Function : \A m \in {"settled", "trial"} :
        /\ Called(InFunction(g, m), g)
        /\ m = "settled" => Settled(InFunction(g, m))
BY DEF Called, Settled, Place, Context, InFunction

\* The program of each function.
LEMMA Programs ==
    /\ Program["qualified_name"] = parse_qualified_name
    /\ Program["qualified_name_with_keywords"] = parse_qualified_name_with_keywords
    /\ Program["type_name"] = parse_type_name
    /\ Program["type_full"] = parse_type_full
    /\ Program["primary"] = parse_primary
    /\ Program["block_literal"] = parse_block_literal
    /\ Program["postfix"] = parse_postfix
    /\ Program["unary"] = parse_unary
    /\ Program["binary"] = parse_binary
    /\ Program["conditional"] = parse_conditional
    /\ Program["assignment"] = parse_assignment
    /\ Program["expression"] = parse_expression
    /\ Program["asm_operand"] = parse_asm_operand
    /\ Program["asm_body"] = parse_asm_body
    /\ Program["statement"] = parse_statement
    /\ Program["attributes"] = parse_attributes
    /\ Program["decl_qualifiers"] = parse_decl_qualifiers
    /\ Program["raw_pragma_decl"] = parse_raw_pragma_decl
    /\ Program["function_decl_or_definition"] = parse_function_decl_or_definition
    /\ Program["declaration"] = parse_declaration
    /\ Program["declaration_inner"] = parse_declaration_inner
    /\ Program["typedef"] = parse_typedef
    /\ Program["struct_body"] = parse_struct_body
    /\ Program["enum"] = parse_enum
    /\ Program["interface_body"] = InterfaceBody
    /\ Program["class_interface"] = parse_class_interface
    /\ Program["class_implementation"] = parse_class_implementation
    /\ Program["property"] = parse_property
    /\ Program["method"] = parse_method
    /\ Program["protocol"] = parse_protocol
    /\ Program["forward_class"] = parse_forward_class
    /\ Program["namespace"] = parse_namespace
    /\ Program["using"] = parse_using
    /\ Program["compound_statement"] = parse_compound_statement
BY DEF Program

\* Every function keeps its contract.
LEMMA EachObeyed == Obeyed
<1> SUFFICES ASSUME NEW g \in Function, NEW m, m = "settled" \/ (m = "trial" /\ g \in TypeFunction)
             PROVE  Chain(InFunction(g, m), Program[g], Start(g, m), Anything)
  BY DEF Obeyed
<1> PICK c : c = InFunction(g, m)
  OBVIOUS
<1>2. Called(c, g) /\ (m = "settled" => Settled(c)) /\ m \in {"settled", "trial"}
  BY CalledSettled
<1>3. g \in Name
  BY FunctionNames
<1>4. g \notin TypeFunction => Settled(c)
  BY <1>2
<1>5. CASE g = "qualified_name"
  <2>1. Passes(c, Kind, {}, parse_qualified_name)
    BY <1>2, <1>5, QualifiedNameObeyed
  <2> QED
    BY <1>2, <1>5, <2>1, Programs, Contract
<1>6. CASE g = "qualified_name_with_keywords"
  <2>1. Passes(c, Kind, {}, parse_qualified_name_with_keywords)
    BY <1>2, <1>6, QualifiedNameObeyed
  <2> QED
    BY <1>2, <1>6, <2>1, Programs, Contract
<1>7. CASE g = "type_name"
  <2>1. Passes(c, Kind, {}, parse_type_name)
    BY <1>2, <1>7, TypeNameObeyed
  <2> QED
    BY <1>2, <1>7, <2>1, Programs, Contract
<1>8. CASE g = "type_full"
  <2>1. Passes(c, Kind, {}, parse_type_full)
    BY <1>2, <1>8, TypeFullObeyed
  <2> QED
    BY <1>2, <1>8, <2>1, Programs, Contract
<1>9. CASE g = "primary"
  <2>1. Passes(c, Kind, {}, parse_primary)
    <3>1. g \notin TypeFunction
      BY <1>9 DEF TypeFunction
    <3> QED
      BY <1>2, <1>4, <1>9, <3>1, PrimaryObeyed
  <2> QED
    BY <1>2, <1>9, <2>1, Programs, Contract
<1>10. CASE g = "block_literal"
  <2>1. Passes(c, Kind, {}, parse_block_literal)
    <3>1. g \notin TypeFunction
      BY <1>10 DEF TypeFunction
    <3> QED
      BY <1>2, <1>4, <1>10, <3>1, BlockLiteralObeyed
  <2> QED
    BY <1>2, <1>10, <2>1, Programs, Contract
<1>11. CASE g = "postfix"
  <2>1. Passes(c, Kind, {}, parse_postfix)
    <3>1. g \notin TypeFunction
      BY <1>11 DEF TypeFunction
    <3> QED
      BY <1>2, <1>4, <1>11, <3>1, PostfixObeyed
  <2> QED
    BY <1>2, <1>11, <2>1, Programs, Contract
<1>12. CASE g = "unary"
  <2>1. Passes(c, Kind, {}, parse_unary)
    <3>1. g \notin TypeFunction
      BY <1>12 DEF TypeFunction
    <3> QED
      BY <1>2, <1>4, <1>12, <3>1, UnaryObeyed
  <2> QED
    BY <1>2, <1>12, <2>1, Programs, Contract
<1>13. CASE g = "binary"
  <2>1. Passes(c, Kind, {}, parse_binary)
    <3>1. g \notin TypeFunction
      BY <1>13 DEF TypeFunction
    <3> QED
      BY <1>2, <1>4, <1>13, <3>1, BinaryObeyed
  <2> QED
    BY <1>2, <1>13, <2>1, Programs, Contract
<1>14. CASE g = "conditional"
  <2>1. Passes(c, Kind, {}, parse_conditional)
    <3>1. g \notin TypeFunction
      BY <1>14 DEF TypeFunction
    <3> QED
      BY <1>2, <1>4, <1>14, <3>1, ConditionalObeyed
  <2> QED
    BY <1>2, <1>14, <2>1, Programs, Contract
<1>15. CASE g = "assignment"
  <2>1. Passes(c, Kind, {}, parse_assignment)
    <3>1. g \notin TypeFunction
      BY <1>15 DEF TypeFunction
    <3> QED
      BY <1>2, <1>4, <1>15, <3>1, AssignmentObeyed
  <2> QED
    BY <1>2, <1>15, <2>1, Programs, Contract
<1>16. CASE g = "expression"
  <2>1. Passes(c, Kind, {}, parse_expression)
    <3>1. g \notin TypeFunction
      BY <1>16 DEF TypeFunction
    <3> QED
      BY <1>2, <1>4, <1>16, <3>1, ExpressionObeyed
  <2> QED
    BY <1>2, <1>16, <2>1, Programs, Contract
<1>17. CASE g = "asm_operand"
  <2>1. Passes(c, Kind, {}, parse_asm_operand)
    <3>1. g \notin TypeFunction
      BY <1>17 DEF TypeFunction
    <3> QED
      BY <1>2, <1>4, <1>17, <3>1, AsmOperandObeyed
  <2> QED
    BY <1>2, <1>17, <2>1, Programs, Contract
<1>18. CASE g = "asm_body"
  <2>1. Passes(c, Kind, {}, parse_asm_body)
    <3>1. g \notin TypeFunction
      BY <1>18 DEF TypeFunction
    <3> QED
      BY <1>2, <1>4, <1>18, <3>1, AsmBodyObeyed
  <2> QED
    BY <1>2, <1>18, <2>1, Programs, Contract
<1>19. CASE g = "statement"
  <2>1. Passes(c, Kind, {}, parse_statement)
    <3>1. g \notin TypeFunction
      BY <1>19 DEF TypeFunction
    <3> QED
      BY <1>2, <1>4, <1>19, <3>1, StatementObeyed
  <2> QED
    BY <1>2, <1>19, <2>1, Programs, Contract
<1>20. CASE g = "attributes"
  <2>1. Passes(c, Kind, {}, parse_attributes)
    BY <1>2, <1>20, AttributesObeyed
  <2> QED
    BY <1>2, <1>20, <2>1, Programs, Contract
<1>21. CASE g = "decl_qualifiers"
  <2>1. Passes(c, Kind, {}, parse_decl_qualifiers)
    BY <1>2, <1>21, DeclQualifiersObeyed
  <2> QED
    BY <1>2, <1>21, <2>1, Programs, Contract
<1>22. CASE g = "raw_pragma_decl"
  <2>1. Passes(c, Kind, {}, parse_raw_pragma_decl)
    BY <1>2, <1>22, RawPragmaObeyed
  <2> QED
    BY <1>2, <1>22, <2>1, Programs, Contract
<1>23. CASE g = "function_decl_or_definition"
  <2>1. Passes(c, Kind, {}, parse_function_decl_or_definition)
    <3>1. g \notin TypeFunction
      BY <1>23 DEF TypeFunction
    <3> QED
      BY <1>2, <1>4, <1>23, <3>1, FunctionObeyed
  <2> QED
    BY <1>2, <1>23, <2>1, Programs, Contract
<1>24. CASE g = "declaration"
  <2>1. Passes(c, Kind, {}, parse_declaration)
    <3>1. g \notin TypeFunction
      BY <1>24 DEF TypeFunction
    <3> QED
      BY <1>2, <1>4, <1>24, <3>1, DeclarationObeyed
  <2> QED
    BY <1>2, <1>24, <2>1, Programs, Contract
<1>25. CASE g = "declaration_inner"
  <2>1. Passes(c, Kind, {}, parse_declaration_inner)
    <3>1. g \notin TypeFunction
      BY <1>25 DEF TypeFunction
    <3> QED
      BY <1>2, <1>4, <1>25, <3>1, DeclarationInnerObeyed
  <2> QED
    BY <1>2, <1>25, <2>1, Programs, Contract
<1>26. CASE g = "typedef"
  <2>1. Passes(c, Kind, {}, parse_typedef)
    <3>1. g \notin TypeFunction
      BY <1>26 DEF TypeFunction
    <3> QED
      BY <1>2, <1>4, <1>26, <3>1, TypedefObeyed
  <2> QED
    BY <1>2, <1>26, <2>1, Programs, Contract
<1>27. CASE g = "struct_body"
  <2>1. Passes(c, Kind, {}, parse_struct_body)
    <3>1. g \notin TypeFunction
      BY <1>27 DEF TypeFunction
    <3> QED
      BY <1>2, <1>4, <1>27, <3>1, StructBodyObeyed
  <2> QED
    BY <1>2, <1>27, <2>1, Programs, Contract
<1>28. CASE g = "enum"
  <2>1. Passes(c, Kind, {}, parse_enum)
    <3>1. g \notin TypeFunction
      BY <1>28 DEF TypeFunction
    <3> QED
      BY <1>2, <1>4, <1>28, <3>1, EnumObeyed
  <2> QED
    BY <1>2, <1>28, <2>1, Programs, Contract
<1>29. CASE g = "interface_body"
  <2>1. Passes(c, Kind, {}, InterfaceBody)
    <3>1. g \notin TypeFunction
      BY <1>29 DEF TypeFunction
    <3> QED
      BY <1>2, <1>4, <1>29, <3>1, InterfaceBodyObeyed
  <2> QED
    BY <1>2, <1>29, <2>1, Programs, Contract
<1>30. CASE g = "class_interface"
  <2>1. Passes(c, Kind, {}, parse_class_interface)
    <3>1. g \notin TypeFunction
      BY <1>30 DEF TypeFunction
    <3> QED
      BY <1>2, <1>4, <1>30, <3>1, ClassInterfaceObeyed
  <2> QED
    BY <1>2, <1>30, <2>1, Programs, Contract
<1>31. CASE g = "class_implementation"
  <2>1. Passes(c, Kind, {}, parse_class_implementation)
    <3>1. g \notin TypeFunction
      BY <1>31 DEF TypeFunction
    <3> QED
      BY <1>2, <1>4, <1>31, <3>1, ClassImplementationObeyed
  <2> QED
    BY <1>2, <1>31, <2>1, Programs, Contract
<1>32. CASE g = "property"
  <2>1. Passes(c, Kind, {}, parse_property)
    <3>1. g \notin TypeFunction
      BY <1>32 DEF TypeFunction
    <3> QED
      BY <1>2, <1>4, <1>32, <3>1, PropertyObeyed
  <2> QED
    BY <1>2, <1>32, <2>1, Programs, Contract
<1>33. CASE g = "method"
  <2>1. Passes(c, Kind, {}, parse_method)
    <3>1. g \notin TypeFunction
      BY <1>33 DEF TypeFunction
    <3> QED
      BY <1>2, <1>4, <1>33, <3>1, MethodObeyed
  <2> QED
    BY <1>2, <1>33, <2>1, Programs, Contract
<1>34. CASE g = "protocol"
  <2>1. Passes(c, Kind, {}, parse_protocol)
    <3>1. g \notin TypeFunction
      BY <1>34 DEF TypeFunction
    <3> QED
      BY <1>2, <1>4, <1>34, <3>1, ProtocolObeyed
  <2> QED
    BY <1>2, <1>34, <2>1, Programs, Contract
<1>35. CASE g = "forward_class"
  <2>1. Passes(c, Kind, {}, parse_forward_class)
    <3>1. g \notin TypeFunction
      BY <1>35 DEF TypeFunction
    <3> QED
      BY <1>2, <1>4, <1>35, <3>1, ForwardClassObeyed
  <2> QED
    BY <1>2, <1>35, <2>1, Programs, Contract
<1>36. CASE g = "namespace"
  <2>1. Passes(c, Kind, {}, parse_namespace)
    <3>1. g \notin TypeFunction
      BY <1>36 DEF TypeFunction
    <3> QED
      BY <1>2, <1>4, <1>36, <3>1, NamespaceObeyed
  <2> QED
    BY <1>2, <1>36, <2>1, Programs, Contract
<1>37. CASE g = "using"
  <2>1. Passes(c, Kind, {}, parse_using)
    <3>1. g \notin TypeFunction
      BY <1>37 DEF TypeFunction
    <3> QED
      BY <1>2, <1>4, <1>37, <3>1, UsingObeyed
  <2> QED
    BY <1>2, <1>37, <2>1, Programs, Contract
<1>38. CASE g = "compound_statement"
  <2>1. g \notin TypeFunction
    BY <1>38 DEF TypeFunction
  <2>2. Chain(c, parse_compound_statement, Open({"{"}, {"settled"}), Anything)
    BY <1>2, <1>4, <1>38, <2>1, CompoundObeyed
  <2>3. Start(g, m) = Open({"{"}, {"settled"})
    BY <1>38, <2>1 DEF Start, First_token
  <2> QED
    BY <1>38, <2>2, <2>3, Programs
<1> QED
  BY <1>3, <1>5, <1>6, <1>7, <1>8, <1>9, <1>10, <1>11, <1>12, <1>13, <1>14, <1>15, <1>16, <1>17, <1>18, <1>19, <1>20, <1>21, <1>22, <1>23, <1>24, <1>25, <1>26, <1>27, <1>28, <1>29, <1>30, <1>31, <1>32, <1>33, <1>34, <1>35, <1>36, <1>37, <1>38 DEF Name

-----------------------------------------------------------------------------
(* The parser, from its start to its end.                                    *)

\* The invariant holds of a parser at its start, of a new one, of one that is
\* gone, and after every step.
LEMMA ParserInit == EntryPrograms /\ Init => IInv
BY EachObeyed, UnitKept, FirstState

LEMMA ParserNew == EntryPrograms /\ New => IInv'
BY EachObeyed, UnitKept, NewState

LEMMA ParserStep == IInv /\ [Next]_vars => IInv'
BY EachObeyed, NextKeeps

LEMMA ParserNone == (NoParser => IInv) /\ (Drop_parser => IInv')
BY Dropped

LEMMA ParserImplies == IInv => Progress /\ DropsReported
BY Sufficient
=============================================================================
