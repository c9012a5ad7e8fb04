------------------------- MODULE PreprocessorProofs -------------------------
(***************************************************************************)
(* Theorems about Preprocessor, for all names, files, lengths and depths.  *)
(***************************************************************************)
EXTENDS Preprocessor, SequenceTheorems, TLAPS

\* A stack whose top is changed.
LEMMA SetShape ==
    ASSUME NEW S, NEW s \in Seq(S), s # <<>>, NEW e \in S
    PROVE  LET r == [s EXCEPT ![Len(s)] = e]
           IN  /\ r \in Seq(S) /\ Len(r) = Len(s) /\ DOMAIN r = 1 .. Len(s)
               /\ \A i \in 1 .. Len(s) - 1 : r[i] = s[i]
               /\ r[Len(s)] = e
OBVIOUS

\* The lower part of a sequence: a stack that is popped.
LEMMA CutShape ==
    ASSUME NEW S, NEW s \in Seq(S), NEW n \in 0 .. Len(s)
    PROVE  LET r == SubSeq(s, 1, n)
           IN  /\ r \in Seq(S) /\ Len(r) = n /\ DOMAIN r = 1 .. n
               /\ \A i \in 1 .. n : r[i] = s[i]
OBVIOUS

Known == PathName \cup {Main}
Guard == Macro \cup {NoMacro}
Place == [path : Known, line : Nat]
Out == [line : Nat, guard : Guard]
Conditional ==
    [active : BOOLEAN, any_met : BOOLEAN, guard_name : Guard, pending_define : Nat,
     dirty : BOOLEAN, truth : Seq(BOOLEAN), closed : BOOLEAN]

TypeOK ==
    /\ reading \in Seq(Place) /\ resolved \subseteq Known
    /\ defined \subseteq Macro /\ cond_stack \in Seq(Conditional)
    /\ c_out \in Seq(Out) /\ line_map \in Seq(Known \X Nat)
    /\ count \in Nat /\ due \subseteq Nat
    /\ status \in {"reading", "done", "failed", "panic"}

-----------------------------------------------------------------------------
(* What a step makes of the open conditionals.                               *)

LEMMA Conditionals ==
    ASSUME TypeOK
    PROVE  /\ cond_stack \in Seq(Conditional) /\ Nest \in Nat /\ Len(cond_stack) = Nest
           /\ DOMAIN cond_stack = 1 .. Nest
           /\ \A i \in 1 .. Nest : cond_stack[i] \in Conditional
           /\ Nest # 0 => /\ cond_stack # <<>> /\ Inner = cond_stack[Nest] /\ Inner \in Conditional
                          /\ Nest - 1 \in Nat
<1>1. cond_stack \in Seq(Conditional)
  BY DEF TypeOK
<1> QED
  BY ONLY <1>1 DEF Nest, Inner

LEMMA Fields ==
    ASSUME NEW f \in Conditional
    PROVE  /\ f.active \in BOOLEAN /\ f.any_met \in BOOLEAN /\ f.guard_name \in Guard
           /\ f.pending_define \in Nat /\ f.dirty \in BOOLEAN /\ f.truth \in Seq(BOOLEAN)
           /\ f.closed \in BOOLEAN
BY DEF Conditional

\* The conditional at n, the innermost one or a new one, becomes f.
Becomes(n, f) ==
    /\ n \in {Nest, Nest + 1} /\ n # 0 /\ f \in Conditional
    /\ cond_stack' \in Seq(Conditional) /\ Len(cond_stack') = n
    /\ \A i \in 1 .. n - 1 : cond_stack'[i] = cond_stack[i]
    /\ cond_stack'[n] = f

LEMMA SetInnerShape ==
    ASSUME TypeOK, Nest # 0, NEW f \in Conditional, SetInner(f)
    PROVE  Becomes(Nest, f)
<1>1. cond_stack \in Seq(Conditional) /\ cond_stack # <<>> /\ Nest = Len(cond_stack)
  BY Conditionals
<1>2. cond_stack' = [cond_stack EXCEPT ![Len(cond_stack)] = f]
  BY <1>1 DEF SetInner
<1>3. /\ cond_stack' \in Seq(Conditional) /\ Len(cond_stack') = Len(cond_stack)
      /\ \A i \in 1 .. Len(cond_stack) - 1 : cond_stack'[i] = cond_stack[i]
      /\ cond_stack'[Len(cond_stack)] = f
  BY <1>1, <1>2, SetShape
<1> QED
  BY <1>1, <1>3 DEF Becomes

\* A conditional opens.
Opens(truthy, truth) ==
    /\ Becomes(Nest + 1, cond_stack'[Nest + 1])
    /\ cond_stack'[Nest + 1].active = truthy /\ cond_stack'[Nest + 1].any_met = truthy
    /\ cond_stack'[Nest + 1].truth = <<truth>> /\ cond_stack'[Nest + 1].closed = FALSE
    /\ cond_stack'[Nest + 1].pending_define = 0

LEMMA CondFrameType ==
    ASSUME NEW truthy \in BOOLEAN, NEW guard_name \in Guard, NEW truth \in BOOLEAN
    PROVE  LET f == CondFrame(truthy, guard_name, truth)
           IN  /\ f \in Conditional /\ f.active = truthy /\ f.any_met = truthy
               /\ f.truth = <<truth>> /\ f.closed = FALSE /\ f.pending_define = 0
<1>1. <<truth>> \in Seq(BOOLEAN)
  OBVIOUS
<1> QED
  BY <1>1 DEF CondFrame, Conditional

LEMMA PushOpens ==
    ASSUME TypeOK, NEW truthy \in BOOLEAN, NEW guard_name \in Guard, NEW truth \in BOOLEAN,
           Push(truthy, guard_name, truth)
    PROVE  Opens(truthy, truth) /\ UNCHANGED <<defined, c_out, line_map, due, status>>
<1> DEFINE f == CondFrame(truthy, guard_name, truth)
<1>1. /\ f \in Conditional /\ f.active = truthy /\ f.any_met = truthy
      /\ f.truth = <<truth>> /\ f.closed = FALSE /\ f.pending_define = 0
  BY CondFrameType
<1>2. /\ cond_stack' = Append(cond_stack, f)
      /\ UNCHANGED <<defined, c_out, line_map, due, status>>
  BY DEF Push
<1>3. cond_stack \in Seq(Conditional) /\ Len(cond_stack) = Nest /\ Nest \in Nat
  BY Conditionals
<1> HIDE DEF f
<1>4. /\ cond_stack' \in Seq(Conditional) /\ Len(cond_stack') = Nest + 1
      /\ \A i \in 1 .. Nest : cond_stack'[i] = cond_stack[i]
      /\ cond_stack'[Nest + 1] = f
  BY <1>1, <1>2, <1>3, AppendProperties
<1>5. (Nest + 1) - 1 = Nest /\ Nest + 1 # 0
  BY <1>3
<1> QED
  BY <1>1, <1>2, <1>4, <1>5 DEF Opens, Becomes

\* Poisoning changes no flag and no truth, and keeps no #define back.
LEMMA PoisonedIs ==
    ASSUME TypeOK, Nest # 0
    PROVE  /\ Poisoned \in Conditional /\ Poisoned.active = Inner.active
           /\ Poisoned.any_met = Inner.any_met /\ Poisoned.truth = Inner.truth
           /\ Poisoned.closed = Inner.closed /\ Poisoned.pending_define = 0
<1>1. Inner \in Conditional /\ Nest > 0
  BY Conditionals
<1>2. CASE Inner.guard_name # NoMacro \/ Inner.pending_define # 0
  <2>1. Poisoned = [Inner EXCEPT !.dirty = TRUE, !.guard_name = NoMacro, !.pending_define = 0]
    BY <1>1, <1>2 DEF Poisoned
  <2>2. NoMacro \in Guard
    BY DEF Guard
  <2> QED
    BY <1>1, <2>1, <2>2 DEF Conditional
<1>3. CASE ~(Inner.guard_name # NoMacro \/ Inner.pending_define # 0)
  BY <1>1, <1>3 DEF Poisoned
<1> QED
  BY <1>2, <1>3

\* The innermost conditional, if there is one, keeps its flags and truths.
Poisons ==
    IF Nest = 0 THEN UNCHANGED cond_stack
    ELSE /\ Becomes(Nest, cond_stack'[Nest])
         /\ cond_stack'[Nest].active = Inner.active /\ cond_stack'[Nest].any_met = Inner.any_met
         /\ cond_stack'[Nest].truth = Inner.truth /\ cond_stack'[Nest].closed = Inner.closed

LEMMA PoisonTop ==
    ASSUME TypeOK, poison_top_guard
    PROVE  Poisons /\ (Nest # 0 => cond_stack'[Nest].pending_define = 0)
<1>1. CASE Nest = 0
  BY <1>1 DEF poison_top_guard, Poisons
<1>2. CASE Nest # 0
  <2> DEFINE f == Poisoned
  <2>1. /\ f \in Conditional /\ f.active = Inner.active /\ f.any_met = Inner.any_met
        /\ f.truth = Inner.truth /\ f.closed = Inner.closed /\ f.pending_define = 0
    BY <1>2, PoisonedIs
  <2>2. SetInner(f)
    BY <1>2, Conditionals DEF poison_top_guard
  <2> HIDE DEF f
  <2>3. Becomes(Nest, f)
    BY <1>2, <2>1, <2>2, SetInnerShape
  <2> QED
    BY <1>2, <2>1, <2>3 DEF Poisons, Becomes
<1> QED
  BY <1>1, <1>2

\* Another branch of the innermost conditional.
Reopens(is_active, any_met, truth, closed) ==
    /\ Nest # 0 /\ Becomes(Nest, cond_stack'[Nest])
    /\ cond_stack'[Nest].active = is_active /\ cond_stack'[Nest].any_met = any_met
    /\ cond_stack'[Nest].truth = Append(Inner.truth, truth)
    /\ cond_stack'[Nest].closed = closed
    /\ cond_stack'[Nest].pending_define = 0

LEMMA BranchReopens ==
    ASSUME TypeOK, Nest # 0, NEW truth \in BOOLEAN, NEW is_active \in BOOLEAN,
           Branch(truth, is_active)
    PROVE  /\ Reopens(is_active, Inner.any_met \/ is_active, truth, Inner.closed)
           /\ c_out' = c_out \o Flushed /\ UNCHANGED <<defined, line_map, due, status>>
<1> DEFINE f == [Poisoned EXCEPT !.dirty = TRUE, !.guard_name = NoMacro,
                                 !.truth = Append(@, truth), !.active = is_active,
                                 !.any_met = @ \/ is_active]
<1>1. /\ f \in Conditional /\ f.active = is_active /\ f.any_met = (Inner.any_met \/ is_active)
      /\ f.truth = Append(Inner.truth, truth) /\ f.closed = Inner.closed
      /\ f.pending_define = 0
  <2>1. /\ Poisoned \in Conditional /\ Poisoned.truth = Inner.truth
        /\ Poisoned.any_met = Inner.any_met /\ Poisoned.closed = Inner.closed
        /\ Poisoned.pending_define = 0
    BY PoisonedIs
  <2>2. /\ NoMacro \in Guard /\ Poisoned.truth \in Seq(BOOLEAN)
        /\ Poisoned.any_met \in BOOLEAN
    BY <2>1, Fields DEF Guard
  <2>3. Append(Poisoned.truth, truth) \in Seq(BOOLEAN) /\ (Poisoned.any_met \/ is_active) \in BOOLEAN
    BY <2>2
  <2> QED
    BY <2>1, <2>2, <2>3 DEF Conditional
<1>2. SetInner(f) /\ c_out' = c_out \o Flushed /\ UNCHANGED <<defined, line_map, due, status>>
  BY DEF Branch
<1> HIDE DEF f
<1>3. Becomes(Nest, f)
  BY <1>1, <1>2, SetInnerShape
<1> QED
  BY <1>1, <1>2, <1>3 DEF Reopens, Becomes

LEMMA ElseReopens ==
    ASSUME TypeOK, Else
    PROVE  /\ Reopens(~Inner.any_met, Inner.any_met, TRUE, TRUE) /\ ~Inner.closed
           /\ c_out' = c_out \o Flushed /\ UNCHANGED <<defined, line_map, due, status>>
<1> DEFINE f == [Poisoned EXCEPT !.dirty = TRUE, !.guard_name = NoMacro,
                                 !.truth = Append(@, TRUE), !.active = ~Inner.any_met,
                                 !.closed = TRUE]
<1>0. Nest # 0 /\ ~Inner.closed
  BY Conditionals DEF Else
<1>1. /\ f \in Conditional /\ f.active = ~Inner.any_met /\ f.any_met = Inner.any_met
      /\ f.truth = Append(Inner.truth, TRUE) /\ f.closed = TRUE
      /\ f.pending_define = 0
  <2>1. /\ Poisoned \in Conditional /\ Poisoned.truth = Inner.truth
        /\ Poisoned.any_met = Inner.any_met /\ Poisoned.pending_define = 0
    BY <1>0, PoisonedIs
  <2>2. /\ NoMacro \in Guard /\ Poisoned.truth \in Seq(BOOLEAN)
        /\ (~Inner.any_met) \in BOOLEAN
    BY <2>1, Fields DEF Guard
  <2>3. Append(Poisoned.truth, TRUE) \in Seq(BOOLEAN)
    BY <2>2
  <2> QED
    BY <2>1, <2>2, <2>3 DEF Conditional
<1>2. SetInner(f) /\ c_out' = c_out \o Flushed /\ UNCHANGED <<defined, line_map, due, status>>
  BY DEF Else
<1> HIDE DEF f
<1>3. Becomes(Nest, f)
  BY <1>0, <1>1, <1>2, SetInnerShape
<1> QED
  BY <1>0, <1>1, <1>2, <1>3 DEF Reopens, Becomes

\* The innermost conditional ends.
Closes ==
    /\ Nest # 0 /\ cond_stack' \in Seq(Conditional) /\ Len(cond_stack') = Nest - 1
    /\ \A i \in 1 .. Nest - 1 : cond_stack'[i] = cond_stack[i]

LEMMA EndifCloses ==
    ASSUME TypeOK, Endif
    PROVE  /\ UNCHANGED <<defined, line_map, due, status>>
           /\ \/ Nest = 0 /\ UNCHANGED <<cond_stack, c_out>>
              \/ Closes /\ c_out' = c_out \o Closing
<1>1. UNCHANGED <<defined, line_map, due, status>>
  BY DEF Endif
<1>2. CASE Nest = 0
  BY <1>1, <1>2 DEF Endif
<1>3. CASE Nest # 0
  <2>1. cond_stack' = SubSeq(cond_stack, 1, Nest - 1) /\ c_out' = c_out \o Closing
    BY <1>3 DEF Endif
  <2>2. cond_stack \in Seq(Conditional) /\ Nest - 1 \in 0 .. Len(cond_stack)
    BY <1>3, Conditionals
  <2>3. /\ cond_stack' \in Seq(Conditional) /\ Len(cond_stack') = Nest - 1
        /\ \A i \in 1 .. Nest - 1 : cond_stack'[i] = cond_stack[i]
    BY <2>1, <2>2, CutShape
  <2> QED
    BY <1>1, <1>3, <2>1, <2>3 DEF Closes
<1> QED
  BY <1>2, <1>3

-----------------------------------------------------------------------------
(* What the steps do to the conditionals.                                    *)

\* A condition is true or false.
LEMMA ConditionIsBoolean ==
    ASSUME NEW c \in Condition, NEW digit \in BOOLEAN
    PROVE  eval_if_expr(c, digit) \in BOOLEAN
<1>1. CASE c.op = "defined"
  BY <1>1 DEF eval_if_expr
<1>2. CASE c.op = "!defined"
  BY <1>2 DEF eval_if_expr
<1>3. CASE c.op # "defined" /\ c.op # "!defined"
  BY <1>3 DEF eval_if_expr
<1> QED
  BY <1>1, <1>2, <1>3

ParentActive == Nest = 0 \/ AllActive(Nest - 1)

LEMMA ParentActiveIs ==
    ASSUME TypeOK
    PROVE  parent_active <=> ParentActive
BY Conditionals DEF parent_active, ParentActive, AllActive

\* A line that opens a conditional; parent_active may be TRUE though the
\* innermost conditional is not active.
LEMMA OpeningLine ==
    ASSUME TypeOK,
           \/ \E n \in Macro : Ifdef(n) \/ Ifndef(n)
           \/ \E c \in Condition, digit \in BOOLEAN : If(c, digit)
    PROVE  /\ UNCHANGED <<defined, c_out, line_map, due>>
           /\ status' \in {"reading", "panic"}
           /\ \/ UNCHANGED cond_stack
              \/ \E truth \in BOOLEAN : Opens(ParentActive /\ truth, truth)
<1>p. parent_active \in BOOLEAN /\ (parent_active <=> ParentActive)
  BY ParentActiveIs DEF parent_active, AllActive
<1>n. NoMacro \in Guard /\ Macro \subseteq Guard
  BY DEF Guard
<1>1. ASSUME NEW n \in Macro, Ifdef(n)
      PROVE  /\ UNCHANGED <<defined, c_out, line_map, due>> /\ status' = "reading"
             /\ \E truth \in BOOLEAN : Opens(ParentActive /\ truth, truth)
  <2> DEFINE t == n \in defined
             a == parent_active /\ t
  <2>1. t \in BOOLEAN /\ a \in BOOLEAN /\ (a = (ParentActive /\ t))
    BY <1>p DEF ParentActive, AllActive
  <2>2. Push(a, NoMacro, t) /\ status = "reading"
    BY <1>1 DEF Ifdef, ReadLine
  <2> HIDE DEF t, a
  <2>3. Opens(a, t) /\ UNCHANGED <<defined, c_out, line_map, due, status>>
    BY <1>n, <2>1, <2>2, PushOpens
  <2>4. Opens(ParentActive /\ t, t)
    BY <2>1, <2>3
  <2> QED
    BY <2>1, <2>2, <2>3, <2>4
<1>2. ASSUME NEW n \in Macro, Ifndef(n)
      PROVE  /\ UNCHANGED <<defined, c_out, line_map, due>> /\ status' = "reading"
             /\ \E truth \in BOOLEAN : Opens(ParentActive /\ truth, truth)
  <2> DEFINE t == n \notin defined
             a == parent_active /\ t
             g == IF a THEN n ELSE NoMacro
  <2>1. t \in BOOLEAN /\ a \in BOOLEAN /\ (a = (ParentActive /\ t)) /\ g \in Guard
    BY <1>n, <1>p DEF ParentActive, AllActive
  <2>2. Push(a, g, t) /\ status = "reading"
    BY <1>2 DEF Ifndef, ReadLine
  <2> HIDE DEF t, a, g
  <2>3. Opens(a, t) /\ UNCHANGED <<defined, c_out, line_map, due, status>>
    BY <2>1, <2>2, PushOpens
  <2>4. Opens(ParentActive /\ t, t)
    BY <2>1, <2>3
  <2> QED
    BY <2>1, <2>2, <2>3, <2>4
<1>3. ASSUME NEW c \in Condition, NEW digit \in BOOLEAN, If(c, digit)
      PROVE  /\ UNCHANGED <<defined, c_out, line_map, due>> /\ status' \in {"reading", "panic"}
             /\ UNCHANGED cond_stack \/ \E truth \in BOOLEAN : Opens(ParentActive /\ truth, truth)
  <2>1. CASE parent_active /\ c.op = "other"
    <3>1. Panic
      BY <1>3, <2>1 DEF If
    <3> QED
      BY <3>1 DEF Panic
  <2>2. CASE ~(parent_active /\ c.op = "other")
    <3> DEFINE t == eval_if_expr(c, digit)
               a == parent_active /\ t
    <3>1. t \in BOOLEAN
      BY ConditionIsBoolean
    <3>2. Push(a, NoMacro, t) /\ status = "reading"
      BY <1>3, <2>2 DEF If, ReadLine
    <3> HIDE DEF t
    <3>3. a \in BOOLEAN /\ (a = (ParentActive /\ t))
      BY <1>p, <3>1 DEF ParentActive, AllActive
    <3> HIDE DEF a
    <3>4. Opens(a, t) /\ UNCHANGED <<defined, c_out, line_map, due, status>>
      BY <1>n, <3>1, <3>2, <3>3, PushOpens
    <3>5. Opens(ParentActive /\ t, t)
      BY <3>3, <3>4
    <3> QED
      BY <3>1, <3>2, <3>4, <3>5
  <2> QED
    BY <2>1, <2>2
<1> QED
  BY <1>1, <1>2, <1>3

\* #elif.
LEMMA ElifLine ==
    ASSUME TypeOK, NEW c \in Condition, NEW digit \in BOOLEAN, Elif(c, digit)
    PROVE  /\ Nest # 0 /\ ~Inner.closed /\ UNCHANGED <<defined, line_map, due>>
           /\ status' \in {"reading", "panic"}
           /\ \/ UNCHANGED <<cond_stack, c_out>>
              \/ /\ c_out' = c_out \o Flushed
                 /\ \E truth \in BOOLEAN :
                       Reopens(~Inner.any_met /\ AllActive(Nest - 1) /\ truth,
                               Inner.any_met \/ (~Inner.any_met /\ AllActive(Nest - 1) /\ truth),
                               truth, FALSE)
<1>1. Nest # 0 /\ ~Inner.closed /\ status = "reading"
  BY Conditionals DEF Elif, ReadLine
<1>2. CASE ~Inner.any_met /\ parent_active /\ c.op = "other"
  <2>1. Panic
    BY <1>2 DEF Elif
  <2> QED
    BY <1>1, <2>1 DEF Panic
<1>3. CASE ~(~Inner.any_met /\ parent_active /\ c.op = "other")
  <2> DEFINE t == eval_if_expr(c, digit)
             a == ~Inner.any_met /\ parent_active /\ t
  <2>1. t \in BOOLEAN
    BY ConditionIsBoolean
  <2>2. Branch(t, a)
    BY <1>3 DEF Elif
  <2> HIDE DEF t
  <2>3. a \in BOOLEAN /\ a = (~Inner.any_met /\ AllActive(Nest - 1) /\ t)
    BY <1>1, <2>1 DEF parent_active
  <2> HIDE DEF a
  <2>4. /\ Reopens(a, Inner.any_met \/ a, t, Inner.closed)
        /\ c_out' = c_out \o Flushed /\ UNCHANGED <<defined, line_map, due, status>>
    BY <1>1, <2>1, <2>2, <2>3, BranchReopens
  <2>5. Inner.closed = FALSE
    BY <1>1, Conditionals, Fields
  <2> QED
    BY <1>1, <2>1, <2>3, <2>4, <2>5
<1> QED
  BY <1>2, <1>3

\* A #define in a conditional that it may be the guard of is held back.
Holds ==
    /\ Nest # 0 /\ Inner.pending_define = 0 /\ Poisons
    /\ cond_stack'[Nest].pending_define = count + 1 /\ UNCHANGED c_out

LEMMA DefineLine ==
    ASSUME TypeOK, NEW n \in Macro, Define(n)
    PROVE  /\ due' = due \cup {count + 1} /\ count' = count + 1 /\ UNCHANGED <<line_map, status>>
           /\ defined' = defined \cup {n} /\ status = "reading"
           /\ \/ Holds
              \/ /\ poison_top_guard
                 /\ c_out' = Append(c_out \o Flushed, Unguarded(count + 1))
<1>1. /\ due' = due \cup {count + 1} /\ count' = count + 1 /\ UNCHANGED <<line_map, status>>
      /\ defined' = defined \cup {n} /\ status = "reading"
  BY DEF Define, ReadLine
<1>2. CASE ~GuardsDefine(n)
  BY <1>1, <1>2 DEF Define
<1>3. CASE GuardsDefine(n)
  <2> DEFINE f == [Inner EXCEPT !.pending_define = count + 1]
  <2>1. Nest # 0 /\ Inner.pending_define = 0 /\ SetInner(f) /\ UNCHANGED c_out
    BY <1>3, Conditionals DEF Define, GuardsDefine
  <2>2. Inner \in Conditional /\ count + 1 \in Nat
    BY <2>1, Conditionals DEF TypeOK
  <2>3. /\ f \in Conditional /\ f.active = Inner.active /\ f.any_met = Inner.any_met
        /\ f.truth = Inner.truth /\ f.closed = Inner.closed /\ f.pending_define = count + 1
    BY <2>2 DEF Conditional
  <2> HIDE DEF f
  <2>4. Becomes(Nest, f)
    BY <2>1, <2>3, SetInnerShape
  <2>5. Holds
    BY <2>1, <2>3, <2>4 DEF Holds, Poisons, Becomes
  <2> QED
    BY <1>1, <2>5
<1> QED
  BY <1>2, <1>3

\* The lines that poison.
Poisoning ==
    \/ Directive \/ IncludeAgain \/ Text \/ ImportMissing
    \/ \E f \in PathName \cup {Main} : Import(f)

LEMMA PoisoningLine ==
    ASSUME Poisoning
    PROVE  poison_top_guard /\ count' = count + 1
BY DEF Poisoning, Directive, IncludeAgain, Text, ImportMissing, Import, ReadLine

\* The other ones leave the conditionals alone.
Still == Inert \/ EndOfFile \/ \E n \in Macro \cup {NoMacro} : Skipped(n)

LEMMA StillLine ==
    ASSUME Still
    PROVE  UNCHANGED <<cond_stack, c_out, due>> /\ count' \in {count, count + 1}
BY DEF Still, Inert, EndOfFile, Skipped, ReadLine

Opening ==
    \/ \E n \in Macro : Ifdef(n) \/ Ifndef(n)
    \/ \E c \in Condition, digit \in BOOLEAN : If(c, digit)

LEMMA Lines ==
    ASSUME Next
    PROVE  \/ Opening \/ Else \/ Endif \/ Poisoning \/ Still
           \/ \E c \in Condition, digit \in BOOLEAN : Elif(c, digit)
           \/ \E n \in Macro : Define(n)
BY DEF Next, Opening, Poisoning, Still

-----------------------------------------------------------------------------
(* Types.                                                                    *)

LEMMA EmptySequence == ASSUME NEW S PROVE <<>> \in Seq(S) /\ Len(<<>>) = 0
OBVIOUS

LEMMA TypeInit == Init => TypeOK
<1> SUFFICES ASSUME Init PROVE TypeOK
  OBVIOUS
<1>1. [path |-> Main, line |-> 0] \in Place
  BY DEF Place, Known
<1>2. reading \in Seq(Place)
  BY <1>1 DEF Init
<1>3. Main \in Known
  BY DEF Known
<1> QED
  BY <1>2, <1>3, EmptySequence DEF Init, TypeOK

\* What a step does to the conditionals keeps their types.
LEMMA CondTypes ==
    ASSUME TypeOK, Next
    PROVE  cond_stack' \in Seq(Conditional)
<1>0. cond_stack \in Seq(Conditional)
  BY DEF TypeOK
<1>1. CASE Opening
  BY <1>0, <1>1, OpeningLine DEF Opening, Opens, Becomes
<1>2. CASE Else
  BY <1>2, ElseReopens DEF Reopens, Becomes
<1>3. CASE Endif
  BY <1>0, <1>3, EndifCloses DEF Closes
<1>4. CASE Poisoning
  BY <1>0, <1>4, PoisoningLine, PoisonTop DEF Poisons, Becomes
<1>5. CASE Still
  BY <1>0, <1>5, StillLine
<1>6. ASSUME NEW c \in Condition, NEW digit \in BOOLEAN, Elif(c, digit)
      PROVE  cond_stack' \in Seq(Conditional)
  BY <1>0, <1>6, ElifLine DEF Reopens, Becomes
<1>7. ASSUME NEW n \in Macro, Define(n)
      PROVE  cond_stack' \in Seq(Conditional)
  BY <1>0, <1>7, DefineLine, PoisonTop DEF Holds, Poisons, Becomes
<1> QED
  BY <1>1, <1>2, <1>3, <1>4, <1>5, <1>6, <1>7, Lines

\* A held #define that is emitted, or nothing.
LEMMA FlushedIs ==
    ASSUME TypeOK
    PROVE  /\ Flushed \in Seq(Out)
           /\ Nest = 0 \/ Inner.pending_define = 0 => Flushed = <<>>
           /\ Nest # 0 /\ Inner.pending_define # 0 =>
                 Len(Flushed) = 1 /\ Flushed[1].line = Inner.pending_define
<1>1. CASE Nest = 0 \/ Inner.pending_define = 0
  BY <1>1, EmptySequence DEF Flushed
<1>2. CASE Nest # 0 /\ Inner.pending_define # 0
  <2>1. Flushed = <<Unguarded(Inner.pending_define)>>
    BY <1>2, Conditionals DEF Flushed
  <2>2. Inner.pending_define \in Nat /\ NoMacro \in Guard
    BY <1>2, Conditionals, Fields DEF Guard
  <2>3. /\ Unguarded(Inner.pending_define) \in Out
        /\ Unguarded(Inner.pending_define).line = Inner.pending_define
    BY <2>2 DEF Unguarded, Out
  <2> QED
    BY <1>2, <2>1, <2>3
<1> QED
  BY <1>1, <1>2

LEMMA ClosingIs ==
    ASSUME TypeOK, Nest # 0
    PROVE  /\ Closing \in Seq(Out)
           /\ Inner.pending_define = 0 => Closing = <<>>
           /\ Inner.pending_define # 0 =>
                 Len(Closing) = 1 /\ Closing[1].line = Inner.pending_define
<1>1. CASE Inner.pending_define = 0
  BY <1>1, EmptySequence DEF Closing
<1>2. CASE Inner.pending_define # 0
  <2> DEFINE g == IF Inner.dirty THEN NoMacro ELSE Inner.guard_name
             e == [line |-> Inner.pending_define, guard |-> g]
  <2>1. Closing = <<e>>
    BY <1>2 DEF Closing
  <2>2. Inner.pending_define \in Nat /\ g \in Guard
    BY Conditionals, Fields DEF Guard
  <2> HIDE DEF g
  <2>3. e \in Out /\ e.line = Inner.pending_define
    BY <2>2 DEF Out
  <2> HIDE DEF e
  <2> QED
    BY <1>2, <2>1, <2>3
<1> QED
  BY <1>1, <1>2

\* The output of a line of its own.
LEMMA UnguardedType ==
    ASSUME NEW n \in Nat
    PROVE  Unguarded(n) \in Out /\ Unguarded(n).line = n
BY DEF Unguarded, Out, Guard

LEMMA OutTypes ==
    ASSUME TypeOK, Next
    PROVE  c_out' \in Seq(Out) /\ due' \subseteq Nat
<1>0. c_out \in Seq(Out) /\ count + 1 \in Nat /\ due \subseteq Nat
  BY DEF TypeOK
<1>f. c_out \o Flushed \in Seq(Out)
  BY <1>0, FlushedIs, ConcatProperties
<1>a. Append(c_out \o Flushed, Unguarded(count + 1)) \in Seq(Out)
  BY <1>0, <1>f, UnguardedType, AppendProperties
<1>1. CASE Opening
  BY <1>0, <1>1, OpeningLine DEF Opening
<1>2. CASE Else
  BY <1>0, <1>2, <1>f, ElseReopens
<1>3. CASE Endif
  BY <1>0, <1>3, EndifCloses, ClosingIs, ConcatProperties DEF Closes
<1>4. CASE Poisoning
  BY <1>0, <1>4, <1>a, <1>f DEF Poisoning, Directive, IncludeAgain, Text, ImportMissing, Import
<1>5. CASE Still
  BY <1>0, <1>5, StillLine
<1>6. ASSUME NEW c \in Condition, NEW digit \in BOOLEAN, Elif(c, digit)
      PROVE  c_out' \in Seq(Out) /\ due' \subseteq Nat
  BY <1>0, <1>6, <1>f, ElifLine
<1>7. ASSUME NEW n \in Macro, Define(n)
      PROVE  c_out' \in Seq(Out) /\ due' \subseteq Nat
  BY <1>0, <1>7, <1>a, DefineLine DEF Holds
<1> QED
  BY <1>1, <1>2, <1>3, <1>4, <1>5, <1>6, <1>7, Lines

\* The file being read.
Here == reading[Len(reading)]

\* A line of the innermost file is read, and, with an #import, a file begun.
Advanced(r) ==
    /\ reading # <<>> /\ r \in Seq(Place) /\ Len(r) = Len(reading)
    /\ \A i \in 1 .. Len(reading) - 1 : r[i] = reading[i]
    /\ r[Len(reading)].path = Here.path /\ r[Len(reading)].line = Here.line + 1

Entered(r, f) ==
    /\ r \in Seq(Place) /\ Len(r) = Len(reading) + 1
    /\ \A i \in 1 .. Len(reading) - 1 : r[i] = reading[i]
    /\ reading # <<>> /\ r[Len(reading)].path = Here.path /\ r[Len(reading)].line = Here.line + 1
    /\ r[Len(reading) + 1].path = f /\ r[Len(reading) + 1].line = 0

LEMMA Places ==
    ASSUME TypeOK, reading # <<>>
    PROVE  /\ reading \in Seq(Place) /\ Len(reading) \in Nat \ {0} /\ Here \in Place
           /\ Here.path \in Known /\ Here.line \in Nat
           /\ \A i \in 1 .. Len(reading) : reading[i] \in Place
<1>1. reading \in Seq(Place)
  BY DEF TypeOK
<1>2. Len(reading) \in Nat \ {0} /\ \A i \in 1 .. Len(reading) : reading[i] \in Place
  BY <1>1
<1>3. Here \in Place
  BY <1>1, <1>2 DEF Here
<1> QED
  BY <1>1, <1>2, <1>3 DEF Place

LEMMA AdvanceShape ==
    ASSUME TypeOK, reading # <<>>
    PROVE  Advanced([reading EXCEPT ![Len(reading)].line = @ + 1])
<1> DEFINE f == [Here EXCEPT !.line = @ + 1]
           r == [reading EXCEPT ![Len(reading)] = f]
<1>1. reading \in Seq(Place) /\ Here \in Place /\ Here.line \in Nat
  BY Places
<1>2. f \in Place /\ f.path = Here.path /\ f.line = Here.line + 1
  BY <1>1 DEF Place
<1>3. [reading EXCEPT ![Len(reading)].line = @ + 1] = r
  BY <1>1 DEF Here
<1> HIDE DEF f
<1>4. /\ r \in Seq(Place) /\ Len(r) = Len(reading)
      /\ \A i \in 1 .. Len(reading) - 1 : r[i] = reading[i]
      /\ r[Len(reading)] = f
  BY <1>1, <1>2, SetShape
<1> HIDE DEF r
<1> QED
  BY <1>2, <1>3, <1>4 DEF Advanced

LEMMA ReadLineAdvances ==
    ASSUME TypeOK, ReadLine
    PROVE  Advanced(reading') /\ UNCHANGED resolved /\ count' = count + 1
BY AdvanceShape DEF ReadLine

\* The files: a line is read, a file begins that is not known, or one ends.
LEMMA Files ==
    ASSUME TypeOK, Next
    PROVE  \/ Advanced(reading') /\ UNCHANGED resolved
           \/ \E f \in Known : /\ f \notin resolved /\ Entered(reading', f)
                              /\ resolved' = resolved \cup {f} /\ UNCHANGED line_map
           \/ /\ reading # <<>> /\ reading' \in Seq(Place) /\ Len(reading') = Len(reading) - 1
              /\ \A i \in 1 .. Len(reading) - 1 : reading'[i] = reading[i]
              /\ UNCHANGED <<resolved, line_map>>
<1>1. CASE ReadLine
  BY <1>1, ReadLineAdvances
<1>2. ASSUME NEW f \in PathName \cup {Main}, Import(f)
      PROVE  \/ Advanced(reading') /\ UNCHANGED resolved
             \/ \E x \in Known : /\ x \notin resolved /\ Entered(reading', x)
                                /\ resolved' = resolved \cup {x} /\ UNCHANGED line_map
  <2> DEFINE here == [reading EXCEPT ![Len(reading)].line = @ + 1]
  <2>0. /\ reading # <<>> /\ resolved' = resolved \cup {f} /\ UNCHANGED line_map
        /\ reading' = IF f \in resolved THEN here ELSE Append(here, [path |-> f, line |-> 0])
    BY <1>2 DEF Import
  <2>1. Advanced(here) /\ f \in Known
    BY <2>0, AdvanceShape DEF Known
  <2> HIDE DEF here
  <2>2. CASE f \in resolved
    <3>1. resolved' = resolved /\ reading' = here
      BY <2>0, <2>2
    <3> QED
      BY <2>1, <3>1
  <2>3. CASE f \notin resolved
    <3> DEFINE e == [path |-> f, line |-> 0]
    <3>1. e \in Place /\ e.path = f /\ e.line = 0
      BY <2>1 DEF Place
    <3>2. reading' = Append(here, e)
      BY <2>0, <2>3
    <3>3. here \in Seq(Place) /\ Len(here) = Len(reading) /\ Len(reading) \in Nat \ {0}
      BY <2>0, <2>1, Places DEF Advanced
    <3> HIDE DEF e
    <3>4. /\ reading' \in Seq(Place) /\ Len(reading') = Len(reading) + 1
          /\ \A i \in 1 .. Len(reading) : reading'[i] = here[i]
          /\ reading'[Len(reading) + 1] = e
      BY <3>1, <3>2, <3>3, AppendProperties
    <3>5. Len(reading) \in 1 .. Len(reading)
          /\ \A i \in 1 .. Len(reading) - 1 : i \in 1 .. Len(reading)
      BY <3>3
    <3>6. Entered(reading', f)
      BY <2>1, <3>1, <3>4, <3>5 DEF Entered, Advanced
    <3> QED
      BY <2>0, <2>1, <2>3, <3>6
  <2> QED
    BY <2>2, <2>3
<1>3. CASE EndOfFile
  <2>1. reading # <<>> /\ reading' = SubSeq(reading, 1, Len(reading) - 1) /\ UNCHANGED <<resolved, line_map>>
    BY <1>3 DEF EndOfFile
  <2>2. reading \in Seq(Place) /\ Len(reading) - 1 \in 0 .. Len(reading)
    BY <2>1, Places
  <2> QED
    BY <2>1, <2>2, CutShape
<1> QED
  BY <1>1, <1>2, <1>3
     DEF Next, Ifdef, Ifndef, Define, If, Elif, Else, Endif, Skipped, Directive, IncludeAgain,
         Text, Inert, ImportMissing

\* The lines that are emitted.
LEMMA LineMap ==
    ASSUME TypeOK, Next
    PROVE  \/ UNCHANGED line_map
           \/ /\ ReadLine /\ line_map' = Append(line_map, <<Here.path, Here.line + 1>>)
BY DEF Next, Ifdef, Ifndef, Define, If, Elif, Else, Endif, Skipped, Directive, IncludeAgain,
       Text, Inert, ImportMissing, Import, EndOfFile, Push, Panic, Branch, Emit, Here

LEMMA CountGrows == Next => count' \in {count, count + 1}
BY DEF Next, Ifdef, Ifndef, Define, If, Elif, Else, Endif, Skipped, Directive, IncludeAgain,
       Text, Inert, ImportMissing, Import, EndOfFile, ReadLine

LEMMA OtherTypes ==
    ASSUME TypeOK, Next
    PROVE  defined' \subseteq Macro /\ count' \in Nat /\ status' \in {"reading", "done", "failed", "panic"}
<1>0. defined \subseteq Macro /\ count \in Nat /\ status \in {"reading", "done", "failed", "panic"}
  BY DEF TypeOK
<1>c. count' \in Nat
  BY <1>0, CountGrows
<1>1. CASE Opening
  BY <1>0, <1>1, <1>c, OpeningLine DEF Opening
<1>2. CASE Else
  BY <1>0, <1>2, <1>c, ElseReopens
<1>3. CASE Endif
  BY <1>0, <1>3, <1>c, EndifCloses
<1>4. CASE Poisoning
  BY <1>0, <1>4, <1>c DEF Poisoning, Directive, IncludeAgain, Text, ImportMissing, Import
<1>5. CASE Still
  BY <1>0, <1>5, <1>c DEF Still, Inert, EndOfFile, Skipped
<1>6. ASSUME NEW c \in Condition, NEW digit \in BOOLEAN, Elif(c, digit)
      PROVE  defined' \subseteq Macro /\ status' \in {"reading", "done", "failed", "panic"}
  BY <1>0, <1>6, ElifLine
<1>7. ASSUME NEW n \in Macro, Define(n)
      PROVE  defined' \subseteq Macro /\ status' \in {"reading", "done", "failed", "panic"}
  BY <1>0, <1>7, DefineLine
<1> QED
  BY <1>1, <1>2, <1>3, <1>4, <1>5, <1>6, <1>7, <1>c, Lines

LEMMA TypeStep == TypeOK /\ [Next]_vars => TypeOK'
<1>1. ASSUME TypeOK, Next
      PROVE  TypeOK'
  <2>1. reading' \in Seq(Place) /\ resolved' \subseteq Known
    BY <1>1, Files DEF Advanced, Entered, TypeOK
  <2>2. line_map' \in Seq(Known \X Nat)
    <3>1. line_map \in Seq(Known \X Nat)
      BY <1>1 DEF TypeOK
    <3>2. CASE ReadLine /\ line_map' = Append(line_map, <<Here.path, Here.line + 1>>)
      <4>1. <<Here.path, Here.line + 1>> \in Known \X Nat
        BY <1>1, <3>2, Places DEF ReadLine
      <4> QED
        BY <3>1, <3>2, <4>1, AppendProperties
    <3> QED
      BY <1>1, <3>1, <3>2, LineMap
  <2> QED
    BY <1>1, <2>1, <2>2, CondTypes, OutTypes, OtherTypes DEF TypeOK
<1>2. ASSUME TypeOK, UNCHANGED vars
      PROVE  TypeOK'
  BY <1>2 DEF vars, TypeOK
<1> QED
  BY <1>1, <1>2

-----------------------------------------------------------------------------
(* Text belongs where it is emitted.                                         *)

\* A branch is the reference's one: its condition held, no earlier one did.
Chosen(f) == f.truth[Len(f.truth)] /\ \A j \in 1 .. Len(f.truth) - 1 : ~f.truth[j]
Met(f) == \E j \in 1 .. Len(f.truth) : f.truth[j]

Active(s, n) == \A i \in 1 .. n : s[i].active
AllChosen(s, n) == \A i \in 1 .. n : Chosen(s[i])

\* At every depth, the flags say what the conditions say; and where text would
\* be emitted around a conditional, any_met knows whether a branch was chosen.
ChainFits(s) ==
    /\ \A n \in 0 .. Len(s) : Active(s, n) <=> AllChosen(s, n)
    /\ \A n \in 1 .. Len(s) : Active(s, n - 1) /\ ~s[n].closed => (s[n].any_met <=> Met(s[n]))

LEMMA UpTo ==
    ASSUME NEW n \in Nat \ {0}, NEW s
    PROVE  /\ Active(s, n) <=> Active(s, n - 1) /\ s[n].active
           /\ AllChosen(s, n) <=> AllChosen(s, n - 1) /\ Chosen(s[n])
<1>1. \A i \in 1 .. n : i \in 1 .. n - 1 \/ i = n
  OBVIOUS
<1>2. n \in 1 .. n /\ \A i \in 1 .. n - 1 : i \in 1 .. n
  OBVIOUS
<1> QED
  BY <1>1, <1>2 DEF Active, AllChosen

\* Below what changes, everything is as it was.
LEMMA Below ==
    ASSUME NEW s, NEW t, NEW m \in Nat, \A i \in 1 .. m : t[i] = s[i],
           NEW n \in Nat, n <= m
    PROVE  (Active(t, n) <=> Active(s, n)) /\ (AllChosen(t, n) <=> AllChosen(s, n))
<1>1. \A i \in 1 .. n : i \in 1 .. m
  OBVIOUS
<1> QED
  BY <1>1 DEF Active, AllChosen

LEMMA TopFits ==
    ASSUME NEW s \in Seq(Conditional), NEW t \in Seq(Conditional), NEW n \in Nat \ {0},
           Len(t) = n, n - 1 <= Len(s), \A i \in 1 .. n - 1 : t[i] = s[i], ChainFits(s),
           Active(s, n - 1) => (t[n].active <=> Chosen(t[n])),
           Active(s, n - 1) /\ ~t[n].closed => (t[n].any_met <=> Met(t[n]))
    PROVE  ChainFits(t)
<1>0. n - 1 \in Nat
  OBVIOUS
<1>1. ASSUME NEW m \in 0 .. n
      PROVE  Active(t, m) <=> AllChosen(t, m)
  <2>1. CASE m <= n - 1
    <3>1. m \in 0 .. Len(s) /\ m \in Nat
      BY <2>1
    <3> QED
      BY <1>0, <2>1, <3>1, Below DEF ChainFits
  <2>2. CASE m = n
    <3>1. n - 1 \in 0 .. Len(s) /\ n - 1 <= n - 1
      BY <1>0
    <3>2. (Active(t, n - 1) <=> Active(s, n - 1)) /\ (Active(t, n - 1) <=> AllChosen(t, n - 1))
      BY <1>0, <3>1, Below DEF ChainFits
    <3> QED
      BY <2>2, <3>2, UpTo
  <2> QED
    BY <2>1, <2>2
<1>2. ASSUME NEW m \in 1 .. n, Active(t, m - 1), ~t[m].closed
      PROVE  t[m].any_met <=> Met(t[m])
  <2>0. m - 1 \in Nat /\ m - 1 <= n - 1
    OBVIOUS
  <2>1. Active(s, m - 1)
    BY <1>0, <1>2, <2>0, Below
  <2>2. CASE m <= n - 1
    <3>1. m \in 1 .. Len(s) /\ m \in 1 .. n - 1
      BY <2>2
    <3> QED
      BY <1>2, <2>1, <3>1 DEF ChainFits
  <2>3. CASE m = n
    BY <1>2, <2>1, <2>3
  <2> QED
    BY <2>2, <2>3
<1> QED
  BY <1>1, <1>2 DEF ChainFits

LEMMA CutFits ==
    ASSUME NEW s \in Seq(Conditional), NEW t \in Seq(Conditional), Len(s) # 0,
           Len(t) = Len(s) - 1, \A i \in 1 .. Len(s) - 1 : t[i] = s[i], ChainFits(s)
    PROVE  ChainFits(t)
<1> DEFINE n == Len(t)
<1>0. n \in Nat /\ n = Len(s) - 1
  OBVIOUS
<1>1. ASSUME NEW m \in 0 .. n
      PROVE  Active(t, m) <=> AllChosen(t, m)
  <2>1. m \in 0 .. Len(s) /\ m \in Nat /\ m <= n
    BY <1>0
  <2> QED
    BY <1>0, <2>1, Below DEF ChainFits
<1>2. ASSUME NEW m \in 1 .. n, Active(t, m - 1), ~t[m].closed
      PROVE  t[m].any_met <=> Met(t[m])
  <2>1. m - 1 \in Nat /\ m - 1 <= n /\ m \in 1 .. Len(s)
    BY <1>0
  <2>2. Active(s, m - 1)
    BY <1>0, <1>2, <2>1, Below
  <2> QED
    BY <1>0, <1>2, <2>1, <2>2 DEF ChainFits
<1> QED
  BY <1>1, <1>2 DEF ChainFits

LEMMA ChosenInner ==
    ASSUME TypeOK, ChainFits(cond_stack), Nest # 0, Active(cond_stack, Nest - 1)
    PROVE  /\ Inner.active <=> Chosen(Inner)
           /\ ~Inner.closed => (Inner.any_met <=> Met(Inner))
<1>1. /\ Inner = cond_stack[Nest] /\ Nest \in Nat \ {0} /\ Len(cond_stack) = Nest
      /\ Nest - 1 \in 0 .. Nest /\ Nest \in 0 .. Nest /\ Nest \in 1 .. Nest
  BY Conditionals
<1> QED
  BY <1>1, UpTo DEF ChainFits

\* The truths of a branch that is added, and of a first one.
LEMMA ChosenNext ==
    ASSUME NEW truths \in Seq(BOOLEAN), NEW t \in BOOLEAN, NEW f, f.truth = Append(truths, t)
    PROVE  /\ Chosen(f) <=> t /\ ~ \E j \in 1 .. Len(truths) : truths[j]
           /\ Met(f) <=> t \/ \E j \in 1 .. Len(truths) : truths[j]
<1> DEFINE n == Len(truths)
<1>1. /\ f.truth[n + 1] = t /\ Len(f.truth) = n + 1 /\ n \in Nat
      /\ \A j \in 1 .. n : f.truth[j] = truths[j]
  BY AppendProperties
<1>2. (n + 1) - 1 = n /\ \A j \in 1 .. n + 1 : j \in 1 .. n \/ j = n + 1
  BY <1>1
<1>3. n + 1 \in 1 .. n + 1 /\ \A j \in 1 .. n : j \in 1 .. n + 1
  BY <1>1
<1> QED
  BY <1>1, <1>2, <1>3 DEF Chosen, Met

LEMMA ChosenFirst ==
    ASSUME NEW t \in BOOLEAN, NEW f, f.truth = <<t>>
    PROVE  (Chosen(f) <=> t) /\ (Met(f) <=> t)
<1>1. Len(<<t>>) = 1 /\ <<t>>[1] = t /\ 1 .. 1 - 1 = {} /\ 1 .. 1 = {1}
  OBVIOUS
<1> QED
  BY <1>1 DEF Chosen, Met

ChainInv == TypeOK /\ ChainFits(cond_stack)

LEMMA ChainStill ==
    ASSUME TypeOK, ChainFits(cond_stack), Poisons
    PROVE  ChainFits(cond_stack')
<1>1. CASE Nest = 0
  BY <1>1 DEF Poisons
<1>2. CASE Nest # 0
  <2> DEFINE t == cond_stack'
  <2>1. /\ Becomes(Nest, t[Nest]) /\ t[Nest].active = Inner.active
        /\ t[Nest].any_met = Inner.any_met /\ t[Nest].truth = Inner.truth
        /\ t[Nest].closed = Inner.closed
    BY <1>2 DEF Poisons
  <2>2. /\ cond_stack \in Seq(Conditional) /\ t \in Seq(Conditional) /\ Nest \in Nat \ {0}
        /\ Len(t) = Nest /\ Nest - 1 <= Len(cond_stack)
        /\ \A i \in 1 .. Nest - 1 : t[i] = cond_stack[i]
    BY <1>2, <2>1, Conditionals DEF Becomes
  <2>3. /\ Chosen(t[Nest]) <=> Chosen(Inner)
        /\ Met(t[Nest]) <=> Met(Inner)
    BY <2>1 DEF Chosen, Met
  <2>4. Active(cond_stack, Nest - 1) =>
           /\ t[Nest].active <=> Chosen(t[Nest])
           /\ ~t[Nest].closed => (t[Nest].any_met <=> Met(t[Nest]))
    BY <1>2, <2>1, <2>3, ChosenInner
  <2> HIDE DEF t
  <2>5. ChainFits(t)
    BY <2>2, <2>4, TopFits
  <2> QED
    BY <2>5 DEF t
<1> QED
  BY <1>1, <1>2

LEMMA ChainOpens ==
    ASSUME TypeOK, ChainFits(cond_stack), NEW truth \in BOOLEAN, Opens(ParentActive /\ truth, truth)
    PROVE  ChainFits(cond_stack')
<1> DEFINE t == cond_stack'
           n == Nest + 1
<1>1. /\ t[n].active = (ParentActive /\ truth) /\ t[n].any_met = (ParentActive /\ truth)
      /\ t[n].truth = <<truth>> /\ t[n].closed = FALSE
  BY DEF Opens
<1>2. /\ cond_stack \in Seq(Conditional) /\ t \in Seq(Conditional) /\ n \in Nat \ {0}
      /\ Len(t) = n /\ n - 1 <= Len(cond_stack) /\ n - 1 = Nest
      /\ \A i \in 1 .. n - 1 : t[i] = cond_stack[i]
  BY Conditionals DEF Opens, Becomes
<1>3. (Chosen(t[n]) <=> truth) /\ (Met(t[n]) <=> truth)
  BY <1>1, ChosenFirst
<1>4. Active(cond_stack, Nest) => ParentActive
  <2>1. Nest \in Nat /\ \A i \in 1 .. Nest - 1 : i \in 1 .. Nest
    BY Conditionals
  <2> QED
    BY <2>1 DEF Active, ParentActive, AllActive
<1>5. Active(cond_stack, n - 1) =>
         /\ t[n].active <=> Chosen(t[n])
         /\ ~t[n].closed => (t[n].any_met <=> Met(t[n]))
  BY <1>1, <1>2, <1>3, <1>4
<1> HIDE DEF t, n
<1>6. ChainFits(t)
  BY <1>2, <1>5, TopFits
<1> QED
  BY <1>6 DEF t

LEMMA ChainReopens ==
    ASSUME TypeOK, ChainFits(cond_stack), NEW truth \in BOOLEAN, NEW is_active \in BOOLEAN,
           NEW any_met \in BOOLEAN, NEW closed \in BOOLEAN,
           Reopens(is_active, any_met, truth, closed), ~Inner.closed,
           AllActive(Nest - 1) =>
              /\ is_active <=> ~Inner.any_met /\ truth
              /\ ~closed => (any_met <=> Inner.any_met \/ truth)
    PROVE  ChainFits(cond_stack')
<1> DEFINE t == cond_stack'
<1>1. /\ t[Nest].active = is_active /\ t[Nest].any_met = any_met
      /\ t[Nest].truth = Append(Inner.truth, truth) /\ t[Nest].closed = closed /\ Nest # 0
  BY DEF Reopens
<1>2. /\ cond_stack \in Seq(Conditional) /\ t \in Seq(Conditional) /\ Nest \in Nat \ {0}
      /\ Len(t) = Nest /\ Nest - 1 <= Len(cond_stack)
      /\ \A i \in 1 .. Nest - 1 : t[i] = cond_stack[i]
  BY <1>1, Conditionals DEF Reopens, Becomes
<1>3. Inner.truth \in Seq(BOOLEAN)
  BY <1>1, Conditionals, Fields
<1>4. /\ Chosen(t[Nest]) <=> truth /\ ~Met(Inner)
      /\ Met(t[Nest]) <=> truth \/ Met(Inner)
  BY <1>1, <1>3, ChosenNext DEF Met
<1>5. Active(cond_stack, Nest - 1) =>
         /\ t[Nest].active <=> Chosen(t[Nest])
         /\ ~t[Nest].closed => (t[Nest].any_met <=> Met(t[Nest]))
  <2>1. SUFFICES ASSUME Active(cond_stack, Nest - 1)
                 PROVE  /\ t[Nest].active <=> Chosen(t[Nest])
                        /\ ~t[Nest].closed => (t[Nest].any_met <=> Met(t[Nest]))
    OBVIOUS
  <2>2. Inner.any_met <=> Met(Inner)
    BY <1>1, <2>1, ChosenInner
  <2>3. AllActive(Nest - 1)
    BY <2>1 DEF Active, AllActive
  <2> HIDE DEF t
  <2> QED
    BY <1>1, <1>4, <2>2, <2>3
<1> HIDE DEF t
<1>6. ChainFits(t)
  BY <1>2, <1>5, TopFits
<1> QED
  BY <1>6 DEF t

LEMMA ChainStep == ChainInv /\ [Next]_vars => ChainFits(cond_stack')
<1> SUFFICES ASSUME TypeOK, ChainFits(cond_stack), [Next]_vars
             PROVE  ChainFits(cond_stack')
  BY DEF ChainInv
<1>0. CASE UNCHANGED vars
  BY <1>0 DEF vars
<1>1. CASE Opening
  BY <1>1, OpeningLine, ChainOpens DEF Opening
<1>2. CASE Else
  <2>1. Reopens(~Inner.any_met, Inner.any_met, TRUE, TRUE) /\ ~Inner.closed
    BY <1>2, ElseReopens
  <2>2. (~Inner.any_met) \in BOOLEAN /\ Inner.any_met \in BOOLEAN
    BY <2>1, Conditionals, Fields DEF Reopens
  <2> QED
    BY <2>1, <2>2, ChainReopens
<1>3. CASE Endif
  <2>1. CASE Closes
    <3>1. cond_stack \in Seq(Conditional) /\ Len(cond_stack) = Nest
      BY Conditionals
    <3> QED
      BY <2>1, <3>1, CutFits DEF Closes
  <2> QED
    BY <1>3, <2>1, EndifCloses
<1>4. CASE Poisoning
  BY <1>4, PoisoningLine, PoisonTop, ChainStill
<1>5. CASE Still
  BY <1>5, StillLine
<1>6. ASSUME NEW c \in Condition, NEW digit \in BOOLEAN, Elif(c, digit)
      PROVE  ChainFits(cond_stack')
  <2>1. CASE UNCHANGED cond_stack
    BY <2>1
  <2>2. ASSUME NEW truth \in BOOLEAN,
               Reopens(~Inner.any_met /\ AllActive(Nest - 1) /\ truth,
                       Inner.any_met \/ (~Inner.any_met /\ AllActive(Nest - 1) /\ truth),
                       truth, FALSE)
        PROVE  ChainFits(cond_stack')
    <3> DEFINE a == ~Inner.any_met /\ AllActive(Nest - 1) /\ truth
               m == Inner.any_met \/ a
    <3>1. a \in BOOLEAN /\ m \in BOOLEAN /\ Reopens(a, m, truth, FALSE) /\ ~Inner.closed
      <4>1. Inner.any_met \in BOOLEAN
        BY <2>2, Conditionals, Fields DEF Reopens
      <4> QED
        BY <1>6, <2>2, <4>1, ElifLine
    <3>2. AllActive(Nest - 1) => (a <=> ~Inner.any_met /\ truth) /\ (m <=> Inner.any_met \/ truth)
      OBVIOUS
    <3> HIDE DEF a, m
    <3> QED
      BY <3>1, <3>2, ChainReopens
  <2> QED
    BY <1>6, <2>1, <2>2, ElifLine
<1>7. ASSUME NEW n \in Macro, Define(n)
      PROVE  ChainFits(cond_stack')
  BY <1>7, DefineLine, PoisonTop, ChainStill DEF Holds
<1> QED
  BY <1>0, <1>1, <1>2, <1>3, <1>4, <1>5, <1>6, <1>7, Lines

LEMMA ChainInit == Init => ChainFits(cond_stack)
<1> SUFFICES ASSUME Init PROVE ChainFits(cond_stack)
  OBVIOUS
<1>1. Len(cond_stack) = 0 /\ 1 .. 0 = {} /\ 0 .. 0 = {0}
  BY DEF Init
<1> QED
  BY <1>1 DEF ChainFits, Active, AllChosen

LEMMA ChainImplies == ChainInv => ActiveIsReference
<1> SUFFICES ASSUME TypeOK, ChainFits(cond_stack) PROVE ActiveIsReference
  BY DEF ChainInv
<1>1. Nest \in 0 .. Len(cond_stack)
  BY Conditionals
<1>2. Active(cond_stack, Nest) <=> AllChosen(cond_stack, Nest)
  BY <1>1 DEF ChainFits
<1> QED
  BY <1>2 DEF ActiveIsReference, active, AllActive, Active, AllChosen, Chosen

\* Text is emitted exactly in the branches that the C standard chooses, in any
\* nest of conditionals and for any conditions.
THEOREM ConditionalSafety == Spec => []ActiveIsReference
<1>1. Init => ChainInv
  BY TypeInit, ChainInit DEF ChainInv
<1>2. ChainInv /\ [Next]_vars => ChainInv'
  BY TypeStep, ChainStep DEF ChainInv
<1> QED
  BY <1>1, <1>2, ChainImplies, PTL DEF Spec

-----------------------------------------------------------------------------
(* Every line is compiled once.                                              *)

\* The files being read are different ones, all known, as are those of the
\* lines emitted; and no line was emitted that its file has yet to come to.
FilesFit(r, known, map) ==
    /\ \A i \in 1 .. Len(r) : r[i].path \in known
    /\ \A i, j \in 1 .. Len(r) : r[i].path = r[j].path => i = j
    /\ \A k \in 1 .. Len(map) : map[k][1] \in known
    /\ \A k \in 1 .. Len(map), i \in 1 .. Len(r) : map[k][1] = r[i].path => map[k][2] <= r[i].line

\* No line is compiled twice under one path, and those of a path keep their order.
PathsOnce ==
    \A i, j \in DOMAIN line_map :
        i < j /\ line_map[i][1] = line_map[j][1] => line_map[i][2] < line_map[j][2]

LineInv == TypeOK /\ FilesFit(reading, resolved, line_map) /\ PathsOnce

LEMMA LineInit == Init => FilesFit(reading, resolved, line_map) /\ PathsOnce
<1> SUFFICES ASSUME Init PROVE FilesFit(reading, resolved, line_map) /\ PathsOnce
  OBVIOUS
<1>1. Len(line_map) = 0 /\ DOMAIN line_map = {} /\ 1 .. 0 = {}
  BY DEF Init
<1>2. Len(reading) = 1 /\ reading[1].path = Main /\ 1 .. 1 = {1} /\ resolved = {Main}
  BY DEF Init
<1> QED
  BY <1>1, <1>2 DEF FilesFit, PathsOnce

LEMMA AdvanceFits ==
    ASSUME TypeOK, FilesFit(reading, resolved, line_map), Advanced(reading'), UNCHANGED resolved
    PROVE  /\ FilesFit(reading', resolved', line_map)
           /\ \A k \in 1 .. Len(line_map) : line_map[k][1] = Here.path => line_map[k][2] <= Here.line
<1> DEFINE n == Len(reading)
<1>1. /\ n \in Nat \ {0} /\ Len(reading') = n /\ Here = reading[n] /\ Here.line \in Nat
      /\ \A i \in 1 .. n - 1 : reading'[i] = reading[i]
      /\ reading'[n].path = Here.path /\ reading'[n].line = Here.line + 1
  BY Places DEF Advanced, Here
<1>2. \A i \in 1 .. n : i = n \/ i \in 1 .. n - 1
  BY <1>1
<1>3. n \in 1 .. n
  BY <1>1
<1>4. \A i \in 1 .. n : reading'[i].path = reading[i].path
  BY <1>1, <1>2
<1>5. ASSUME NEW k \in 1 .. Len(line_map), NEW i \in 1 .. n, line_map[k][1] = reading[i].path
      PROVE  line_map[k][2] <= reading'[i].line /\ line_map[k][2] <= reading[i].line
  <2>1. line_map[k][2] <= reading[i].line
    BY <1>5 DEF FilesFit
  <2>2. line_map[k][2] \in Nat
    <3>1. line_map \in Seq(Known \X Nat)
      BY DEF TypeOK
    <3> QED
      BY <3>1
  <2>3. i = n => reading[i].line \in Nat /\ reading'[i].line = reading[i].line + 1
    BY <1>1
  <2> QED
    BY <1>1, <1>2, <2>1, <2>2, <2>3
<1>6. FilesFit(reading', resolved', line_map)
  BY <1>1, <1>4, <1>5 DEF FilesFit
<1> QED
  BY <1>1, <1>3, <1>5, <1>6

LEMMA EmitFits ==
    ASSUME TypeOK, FilesFit(reading, resolved, line_map), PathsOnce, Advanced(reading'),
           UNCHANGED resolved, line_map' = Append(line_map, <<Here.path, Here.line + 1>>)
    PROVE  FilesFit(reading', resolved', line_map') /\ PathsOnce'
<1> DEFINE m == Len(line_map)
           e == <<Here.path, Here.line + 1>>
           n == Len(reading)
<1>1. /\ n \in Nat \ {0} /\ Len(reading') = n /\ Here = reading[n] /\ Here.line \in Nat
      /\ reading'[n].path = Here.path /\ reading'[n].line = Here.line + 1
      /\ Here.path \in Known
  BY Places DEF Advanced, Here
<1>2. e \in Known \X Nat /\ e[1] = Here.path /\ e[2] = Here.line + 1
  BY <1>1
<1>3. line_map \in Seq(Known \X Nat) /\ line_map' = Append(line_map, e) /\ m \in Nat
  BY DEF TypeOK
<1> HIDE DEF e
<1>4. /\ Len(line_map') = m + 1 /\ line_map'[m + 1] = e /\ DOMAIN line_map' = 1 .. m + 1
      /\ \A k \in 1 .. m : line_map'[k] = line_map[k]
  BY <1>2, <1>3, AppendProperties
<1>5. \A k \in 1 .. m + 1 : k = m + 1 \/ k \in 1 .. m
  BY <1>3
<1>6. /\ FilesFit(reading', resolved', line_map)
      /\ \A k \in 1 .. m : line_map[k][1] = Here.path => line_map[k][2] <= Here.line
  BY AdvanceFits
<1>7. \A k \in 1 .. m + 1 : line_map'[k][1] \in resolved'
  <2>1. e[1] \in resolved'
    <3>1. n \in 1 .. n
      BY <1>1
    <3> QED
      BY <1>1, <1>2, <3>1 DEF FilesFit
  <2> QED
    BY <1>4, <1>5, <1>6, <2>1 DEF FilesFit
<1>8. ASSUME NEW k \in 1 .. m + 1, NEW i \in 1 .. n, line_map'[k][1] = reading'[i].path
      PROVE  line_map'[k][2] <= reading'[i].line
  <2>1. CASE k \in 1 .. m
    BY <1>1, <1>4, <1>6, <1>8, <2>1 DEF FilesFit
  <2>2. CASE k = m + 1
    <3>1. i = n
      <4>1. n \in 1 .. n /\ reading'[n].path = reading'[i].path
        BY <1>1, <1>2, <1>4, <1>8, <2>2
      <4> QED
        BY <1>1, <1>6, <4>1 DEF FilesFit
    <3> QED
      BY <1>1, <1>2, <1>4, <2>2, <3>1
  <2> QED
    BY <1>5, <2>1, <2>2
<1>9. FilesFit(reading', resolved', line_map')
  BY <1>1, <1>4, <1>6, <1>7, <1>8 DEF FilesFit
<1>10. ASSUME NEW i \in DOMAIN line_map', NEW j \in DOMAIN line_map', i < j,
              line_map'[i][1] = line_map'[j][1]
       PROVE  line_map'[i][2] < line_map'[j][2]
  <2>1. i \in 1 .. m
    BY <1>3, <1>4, <1>10
  <2>2. CASE j \in 1 .. m
    <3>1. i \in DOMAIN line_map /\ j \in DOMAIN line_map
      BY <1>3, <2>1, <2>2
    <3> QED
      BY <1>4, <1>10, <2>1, <2>2, <3>1 DEF PathsOnce
  <2>3. CASE j = m + 1
    <3>1. line_map[i][2] <= Here.line /\ line_map'[i] = line_map[i]
      BY <1>2, <1>4, <1>6, <1>10, <2>1, <2>3
    <3>2. line_map[i][2] \in Nat
      BY <1>3, <2>1
    <3> QED
      BY <1>1, <1>2, <1>4, <2>3, <3>1, <3>2
  <2> QED
    BY <1>4, <1>5, <2>2, <2>3
<1> QED
  BY <1>9, <1>10 DEF PathsOnce

LEMMA EnterFits ==
    ASSUME TypeOK, FilesFit(reading, resolved, line_map), NEW f \in Known, f \notin resolved,
           Entered(reading', f), resolved' = resolved \cup {f}
    PROVE  FilesFit(reading', resolved', line_map)
<1> DEFINE n == Len(reading)
<1>1. /\ n \in Nat \ {0} /\ Len(reading') = n + 1 /\ Here = reading[n] /\ Here.line \in Nat
      /\ \A i \in 1 .. n - 1 : reading'[i] = reading[i]
      /\ reading'[n].path = Here.path /\ reading'[n].line = Here.line + 1
      /\ reading'[n + 1].path = f
  BY Places DEF Entered, Here
<1>2. \A i \in 1 .. n + 1 : i = n + 1 \/ i = n \/ i \in 1 .. n - 1
  BY <1>1
<1>3. \A i \in 1 .. n + 1 : i = n + 1 \/ i \in 1 .. n
  BY <1>1
<1>4. \A i \in 1 .. n : reading'[i].path = reading[i].path /\ reading'[i].path \in resolved
  <2>1. \A i \in 1 .. n : i = n \/ i \in 1 .. n - 1
    BY <1>1
  <2> QED
    BY <1>1, <2>1 DEF FilesFit
<1>5. \A i \in 1 .. n + 1 : reading'[i].path \in resolved'
  BY <1>1, <1>3, <1>4
<1>6. ASSUME NEW i \in 1 .. n + 1, NEW j \in 1 .. n + 1, reading'[i].path = reading'[j].path
      PROVE  i = j
  <2>1. CASE i \in 1 .. n /\ j \in 1 .. n
    BY <1>4, <1>6, <2>1 DEF FilesFit
  <2>2. CASE i = n + 1 \/ j = n + 1
    BY <1>1, <1>3, <1>4, <1>6, <2>2
  <2> QED
    BY <1>3, <2>1, <2>2
<1>7. ASSUME NEW k \in 1 .. Len(line_map), NEW i \in 1 .. n + 1, line_map[k][1] = reading'[i].path
      PROVE  line_map[k][2] <= reading'[i].line
  <2>1. line_map[k][1] \in resolved /\ line_map[k][2] \in Nat
    <3>1. line_map \in Seq(Known \X Nat)
      BY DEF TypeOK
    <3> QED
      BY <3>1 DEF FilesFit
  <2>2. i \in 1 .. n
    BY <1>1, <1>3, <1>7, <2>1
  <2>3. line_map[k][2] <= reading[i].line
    BY <1>4, <1>7, <2>2 DEF FilesFit
  <2> QED
    BY <1>1, <1>2, <2>1, <2>2, <2>3
<1> QED
  BY <1>1, <1>5, <1>6, <1>7 DEF FilesFit

LEMMA FewerFit ==
    ASSUME NEW r, NEW s, NEW known, NEW map, FilesFit(r, known, map),
           \A i \in 1 .. Len(s) : i \in 1 .. Len(r) /\ s[i] = r[i]
    PROVE  FilesFit(s, known, map)
BY DEF FilesFit

LEMMA LineStep == LineInv /\ [Next]_vars => (FilesFit(reading, resolved, line_map) /\ PathsOnce)'
<1> SUFFICES ASSUME TypeOK, FilesFit(reading, resolved, line_map), PathsOnce, [Next]_vars
             PROVE  FilesFit(reading', resolved', line_map') /\ PathsOnce'
  BY DEF LineInv
<1>0. CASE UNCHANGED vars
  BY <1>0 DEF vars, PathsOnce
<1>1. CASE Next
  <2>1. CASE Advanced(reading') /\ UNCHANGED <<resolved, line_map>>
    BY <2>1, AdvanceFits DEF PathsOnce
  <2>2. CASE ReadLine /\ line_map' = Append(line_map, <<Here.path, Here.line + 1>>)
    BY <2>2, ReadLineAdvances, EmitFits
  <2>3. ASSUME NEW f \in Known, f \notin resolved, Entered(reading', f),
               resolved' = resolved \cup {f}, UNCHANGED line_map
        PROVE  FilesFit(reading', resolved', line_map') /\ PathsOnce'
    BY <2>3, EnterFits DEF PathsOnce
  <2>4. CASE /\ reading # <<>> /\ reading' \in Seq(Place) /\ Len(reading') = Len(reading) - 1
             /\ \A i \in 1 .. Len(reading) - 1 : reading'[i] = reading[i]
             /\ UNCHANGED <<resolved, line_map>>
    <3>1. \A i \in 1 .. Len(reading') : i \in 1 .. Len(reading) /\ reading'[i] = reading[i]
      BY <2>4, Places
    <3>2. FilesFit(reading', resolved, line_map)
      BY <3>1, FewerFit
    <3> QED
      BY <2>4, <3>2 DEF PathsOnce
  <2> QED
    BY <1>1, <2>1, <2>2, <2>3, <2>4, Files, LineMap
<1> QED
  BY <1>0, <1>1

\* Whether two lines are of one file is asked of the paths, which are known.
LEMMA LineImplies == LineInv => LinesOnce
<1> SUFFICES ASSUME TypeOK, FilesFit(reading, resolved, line_map), PathsOnce,
                    NEW i \in DOMAIN line_map, NEW j \in DOMAIN line_map, i < j,
                    FileOf[line_map[j][1]] = FileOf[line_map[i][1]],
                    SpelledOnce(FileOf[line_map[i][1]])
             PROVE  line_map[i][2] < line_map[j][2]
  BY DEF LineInv, LinesOnce
<1>1. DOMAIN line_map = 1 .. Len(line_map)
  <2>1. line_map \in Seq(Known \X Nat)
    BY DEF TypeOK
  <2> QED
    BY <2>1
<1>2. line_map[i][1] \in resolved /\ line_map[j][1] \in resolved
  BY <1>1 DEF FilesFit
<1>3. line_map[i][1] = line_map[j][1]
  BY <1>2 DEF SpelledOnce
<1> QED
  BY <1>3 DEF PathsOnce

\* No line of a file that the unit knows by one path is compiled twice, and those
\* of a file keep their order, for any imports: chains, cycles and diamonds.
THEOREM ImportSafety == Spec => []LinesOnce
<1>1. Init => LineInv
  BY TypeInit, LineInit DEF LineInv
<1>2. LineInv /\ [Next]_vars => LineInv'
  BY TypeStep, LineStep DEF LineInv
<1> QED
  BY <1>1, <1>2, LineImplies, PTL DEF Spec

-----------------------------------------------------------------------------
(* Every directive reaches the C file.                                       *)

\* s: the conditionals, o: the output, d: the directives due, c: lines read.
\* A directive is in one place only: a line of the output, or held back by one
\* of the conditionals.
Kept(s, o, d, c) ==
    /\ \A i \in 1 .. Len(o) : o[i].line \in 1 .. c
    /\ \A j \in 1 .. Len(s) : s[j].pending_define \in 0 .. c
    /\ \A i, k \in 1 .. Len(o) : o[i].line = o[k].line => i = k
    /\ \A j, k \in 1 .. Len(s) :
          s[j].pending_define = s[k].pending_define /\ s[j].pending_define # 0 => j = k
    /\ \A i \in 1 .. Len(o), j \in 1 .. Len(s) : o[i].line # s[j].pending_define
    /\ \A n \in d : \/ \E i \in 1 .. Len(o) : o[i].line = n
                    \/ n # 0 /\ \E j \in 1 .. Len(s) : s[j].pending_define = n

LEMMA KeptLater ==
    ASSUME NEW s, NEW o, NEW d, NEW c \in Nat, NEW e \in Nat, e \in {c, c + 1}, Kept(s, o, d, c)
    PROVE  Kept(s, o, d, e)
<1>1. 1 .. c \subseteq 1 .. e /\ 0 .. c \subseteq 0 .. e
  OBVIOUS
<1> QED
  BY <1>1 DEF Kept

\* q is o with one more line, for n.
Grows(o, q, n) ==
    /\ Len(o) \in Nat /\ Len(q) = Len(o) + 1 /\ q[Len(o) + 1].line = n
    /\ \A i \in 1 .. Len(o) : q[i] = o[i]

\* A new directive is written.
LEMMA KeptWritten ==
    ASSUME NEW s, NEW o, NEW q, NEW d, NEW c \in Nat, Kept(s, o, d, c), Grows(o, q, c + 1)
    PROVE  Kept(s, q, d \cup {c + 1}, c + 1)
<1> DEFINE n == Len(o)
<1>1. n \in Nat /\ Len(q) = n + 1 /\ q[n + 1].line = c + 1 /\ \A i \in 1 .. n : q[i] = o[i]
  BY DEF Grows
<1>2. \A i \in 1 .. n + 1 : i \in 1 .. n \/ i = n + 1
  BY <1>1
<1>3. n + 1 \in 1 .. n + 1 /\ \A i \in 1 .. n : i \in 1 .. n + 1
  BY <1>1
<1>4. /\ c + 1 \in 1 .. c + 1 /\ c + 1 \notin 1 .. c /\ c + 1 \notin 0 .. c
      /\ 1 .. c \subseteq 1 .. c + 1 /\ 0 .. c \subseteq 0 .. c + 1
  OBVIOUS
<1>5. \A i \in 1 .. n : q[i].line \in 1 .. c /\ q[i].line = o[i].line
  BY <1>1 DEF Kept
<1>6. \A i \in 1 .. n + 1 : q[i].line \in 1 .. c + 1
  BY <1>1, <1>2, <1>4, <1>5
<1>7. \A i, k \in 1 .. n + 1 : q[i].line = q[k].line => i = k
  BY <1>1, <1>2, <1>4, <1>5 DEF Kept
<1>8. \A j \in 1 .. Len(s) : s[j].pending_define \in 0 .. c + 1 /\ s[j].pending_define # c + 1
  BY <1>4 DEF Kept
<1>9. \A i \in 1 .. n + 1, j \in 1 .. Len(s) : q[i].line # s[j].pending_define
  BY <1>1, <1>2, <1>5, <1>8 DEF Kept
<1>10. \A x \in d \cup {c + 1} : \/ \E i \in 1 .. n + 1 : q[i].line = x
                                 \/ x # 0 /\ \E j \in 1 .. Len(s) : s[j].pending_define = x
  BY <1>1, <1>3, <1>5 DEF Kept
<1>11. \A j, k \in 1 .. Len(s) :
          s[j].pending_define = s[k].pending_define /\ s[j].pending_define # 0 => j = k
  BY DEF Kept
<1> HIDE DEF n
<1> QED
  BY <1>1, <1>6, <1>7, <1>8, <1>9, <1>10, <1>11 DEF Kept

\* t has the conditionals of s below n, and another one at n, or none.
Topped(s, t, n) ==
    /\ n \in Nat \ {0} /\ Len(t) \in {n - 1, n} /\ n - 1 <= Len(s) /\ Len(s) \in Nat
    /\ \A j \in 1 .. n - 1 : t[j] = s[j]

\* A conditional that held nothing back is replaced, removed, or added.
LEMMA KeptIdle ==
    ASSUME NEW s, NEW t, NEW o, NEW d, NEW c \in Nat, NEW n, Kept(s, o, d, c), Topped(s, t, n),
           Len(s) \in {n - 1, n}, Len(s) = n => s[n].pending_define = 0,
           Len(t) = n => t[n].pending_define = 0
    PROVE  Kept(t, o, d, c)
<1>1. /\ n \in Nat \ {0} /\ Len(t) \in {n - 1, n} /\ \A j \in 1 .. n - 1 : t[j] = s[j]
  BY DEF Topped
<1>2. \A j \in 1 .. Len(t) : j \in 1 .. n - 1 \/ (j = n /\ Len(t) = n)
  BY <1>1
<1>3. \A j \in 1 .. Len(s) : j \in 1 .. n - 1 \/ (j = n /\ Len(s) = n)
  BY <1>1
<1>4. \A j \in 1 .. n - 1 : j \in 1 .. Len(s) /\ j \in 1 .. Len(t)
  BY <1>1
<1>5. \A j \in 1 .. Len(t) : \/ t[j].pending_define = 0
                             \/ j \in 1 .. n - 1 /\ j \in 1 .. Len(s) /\ t[j] = s[j]
  BY <1>1, <1>2, <1>4
<1>6. \A i \in 1 .. Len(o) : o[i].line # 0
  BY DEF Kept
<1>7. \A j \in 1 .. Len(t) : t[j].pending_define \in 0 .. c
  BY <1>5 DEF Kept
<1>8. \A j, k \in 1 .. Len(t) :
         t[j].pending_define = t[k].pending_define /\ t[j].pending_define # 0 => j = k
  BY <1>5 DEF Kept
<1>9. \A i \in 1 .. Len(o), j \in 1 .. Len(t) : o[i].line # t[j].pending_define
  BY <1>5, <1>6 DEF Kept
<1>10. \A x \in d : \/ \E i \in 1 .. Len(o) : o[i].line = x
                    \/ x # 0 /\ \E j \in 1 .. Len(t) : t[j].pending_define = x
  <2>1. SUFFICES ASSUME NEW x \in d, x # 0, NEW j \in 1 .. Len(s), s[j].pending_define = x
                 PROVE  \E k \in 1 .. Len(t) : t[k].pending_define = x
    BY DEF Kept
  <2>2. j \in 1 .. n - 1
    BY <1>3, <2>1
  <2> QED
    BY <1>1, <1>4, <2>1, <2>2
<1> QED
  BY <1>7, <1>8, <1>9, <1>10 DEF Kept

\* What the conditional on top held back is written, and held back no more.
LEMMA KeptFlushed ==
    ASSUME NEW s, NEW t, NEW o, NEW q, NEW d, NEW c \in Nat, NEW n, Kept(s, o, d, c),
           Topped(s, t, n), Len(s) = n, s[n].pending_define # 0,
           Len(t) = n => t[n].pending_define = 0, Grows(o, q, s[n].pending_define)
    PROVE  Kept(t, q, d, c)
<1> DEFINE m == Len(o)
           p == s[n].pending_define
<1>1. /\ n \in Nat \ {0} /\ Len(t) \in {n - 1, n} /\ \A j \in 1 .. n - 1 : t[j] = s[j]
  BY DEF Topped
<1>2. n \in 1 .. Len(s) /\ p \in 1 .. c
  <2>1. n \in 1 .. Len(s)
    BY <1>1
  <2>2. p \in 0 .. c
    BY <2>1 DEF Kept
  <2> QED
    BY <2>1, <2>2
<1>3. m \in Nat /\ Len(q) = m + 1 /\ q[m + 1].line = p /\ \A i \in 1 .. m : q[i] = o[i]
  BY DEF Grows
<1>4. \A i \in 1 .. m + 1 : i \in 1 .. m \/ i = m + 1
  BY <1>3
<1>5. m + 1 \in 1 .. m + 1 /\ \A i \in 1 .. m : i \in 1 .. m + 1
  BY <1>3
<1>6. \A j \in 1 .. Len(t) : \/ t[j].pending_define = 0
                             \/ j # n /\ j \in 1 .. Len(s) /\ t[j] = s[j]
  <2>1. \A j \in 1 .. Len(t) : j \in 1 .. n - 1 \/ (j = n /\ Len(t) = n)
    BY <1>1
  <2>2. \A j \in 1 .. n - 1 : j \in 1 .. Len(s) /\ j # n
    BY <1>1
  <2> QED
    BY <1>1, <2>1, <2>2
<1>7. \A i \in 1 .. m : q[i].line = o[i].line /\ q[i].line # p /\ q[i].line \in 1 .. c
  BY <1>2, <1>3 DEF Kept
<1>8. \A j \in 1 .. Len(s) : j # n => s[j].pending_define # p
  BY <1>2 DEF Kept
<1>9. 0 \notin 1 .. c /\ 0 \in 0 .. c
  OBVIOUS
<1> HIDE DEF m, p
<1>10. \A i \in 1 .. m + 1 : q[i].line \in 1 .. c
  BY <1>2, <1>3, <1>4, <1>7
<1>11. \A j \in 1 .. Len(t) : t[j].pending_define \in 0 .. c
  BY <1>6, <1>9 DEF Kept
<1>12. \A i, k \in 1 .. m + 1 : q[i].line = q[k].line => i = k
  <2>1. \A i, k \in 1 .. m : o[i].line = o[k].line => i = k
    BY DEF Kept, m
  <2> QED
    BY <1>3, <1>4, <1>7, <2>1
<1>13. \A j, k \in 1 .. Len(t) :
          t[j].pending_define = t[k].pending_define /\ t[j].pending_define # 0 => j = k
  BY <1>6 DEF Kept
<1>14. \A i \in 1 .. m + 1, j \in 1 .. Len(t) : q[i].line # t[j].pending_define
  <2>1. \A i \in 1 .. m, j \in 1 .. Len(s) : o[i].line # s[j].pending_define
    BY DEF Kept, m
  <2> QED
    BY <1>2, <1>3, <1>4, <1>6, <1>7, <1>8, <1>9, <2>1
<1>15. \A x \in d : \/ \E i \in 1 .. m + 1 : q[i].line = x
                    \/ x # 0 /\ \E j \in 1 .. Len(t) : t[j].pending_define = x
  <2>1. ASSUME NEW x \in d, NEW i \in 1 .. m, o[i].line = x
        PROVE  \E k \in 1 .. m + 1 : q[k].line = x
    BY <1>5, <1>7, <2>1
  <2>2. ASSUME NEW x \in d, x # 0, NEW j \in 1 .. Len(s), s[j].pending_define = x
        PROVE  \/ \E i \in 1 .. m + 1 : q[i].line = x
               \/ \E k \in 1 .. Len(t) : t[k].pending_define = x
    <3>1. CASE j = n
      BY <1>3, <1>5, <2>2, <3>1 DEF p
    <3>2. CASE j # n
      <4>1. j \in 1 .. n - 1 /\ j \in 1 .. Len(t)
        BY <1>1, <3>2
      <4> QED
        BY <1>1, <2>2, <4>1
    <3> QED
      BY <3>1, <3>2
  <2> QED
    BY <2>1, <2>2 DEF Kept, m
<1> QED
  BY <1>3, <1>10, <1>11, <1>12, <1>13, <1>14, <1>15 DEF Kept

\* A new directive is held back by the conditional on top.
LEMMA KeptHeld ==
    ASSUME NEW s, NEW t, NEW o, NEW d, NEW c \in Nat, NEW n, Kept(s, o, d, c), Topped(s, t, n),
           Len(s) = n, s[n].pending_define = 0, Len(t) = n, t[n].pending_define = c + 1
    PROVE  Kept(t, o, d \cup {c + 1}, c + 1)
<1>1. /\ n \in Nat \ {0} /\ \A j \in 1 .. n - 1 : t[j] = s[j]
  BY DEF Topped
<1>2. /\ c + 1 \in 0 .. c + 1 /\ c + 1 \notin 1 .. c /\ c + 1 \notin 0 .. c /\ c + 1 # 0
      /\ 1 .. c \subseteq 1 .. c + 1 /\ 0 .. c \subseteq 0 .. c + 1
  OBVIOUS
<1>3. \A j \in 1 .. n : j = n \/ (j \in 1 .. n - 1 /\ t[j] = s[j])
  BY <1>1
<1>4. n \in 1 .. n
  BY <1>1
<1>5. \A j \in 1 .. n : j # n => t[j].pending_define \in 0 .. c /\ t[j].pending_define # c + 1
  BY <1>2, <1>3 DEF Kept
<1>6. \A j \in 1 .. n : t[j].pending_define \in 0 .. c + 1
  BY <1>2, <1>5
<1>7. \A j, k \in 1 .. n :
         t[j].pending_define = t[k].pending_define /\ t[j].pending_define # 0 => j = k
  BY <1>3, <1>5 DEF Kept
<1>8. \A i \in 1 .. Len(o) : o[i].line \in 1 .. c + 1 /\ o[i].line # c + 1
  BY <1>2 DEF Kept
<1>9. ASSUME NEW i \in 1 .. Len(o), NEW j \in 1 .. n
      PROVE  o[i].line # t[j].pending_define
  <2>1. CASE j = n
    BY <1>8, <2>1
  <2>2. CASE j # n
    <3>1. t[j] = s[j] /\ j \in 1 .. Len(s)
      BY <1>3, <2>2
    <3>2. o[i].line # s[j].pending_define
      BY <3>1 DEF Kept
    <3> QED
      BY <3>1, <3>2
  <2> QED
    BY <2>1, <2>2
<1>10. \A x \in d \cup {c + 1} : \/ \E i \in 1 .. Len(o) : o[i].line = x
                                 \/ x # 0 /\ \E j \in 1 .. n : t[j].pending_define = x
  <2>1. ASSUME NEW x \in d, x # 0, NEW j \in 1 .. Len(s), s[j].pending_define = x
        PROVE  \E k \in 1 .. n : t[k].pending_define = x
    BY <1>3, <2>1
  <2> QED
    BY <1>2, <1>4, <2>1 DEF Kept
<1>11. \A i, k \in 1 .. Len(o) : o[i].line = o[k].line => i = k
  BY DEF Kept
<1> QED
  BY <1>6, <1>7, <1>8, <1>9, <1>10, <1>11 DEF Kept

KeptInv == TypeOK /\ Kept(cond_stack, c_out, due, count)

LEMMA KeptInit == Init => Kept(cond_stack, c_out, due, count)
<1> SUFFICES ASSUME Init PROVE Kept(cond_stack, c_out, due, count)
  OBVIOUS
<1>1. Len(cond_stack) = 0 /\ Len(c_out) = 0 /\ due = {} /\ 1 .. 0 = {}
  BY DEF Init
<1> QED
  BY <1>1 DEF Kept

\* One line more of the output.
LEMMA AppendGrows ==
    ASSUME NEW o \in Seq(Out), NEW e \in Out
    PROVE  Grows(o, Append(o, e), e.line)
<1>1. /\ Len(o) \in Nat /\ Len(Append(o, e)) = Len(o) + 1 /\ Append(o, e)[Len(o) + 1] = e
      /\ \A i \in 1 .. Len(o) : Append(o, e)[i] = o[i]
  BY AppendProperties
<1> QED
  BY <1>1 DEF Grows

LEMMA ConcatOut ==
    ASSUME NEW o \in Seq(Out), NEW w \in Seq(Out)
    PROVE  /\ Len(o \o w) = Len(o) + Len(w)
           /\ \A i \in 1 .. Len(o) : (o \o w)[i] = o[i]
           /\ \A i \in 1 .. Len(w) : (o \o w)[Len(o) + i] = w[i]
BY ConcatProperties

LEMMA ConcatGrows ==
    ASSUME NEW o \in Seq(Out), NEW w \in Seq(Out), Len(w) = 1
    PROVE  Grows(o, o \o w, w[1].line)
<1>1. /\ Len(o \o w) = Len(o) + Len(w)
      /\ \A i \in 1 .. Len(o) : (o \o w)[i] = o[i]
      /\ \A i \in 1 .. Len(w) : (o \o w)[Len(o) + i] = w[i]
  BY ConcatOut, Zenon
<1> DEFINE q == o \o w
<1> HIDE DEF q
<1>2. /\ Len(q) = Len(o) + Len(w) /\ \A i \in 1 .. Len(o) : q[i] = o[i]
      /\ \A i \in 1 .. Len(w) : q[Len(o) + i] = w[i]
  BY <1>1 DEF q
<1>3. Len(o) \in Nat /\ 1 \in 1 .. Len(w)
  OBVIOUS
<1>4. q[Len(o) + 1] = w[1] /\ Len(q) = Len(o) + 1
  BY <1>2, <1>3
<1>5. Grows(o, q, w[1].line)
  BY <1>2, <1>3, <1>4 DEF Grows
<1> QED
  BY <1>5 DEF q

LEMMA ConcatNothing == ASSUME NEW o \in Seq(Out) PROVE o \o <<>> = o
OBVIOUS

\* The innermost conditional changes or ends; w is what it held back.
LEMMA KeptTop ==
    ASSUME TypeOK, Kept(cond_stack, c_out, due, count), Nest # 0, NEW t, NEW w \in Seq(Out),
           Topped(cond_stack, t, Nest), Len(t) = Nest => t[Nest].pending_define = 0,
           Inner.pending_define = 0 => w = <<>>,
           Inner.pending_define # 0 => Len(w) = 1 /\ w[1].line = Inner.pending_define
    PROVE  Kept(t, c_out \o w, due, count)
<1>1. c_out \in Seq(Out) /\ count \in Nat
  BY DEF TypeOK
<1>2. Len(cond_stack) = Nest /\ Inner = cond_stack[Nest]
  BY Conditionals
<1>3. CASE Inner.pending_define = 0
  <2>1. c_out \o w = c_out
    BY <1>1, <1>3, ConcatNothing
  <2>2. Kept(t, c_out, due, count)
    BY <1>1, <1>2, <1>3, KeptIdle
  <2> QED
    BY <2>1, <2>2
<1>4. CASE Inner.pending_define # 0
  <2>1. Grows(c_out, c_out \o w, Inner.pending_define)
    BY <1>1, <1>4, ConcatGrows
  <2> QED
    BY <1>1, <1>2, <1>4, <2>1, KeptFlushed
<1> QED
  BY <1>3, <1>4

LEMMA BecomesTops ==
    ASSUME TypeOK, NEW n, NEW f, Becomes(n, f)
    PROVE  Topped(cond_stack, cond_stack', n) /\ Len(cond_stack') = n /\ cond_stack'[n] = f
BY Conditionals DEF Topped, Becomes

\* Poisoning the innermost conditional writes what it held back.
LEMMA KeptPoison ==
    ASSUME TypeOK, Kept(cond_stack, c_out, due, count), poison_top_guard
    PROVE  Kept(cond_stack', c_out \o Flushed, due, count)
<1>1. c_out \in Seq(Out)
  BY DEF TypeOK
<1>2. CASE Nest = 0
  <2>1. cond_stack' = cond_stack /\ c_out \o Flushed = c_out
    BY <1>1, <1>2, PoisonTop, FlushedIs, ConcatNothing DEF Poisons
  <2> QED
    BY <2>1
<1>3. CASE Nest # 0
  <2>1. Becomes(Nest, cond_stack'[Nest]) /\ cond_stack'[Nest].pending_define = 0
    BY <1>3, PoisonTop DEF Poisons
  <2>2. Topped(cond_stack, cond_stack', Nest)
    BY <2>1, BecomesTops
  <2> QED
    BY <1>3, <2>1, <2>2, FlushedIs, KeptTop
<1> QED
  BY <1>2, <1>3

\* A directive that poisons is written after what was held back.
LEMMA KeptDirective ==
    ASSUME TypeOK, Kept(cond_stack, c_out, due, count), poison_top_guard
    PROVE  Kept(cond_stack', Append(c_out \o Flushed, Unguarded(count + 1)),
                due \cup {count + 1}, count + 1)
<1> DEFINE o == c_out \o Flushed
<1>1. count \in Nat /\ count + 1 \in Nat /\ o \in Seq(Out)
  BY FlushedIs, ConcatProperties DEF TypeOK
<1>2. Unguarded(count + 1) \in Out /\ Unguarded(count + 1).line = count + 1
  BY <1>1, UnguardedType
<1>3. Kept(cond_stack', o, due, count)
  BY KeptPoison
<1> HIDE DEF o
<1>4. Grows(o, Append(o, Unguarded(count + 1)), count + 1)
  BY <1>1, <1>2, AppendGrows
<1>5. Kept(cond_stack', Append(o, Unguarded(count + 1)), due \cup {count + 1}, count + 1)
  BY <1>1, <1>3, <1>4, KeptWritten
<1> QED
  BY <1>5 DEF o

LEMMA KeptReopens ==
    ASSUME TypeOK, Kept(cond_stack, c_out, due, count), NEW a, NEW b, NEW x, NEW y,
           Reopens(a, b, x, y)
    PROVE  Kept(cond_stack', c_out \o Flushed, due, count)
<1>1. /\ Nest # 0 /\ Becomes(Nest, cond_stack'[Nest])
      /\ cond_stack'[Nest].pending_define = 0
  BY DEF Reopens
<1>2. Topped(cond_stack, cond_stack', Nest)
  BY <1>1, BecomesTops
<1> QED
  BY <1>1, <1>2, FlushedIs, KeptTop

LEMMA KeptOpens ==
    ASSUME TypeOK, Kept(cond_stack, c_out, due, count), NEW a, NEW x, Opens(a, x)
    PROVE  Kept(cond_stack', c_out, due, count)
<1> DEFINE n == Nest + 1
<1>1. Becomes(n, cond_stack'[n]) /\ cond_stack'[n].pending_define = 0
  BY DEF Opens
<1>2. /\ Len(cond_stack) = Nest /\ Nest \in Nat /\ count \in Nat
      /\ Len(cond_stack) \in {n - 1, n} /\ Len(cond_stack) # n
  BY Conditionals DEF TypeOK
<1> HIDE DEF n
<1>3. Topped(cond_stack, cond_stack', n)
  BY <1>1, BecomesTops
<1> QED
  BY <1>1, <1>2, <1>3, KeptIdle

LEMMA KeptCloses ==
    ASSUME TypeOK, Kept(cond_stack, c_out, due, count), Closes
    PROVE  Kept(cond_stack', c_out \o Closing, due, count)
<1>1. /\ Nest # 0 /\ Len(cond_stack') = Nest - 1 /\ Nest \in Nat /\ Len(cond_stack) = Nest
      /\ \A i \in 1 .. Nest - 1 : cond_stack'[i] = cond_stack[i]
  BY Conditionals DEF Closes
<1>2. Topped(cond_stack, cond_stack', Nest) /\ Len(cond_stack') # Nest
  BY <1>1 DEF Topped
<1> QED
  BY <1>1, <1>2, ClosingIs, KeptTop

LEMMA KeptHolds ==
    ASSUME TypeOK, Kept(cond_stack, c_out, due, count), Holds
    PROVE  Kept(cond_stack', c_out', due \cup {count + 1}, count + 1)
<1>1. /\ Nest # 0 /\ Inner.pending_define = 0 /\ c_out' = c_out
      /\ Becomes(Nest, cond_stack'[Nest]) /\ cond_stack'[Nest].pending_define = count + 1
  BY DEF Holds, Poisons
<1>2. Topped(cond_stack, cond_stack', Nest) /\ Len(cond_stack') = Nest
  BY <1>1, BecomesTops
<1>3. Len(cond_stack) = Nest /\ Inner = cond_stack[Nest] /\ count \in Nat
  BY <1>1, Conditionals DEF TypeOK
<1> QED
  BY <1>1, <1>2, <1>3, KeptHeld

\* After any line, the directives are where they were, or written.
LEMMA KeptStep == KeptInv /\ [Next]_vars => Kept(cond_stack, c_out, due, count)'
<1> SUFFICES ASSUME TypeOK, Kept(cond_stack, c_out, due, count), [Next]_vars
             PROVE  Kept(cond_stack', c_out', due', count')
  BY DEF KeptInv
<1>0. CASE UNCHANGED vars
  BY <1>0 DEF vars
<1>c. count \in Nat
  BY DEF TypeOK
<1>n. ASSUME Next
      PROVE  Kept(cond_stack', c_out', due', count')
  <2>c. count' \in Nat /\ count' \in {count, count + 1}
    BY <1>c, <1>n, CountGrows
  <2>s. ASSUME Kept(cond_stack', c_out', due, count), due' = due
        PROVE  Kept(cond_stack', c_out', due', count')
    BY <1>c, <2>c, <2>s, KeptLater
  <2>1. CASE Opening
    <3>1. c_out' = c_out /\ due' = due
      BY <2>1, OpeningLine DEF Opening
    <3>2. cond_stack' = cond_stack \/ \E truth \in BOOLEAN : Opens(ParentActive /\ truth, truth)
      BY <2>1, OpeningLine DEF Opening
    <3>3. Kept(cond_stack', c_out, due, count)
      BY <3>2, KeptOpens
    <3> QED
      BY <2>s, <3>1, <3>3
  <2>2. CASE Else
    <3>1. /\ Reopens(~Inner.any_met, Inner.any_met, TRUE, TRUE)
          /\ c_out' = c_out \o Flushed /\ due' = due
      BY <2>2, ElseReopens
    <3>2. Kept(cond_stack', c_out \o Flushed, due, count)
      BY <3>1, KeptReopens
    <3> QED
      BY <2>s, <3>1, <3>2
  <2>3. CASE Endif
    <3>1. due' = due
      BY <2>3, EndifCloses
    <3>2. CASE Nest = 0 /\ UNCHANGED <<cond_stack, c_out>>
      BY <2>s, <3>1, <3>2
    <3>3. CASE Closes /\ c_out' = c_out \o Closing
      BY <2>s, <3>1, <3>3, KeptCloses
    <3> QED
      BY <2>3, <3>2, <3>3, EndifCloses
  <2>4. CASE Poisoning
    <3>1. poison_top_guard /\ count' = count + 1
      BY <2>4, PoisoningLine
    <3>2. CASE c_out' = c_out \o Flushed /\ due' = due
      <4>1. Kept(cond_stack', c_out \o Flushed, due, count)
        BY <3>1, KeptPoison
      <4> QED
        BY <2>s, <3>2, <4>1
    <3>3. CASE /\ c_out' = Append(c_out \o Flushed, Unguarded(count + 1))
               /\ due' = due \cup {count + 1}
      BY <3>1, <3>3, KeptDirective
    <3> QED
      BY <2>4, <3>2, <3>3 DEF Poisoning, Directive, IncludeAgain, Text, ImportMissing, Import
  <2>5. CASE Still
    <3>1. UNCHANGED <<cond_stack, c_out, due>>
      BY <2>5, StillLine
    <3> QED
      BY <2>s, <3>1
  <2>6. ASSUME NEW c \in Condition, NEW digit \in BOOLEAN, Elif(c, digit)
        PROVE  Kept(cond_stack', c_out', due', count')
    <3>1. due' = due
      BY <2>6, ElifLine
    <3>2. CASE UNCHANGED <<cond_stack, c_out>>
      BY <2>s, <3>1, <3>2
    <3>3. ASSUME NEW truth \in BOOLEAN, c_out' = c_out \o Flushed,
                 Reopens(~Inner.any_met /\ AllActive(Nest - 1) /\ truth,
                         Inner.any_met \/ (~Inner.any_met /\ AllActive(Nest - 1) /\ truth),
                         truth, FALSE)
          PROVE  Kept(cond_stack', c_out', due', count')
      <4>1. Kept(cond_stack', c_out \o Flushed, due, count)
        BY <3>3, KeptReopens
      <4> QED
        BY <2>s, <3>1, <3>3, <4>1
    <3> QED
      BY <2>6, <3>2, <3>3, ElifLine
  <2>7. ASSUME NEW n \in Macro, Define(n)
        PROVE  Kept(cond_stack', c_out', due', count')
    <3>1. due' = due \cup {count + 1} /\ count' = count + 1
      BY <2>7, DefineLine
    <3>2. CASE Holds
      BY <3>1, <3>2, KeptHolds
    <3>3. CASE poison_top_guard /\ c_out' = Append(c_out \o Flushed, Unguarded(count + 1))
      BY <3>1, <3>3, KeptDirective
    <3> QED
      BY <2>7, <3>2, <3>3, DefineLine
  <2> QED
    BY <1>n, <2>1, <2>2, <2>3, <2>4, <2>5, <2>6, <2>7, Lines
<1> QED
  BY <1>0, <1>n

LEMMA KeptImplies == KeptInv => DirectivesKept
<1> SUFFICES ASSUME TypeOK, Kept(cond_stack, c_out, due, count), NEW n \in due
             PROVE  LET out == {i \in DOMAIN c_out : c_out[i].line = n}
                        held == {i \in DOMAIN cond_stack : cond_stack[i].pending_define = n}
                    IN  \/ held = {} /\ \E i \in out : out = {i}
                        \/ out = {} /\ \E i \in held : held = {i}
  BY DEF KeptInv, DirectivesKept
<1> DEFINE out == {i \in DOMAIN c_out : c_out[i].line = n}
           held == {i \in DOMAIN cond_stack : cond_stack[i].pending_define = n}
<1>1. DOMAIN c_out = 1 .. Len(c_out) /\ DOMAIN cond_stack = 1 .. Len(cond_stack)
  BY DEF TypeOK
<1>2. CASE \E i \in 1 .. Len(c_out) : c_out[i].line = n
  <2>1. PICK i \in 1 .. Len(c_out) : c_out[i].line = n
    BY <1>2
  <2>2. i \in out /\ \A k \in out : k = i
    BY <1>1, <2>1 DEF Kept
  <2>3. held = {}
    BY <1>1, <2>1 DEF Kept
  <2> QED
    BY <2>2, <2>3
<1>3. CASE n # 0 /\ ~ \E i \in 1 .. Len(c_out) : c_out[i].line = n
  <2>1. PICK j \in 1 .. Len(cond_stack) : cond_stack[j].pending_define = n
    BY <1>3 DEF Kept
  <2>2. j \in held /\ \A k \in held : k = j
    BY <1>1, <1>3, <2>1 DEF Kept
  <2>3. out = {}
    BY <1>1, <1>3
  <2> QED
    BY <2>2, <2>3
<1> QED
  BY <1>2, <1>3 DEF Kept

\* Each active directive is in the C file once, or held back once, for any
\* nesting, branches and imports.
THEOREM DirectiveSafety == Spec => []DirectivesKept
<1>1. Init => KeptInv
  BY TypeInit, KeptInit DEF KeptInv
<1>2. KeptInv /\ [Next]_vars => KeptInv'
  BY TypeStep, KeptStep DEF KeptInv
<1>3. KeptInv => DirectivesKept
  BY KeptImplies
<1> QED
  BY <1>1, <1>2, <1>3, PTL DEF Spec
=============================================================================
