---------------------------- MODULE RefcountTrace ----------------------------
(***************************************************************************)
(* src/crates/trace/src/lib.rs: the trace of the counts, which walks over  *)
(* the statements of each function once, and beside it (a ghost) a run of  *)
(* the function on the path whose state the trace keeps: an if without     *)
(* else is taken, one with else is not, and the body of a loop does not    *)
(* run.  The statements are made up as they are read.                      *)
(*                                                                         *)
(* Inputs: a name is declared once in a function.  Only branches are       *)
(* between the block that declares a variable and an assignment to it,     *)
(* which gives it a new object or that of another variable.  An object is  *)
(* autoreleased once in a pool.  Nothing follows a return in its block.    *)
(* The trace is wrong about other functions, and about @try (it takes each *)
(* @catch for executed) and do.                                            *)
(***************************************************************************)
EXTENDS Integers, Sequences, FiniteSetsExt, SequencesExt

CONSTANTS
    Local,      \* names of variables
    Fresh,      \* the expression that creates an object
    MaxIters,   \* max_iters
    MaxOpen,    \* bound: open blocks
    MaxStmts    \* bound: statements

VARIABLES
    st,         \* SimState: objects; scopes, each from names to objects; pools
    frames,     \* the statements that are open
    run,        \* ghost: what the variables, counts and pools really are
    stmts       \* ghost: statements read

vars == <<st, frames, run, stmts>>

\* The expression is no name, and the rounds are counted.
FreshDiffers == Fresh \notin Local /\ MaxIters \in Nat

None == 0
Unbound == [v \in Local |-> None]

\* given: objects that are not the function's to release any more.  exact: no
\* function was left early.
Init ==
    /\ st = [objects |-> <<>>, bindings |-> <<Unbound>>, pools |-> <<>>]
    /\ frames = <<>>
    /\ run = [var |-> Unbound, rc |-> <<>>, pools |-> <<>>, given |-> {}, exact |-> TRUE]
    /\ stmts = 0

\* Tracer::new, for another unit.
NewTracer ==
    /\ st' = [objects |-> <<>>, bindings |-> <<Unbound>>, pools |-> <<>>]
    /\ frames' = <<>>
    /\ run' = [var |-> Unbound, rc |-> <<>>, pools |-> <<>>, given |-> {}, exact |-> TRUE]
    /\ stmts' = 0

\* names: declared in the block; gone: in blocks inside it that have ended.
Frame(kind, on) ==
    [kind |-> kind, on |-> on, names |-> {}, gone |-> {}, has_else |-> FALSE,
     iters |-> 0, snap |-> st, closed |-> FALSE]
Depth == Len(frames)
Top == frames[Depth]
On == frames # <<>> /\ Top.on
Visible == UNION {frames[i].names : i \in DOMAIN frames}
Declared == Visible \cup UNION {frames[i].gone : i \in DOMAIN frames}

-----------------------------------------------------------------------------
(* The state of the simulation.                                              *)

resolve(s, v) ==
    LET binding == {i \in DOMAIN s.bindings : s.bindings[i][v] # None}
    IN  IF binding = {} THEN None ELSE s.bindings[Max(binding)][v]
bind(s, v, id) == [s EXCEPT !.bindings[Len(s.bindings)][v] = id]
Scope(s) == [s EXCEPT !.bindings = Append(@, Unbound)]
EndScope(s) == [s EXCEPT !.bindings = Front(@)]

\* real: the object of the run, if it gets there.
create(s, is_param) ==
    [s EXCEPT !.objects = Append(@, [count |-> 1, is_param |-> is_param, escaped |-> FALSE,
                                     real |-> IF On \/ is_param THEN Len(run.rc) + 1 ELSE None])]

apply(s, op, id) ==
    CASE op = "release" -> [s EXCEPT !.objects[id].count = @ - 1]
      [] op = "retain" -> [s EXCEPT !.objects[id].count = @ + 1]
      [] op = "autorelease" /\ s.pools # <<>> ->
            [s EXCEPT !.pools[Len(s.pools)] = @ \cup {id}]
      [] OTHER -> s

\* refop, is_creation and var_expr_id: an operation on a variable or on a new
\* object, and the object it yields.
Target(s, of) == IF of = Fresh THEN Len(s.objects) + 1 ELSE resolve(s, of)
refop(s, op, of) ==
    IF of = Fresh THEN apply(create(s, FALSE), op, Target(s, of))
    ELSE IF Target(s, of) = None THEN s ELSE apply(s, op, Target(s, of))

PopPool(s) ==
    LET pool == Last(s.pools)
    IN  [s EXCEPT !.pools = Front(@),
                  !.objects = [i \in DOMAIN s.objects |->
                                  IF i \in pool THEN [s.objects[i] EXCEPT !.count = @ - 1]
                                  ELSE s.objects[i]]]

-----------------------------------------------------------------------------
(* The run.                                                                  *)

RunTarget(of) == IF of = Fresh THEN Len(run.rc) + 1 ELSE run.var[of]
Counted(rc, op, r) ==
    IF r = None THEN rc
    ELSE CASE op = "release" -> [rc EXCEPT ![r] = @ - 1]
           [] op = "retain" -> [rc EXCEPT ![r] = @ + 1]
           [] OTHER -> rc
RunOp(op, of) ==
    LET r == RunTarget(of)
        rc == IF of = Fresh THEN Append(run.rc, 1) ELSE run.rc
    IN  [run EXCEPT !.rc = Counted(rc, op, r),
                    !.pools = IF op = "autorelease" /\ r # None /\ @ # <<>>
                              THEN [run.pools EXCEPT ![Len(run.pools)] = @ \cup {r}] ELSE @]
RunPop ==
    [run EXCEPT !.pools = Front(@),
                !.rc = [r \in DOMAIN @ |-> IF r \in Last(run.pools) THEN @[r] - 1 ELSE @[r]]]
InPool(of) == run.pools # <<>> /\ RunTarget(of) \in Last(run.pools)

-----------------------------------------------------------------------------
(* Statements.                                                               *)

Read == stmts < MaxStmts /\ stmts' = stmts + 1
Statement == frames # <<>> /\ ~Top.closed /\ Read
Operand == Visible \cup {Fresh}
Open(frame) == frames' = Append(frames, frame)
SetTop(frame) == frames' = [frames EXCEPT ![Depth] = frame]
Runs(next) == run' = IF On THEN next ELSE run
\* On the path, an object is autoreleased once in a pool.
Once(op, of) == On /\ op = "autorelease" => ~InPool(of)

\* trace_body_with_params, with no or one parameter.
Function(params) ==
    /\ frames = <<>> /\ Read
    /\ frames' = <<[Frame("function", TRUE) EXCEPT !.names = params]>>
    /\ IF params = {} THEN st' = Scope(Scope(st)) /\ run' = [run EXCEPT !.var = Unbound]
       ELSE LET v == CHOOSE v \in params : TRUE
                r == Len(run.rc) + 1
            IN  /\ st' = Scope(bind(Scope(create(st, TRUE)), v, Len(st.objects) + 1))
                /\ run' = [run EXCEPT !.var = [Unbound EXCEPT ![v] = r],
                                      !.rc = Append(@, 1), !.given = @ \cup {r}]

\* T *v = ...;  a variable without initialiser is not bound.
Declare(v, op, of, is_static) ==
    /\ Statement /\ v \notin Declared /\ Once(op, of)
    /\ SetTop([Top EXCEPT !.names = @ \cup {v}])
    /\ LET id == Target(st, of)
           done == refop(st, op, of)
       IN  st' = IF id = None THEN done
                 ELSE bind(IF is_static THEN [done EXCEPT !.objects[id].escaped = TRUE] ELSE done, v, id)
    /\ Runs([RunOp(op, of) EXCEPT !.var[v] = RunTarget(of),
                                  !.given = @ \cup IF is_static THEN {RunTarget(of)} ELSE {}])
DeclareBare(v) ==
    /\ Statement /\ v \notin Declared
    /\ SetTop([Top EXCEPT !.names = @ \cup {v}])
    /\ UNCHANGED st
    /\ Runs([run EXCEPT !.var[v] = None])

Assign(v, of) ==
    /\ Statement
    /\ \E i \in DOMAIN frames : v \in frames[i].names
                                   /\ \A j \in i + 1 .. Depth : frames[j].kind \in {"then", "else"}
    /\ On => RunTarget(of) # None
    /\ st' = LET id == Target(st, of)
             IN  IF id = None THEN st ELSE bind(refop(st, "value", of), v, id)
    /\ Runs([RunOp("value", of) EXCEPT !.var[v] = RunTarget(of)])
    /\ UNCHANGED frames

RefOp(op, of) ==
    /\ Statement /\ Once(op, of)
    /\ st' = refop(st, op, of)
    /\ Runs(RunOp(op, of))
    /\ UNCHANGED frames

\* return and @throw.  The run ends; the trace goes on.
Escape(op, of) ==
    /\ Statement /\ Once(op, of)
    /\ st' = LET id == Target(st, of)
                 done == refop(st, op, of)
             IN  IF id = None THEN done ELSE [done EXCEPT !.objects[id].escaped = TRUE]
    /\ frames' = [i \in DOMAIN frames |->
                     [frames[i] EXCEPT !.on = @ /\ ~On, !.closed = @ \/ i = Depth]]
    /\ Runs([RunOp(op, of) EXCEPT !.given = @ \cup {RunTarget(of)},
                                  !.exact = @ /\ Depth = 1])

If(has_else) ==
    /\ Statement /\ Depth < MaxOpen
    /\ Open([Frame("then", On /\ ~has_else) EXCEPT !.has_else = has_else])
    /\ UNCHANGED <<st, run>>

\* while, for, for-in.
Loop ==
    /\ Statement /\ Depth < MaxOpen
    /\ Open([Frame("loop", FALSE) EXCEPT !.iters = MaxIters])
    /\ st' = Scope(st) /\ UNCHANGED run

\* A block, switch, @synchronized, @noarc, and @autoreleasepool.
Block ==
    /\ Statement /\ Depth < MaxOpen
    /\ Open(Frame("block", On)) /\ st' = Scope(st) /\ UNCHANGED run
Pool ==
    /\ Statement /\ Depth < MaxOpen
    /\ Open(Frame("pool", On))
    /\ st' = [Scope(st) EXCEPT !.pools = Append(@, {})]
    /\ Runs([run EXCEPT !.pools = Append(@, {})])

-----------------------------------------------------------------------------
(* The end of a block.                                                       *)

Close ==
    frames' = [Front(frames) EXCEPT ![Depth - 1].gone = @ \cup Top.names \cup Top.gone]
Ends(kind) == frames # <<>> /\ Top.kind = kind /\ UNCHANGED stmts

FunctionEnd ==
    /\ Ends("function")
    /\ st' = EndScope(EndScope(st)) /\ frames' = <<>> /\ UNCHANGED run
BlockEnd == Ends("block") /\ st' = EndScope(st) /\ Close /\ UNCHANGED run
PoolEnd == Ends("pool") /\ st' = PopPool(EndScope(st)) /\ Close /\ Runs(RunPop)

\* The else branch starts from the state before the if.
Else_NotRestored ==
    /\ Ends("then") /\ Top.has_else
    /\ SetTop([Frame("else", frames[Depth - 1].on) EXCEPT !.gone = Top.names \cup Top.gone])
    /\ UNCHANGED <<st, run>>

Else ==
    /\ Ends("then") /\ Top.has_else
    /\ SetTop([Frame("else", frames[Depth - 1].on) EXCEPT !.gone = Top.names \cup Top.gone])
    /\ st' = Top.snap /\ UNCHANGED run

BranchEnd ==
    /\ (Ends("then") /\ ~Top.has_else) \/ Ends("else")
    /\ Close /\ UNCHANGED <<st, run>>

\* Each round starts from the state before the loop, and so does what follows.
LoopEnd_LastKept ==
    /\ Ends("loop")
    /\ IF Top.iters > 1
       THEN /\ SetTop([Frame("loop", FALSE) EXCEPT !.iters = Top.iters - 1, !.snap = Top.snap])
            /\ st' = Scope(Top.snap)
       ELSE Close /\ st' = EndScope(st)
    /\ UNCHANGED run

LoopEnd ==
    /\ Ends("loop")
    /\ IF Top.iters > 1
       THEN /\ SetTop([Frame("loop", FALSE) EXCEPT !.iters = Top.iters - 1, !.snap = Top.snap])
            /\ st' = Scope(Top.snap)
       ELSE Close /\ st' = Top.snap
    /\ UNCHANGED run

Next ==
    \/ \E params \in {{}} \cup {{v} : v \in Local} : Function(params)
    \/ \E v \in Local, op \in {"value", "retain", "autorelease"}, of \in Operand :
          Declare(v, op, of, FALSE)
    \/ \E v \in Local : Declare(v, "value", Fresh, TRUE) \/ DeclareBare(v)
    \/ \E v \in Visible, of \in Operand : Assign(v, of)
    \/ \E op \in {"retain", "release", "autorelease"}, of \in Operand : RefOp(op, of)
    \/ \E op \in {"value", "retain", "autorelease"}, of \in Operand : Escape(op, of)
    \/ \E has_else \in BOOLEAN : If(has_else)
    \/ Loop \/ Block \/ Pool
    \/ FunctionEnd \/ BlockEnd \/ PoolEnd \/ Else \/ BranchEnd \/ LoopEnd

Spec == Init /\ [][Next]_vars

-----------------------------------------------------------------------------
\* Safety.  The counts of the trace are those of a run: on the path whose state
\* it keeps, each object has the count it has at run time and each variable is
\* bound to the object it points to, whatever branches, rounds and pools the
\* trace has simulated and taken back in between.  (Nothing is claimed of the unit
\* once one of its functions has been left from inside a statement: run.exact.)
TraceIsRun ==
    On /\ run.exact =>
        /\ \A r \in DOMAIN run.rc : \E i \in DOMAIN st.objects : st.objects[i].real = r
        /\ \A i \in DOMAIN st.objects :
              st.objects[i].real # None => st.objects[i].count = run.rc[st.objects[i].real]
        /\ \A v \in Visible :
              run.var[v] # None => /\ resolve(st, v) # None
                                   /\ st.objects[resolve(st, v)].real = run.var[v]

Reported == {i \in DOMAIN st.objects :
                ~st.objects[i].is_param /\ ~st.objects[i].escaped /\ st.objects[i].count > 0}

\* Safety.  An object that is never released on that path is in the list of
\* leaks, unless it was returned, thrown or made static there: a return on a
\* path that was taken back hides no leak.  (Again while run.exact holds.)
LeaksReported ==
    frames = <<>> /\ run.exact =>
        \A r \in DOMAIN run.rc :
            run.rc[r] > 0 /\ r \notin run.given => \E i \in Reported : st.objects[i].real = r
=============================================================================
