# A TLA+ model of nupa-lang

nupa-lang is an Objective-C-like language that a Rust compiler translates to
C99 and that runs over a small C runtime with reference counting.  This
directory models it: modules that follow the source, TLC configurations that
check them on small instances, and proofs, checked by TLAPS, that hold for every
instance.  Paths below are relative to the repository; `src/` is its root.

## 1. The system

Everything is single threaded: the only threads' feature in use is `__thread` on
two globals.  What makes the program hard is re-entrancy (a release runs user code
in the middle of a loop of the runtime), non-local exits (`longjmp`, early
`return`), and a compiler that decides, from syntax, where a running program gives
its references up.

| Component | State | Operations | Interacts with |
|---|---|---|---|
| Runtime `include/nupa/runtime.c` | retain count of each object; weak side table; list of autorelease pools | alloc, retain, release, autorelease, pool push and pop, weakRegister, weakUnregister, weakClearAll | called by emitted code and Foundation; calls the class's `dealloc` (user code) |
| Bare-metal runtime `runtime_baremetal.c` | bump pointer, pools | the same without weak references; memory is never reused | linked instead of the runtime |
| Foundation `include/Foundation` | element buffers of arrays, dictionaries, sets | add, insert, remove, replace, dealloc | retains and releases through the runtime |
| ARC pass `crates/arc`, `crates/ownership` | stack of scopes with the retained locals of each | one case per statement: declarations, assignments, break, continue, return, throw, if, loops, try, end of scope | rewrites the AST the code generator reads |
| CFG builder `crates/cfg` | blocks, current block | one case per statement | built for the ARC pass, which ignores it |
| Refcount trace `crates/trace` | simulated objects, bindings, pools | one case per statement | reads the AST after ARC; is to report what the runtime would do; a mode of its own |
| Code generator `crates/codegen` | class tables, counters, output | lowering of statements, exceptions, weak references, properties; class metadata and vtables | emits the calls the runtime serves |
| Pipeline and CLI `crates/nupac` | options, files | the passes in order | drives everything |
| Preprocessor and source map | conditional stack, defined names, visited imports, line map | one case per kind of line | its output is lexed |
| Lexer, parser, CST, AST | position in the text, `panic_mode`, `has_error` | one function per production, recovery | front end |
| Symbol table, binder | scopes, using directives, classes, protocols, namespace prefix | one case per declaration, injection of protocol methods | the elaborator looks names up again in the same table |
| Elaborator, checker, attribute table | types | translation, rules | between binder and code generator |

What makes each correct, and what is hard about it:

* **Runtime and Foundation.**  The count of an object is the number of references
  that something is still to give up; nothing refers to freed memory; weak references
  become nil exactly when their object dies.  Hard: a `dealloc` override runs in the
  middle of a pop, of `removeAllObjects` or of another `dealloc`; freed addresses
  come back from `calloc`; blocks are left without their clean-up.
* **ARC pass.**  On every path through a function each retained local is released
  exactly once, after its last use.  Hard: the pass is one walk over statements with
  one mutable scope stack, so what one branch does to it the other branch sees.
* **Exception lowering.**  A throw reaches the innermost enclosing try whose catch
  matches, `finally` runs once, the jump buffer always describes a live frame, and what
  a body owns is released once.  Hard: one global buffer saved and restored by hand, and
  two parties, ARC and the emitted shadows, that release the same objects.
* **Refcount trace.**  What it reports agrees with the runtime on the traced path.
* **Preprocessor.**  A line is compiled where its conditions say so, once and in
  order, and each directive reaches the C file once.  Hard: two flags for each
  conditional instead of the chain, one stack for all files, a `#define` that is held
  back until its `#endif`, files known by the spelling of their paths.
* **Parser.**  Every loop and recursion consumes a token, and tokens are dropped only
  after an error.  Hard: recovery in the middle of any construct, speculation.
* **Symbol table, binder, elaborator.**  Two passes resolve a name to the same class,
  although the table has grown in between; classes have the methods of their protocols
  whatever the order of the declarations.
* **Pipeline.**  Nothing is written or run after an error; a run runs its own program.
  Hard: each pass reports in its own way, and files have names that other processes use.
* **CFG, checker, attributes.**  Agreement with the language's rules.

`PROJECT.json` lists every component with its status, and under `hazards` what is
hard to test, each at its line.

## 2. Modules

* `ObjectLifetime.tla` -- what the runtime promises, with no side table, pool, array
  or call stack: two variables, the number of references to each object and what each
  weak reference reads.  An object lives until its last reference is given up and in
  that step all its weak references become nil.
* `NupaRuntime.tla` -- the runtime, the ownership of elements by
  `NPArray`/`NPMutableArray`, and the code emitted for `__weak` and
  `@autoreleasepool`.
* `MCNupaRuntime.tla` and its `.cfg` files -- the instances TLC checks.
* `NupaRuntimeProofs.tla` -- its theorems: types and nesting, the weak side table, the
  counts, and the refinement.
* `ArcPass.tla` -- the ARC pass walking over the statements of a function, together
  with an execution of the function it rewrites; `MCArcPass.tla` and its `.cfg` files;
  `ArcPassProofs.tla` -- its theorems.
* `StructuredExceptions.tla` -- what `@try`, `@catch`, `@finally` and `@throw` mean:
  open blocks, the last exception, and no jump buffer.
* `ExceptionUnwind.tla` -- the code emitted for them, with the one jump buffer, the
  copies of it, the state number and the shadows; `MCExceptionUnwind.tla` and its
  `.cfg` files; `ExceptionUnwindProofs.tla` -- its theorems, among them that it
  implements `StructuredExceptions`.
* `Preprocessor.tla` -- conditionals, defines, includes and imports, line by line;
  `PreprocessorProofs.tla`.
* `ParserRules.tla` -- what each function of the parser does with tokens, as data;
  `Parser.tla` -- the parser's state and the steps that run those functions;
  `ParserProofs.tla` -- the contracts of the functions, and that each keeps its own.
* `Binder.tla` -- the symbol table, the binder, and how the elaborator finds the
  binder's classes again; `BinderProofs.tla`.
* `RefcountTrace.tla` -- the trace of the counts, next to a run of the function;
  `RefcountTraceProofs.tla`.
* `Compiler.tla` -- the pipeline and the command line: it composes the five modules
  before it, each in the stage where the compiler runs it; `MCCompiler.tla` names their
  properties for its `.cfg`; `CompilerProofs.tla` -- theorems of the composition, into
  which what the four `*Proofs` modules of the passes prove of one unit is carried.

    ObjectLifetime        <- NupaRuntime      (refinement)
    StructuredExceptions  <- ExceptionUnwind  (refinement)
    ArcPass
    Preprocessor, Parser(Rules), Binder, RefcountTrace  <- Compiler  (composition)

### State and actions of NupaRuntime

| Variable | Code |
|---|---|
| `heap` | addresses between `calloc` and `free`; `nupa_alloc` picks any free one, so addresses are reused |
| `rc` | `retain_count` |
| `items` | `_items[0 .. _count-1]` of an array (an object that is no array keeps none) |
| `cell` | the pointer in a weak local, or in the weak ivar of the object at an address |
| `weak_table` | `weak_table[0 .. weak_entries-1]` with the slots of each entry in order |
| `scope` | ghost of the C stack: in which activation a weak local is declared |
| `pools` | the list behind `current_pool`; `depth` is the activation that pushed the pool, `left` says that its block was left without popping it |
| `stack` | the activations of `dealloc`, `nupa_autoreleasepoolPop` and `removeAllObjects`, with the loop index of each |
| `held`, `lost` | ghosts: references that variables of user code own, and references nothing will give up |

Between two calls of a `dealloc` every function of the runtime is atomic: nothing can
interrupt it.  So a call that reaches `isa->dealloc` is cut there.  `ReleaseRef` is
the body of `nupa_release` up to that call: it decrements, and at zero clears the weak
references and pushes a `dealloc` activation.  While that activation is at `i = 0` the
code before `[super dealloc]` of the override runs, and any user action may happen in
it; `SuperDealloc` ends it; `DeallocStep` is a round of the loop in `NPArray`'s
`dealloc`; `DeallocEnd` is the `free`.  `PopStep`/`PopEnd` and
`RemoveAllStep`/`RemoveAllEnd` are the loops of the other two functions, each round of
which releases one element and so may push another `dealloc`.

The user is any code that keeps the ownership rules: it releases only references it
owns (`held`), and touches an object only through a reference it can read
(`Referenced`: a variable, a pool, an array, a weak reference, or an array that is
inside the user's own `removeAllObjects`).  It may also leave an `@autoreleasepool`
block without its pop (`LeavePool`), throw out of the block of a weak local
(`WeakUnwind`, only in `SpecThrow`), and assign to a declared weak local
(`WeakReassign`, only in `SpecReassign`).

Names such as `SwapRemove_DropsLast` are faulty variants of the definition that follows
them.  No specification uses them; putting one in place of its original makes the
property listed with it in `PROJECT.json` (`mutants`) fail.

### State and actions of ArcPass

The pass (`analyze_scope`) visits each statement of the text once; the execution follows
one path through the text.  The model does both at once and makes the program up as it
goes: an action is one statement, seen by the pass and, if the path goes through it
(`Running`), executed with the releases the pass inserts before it.  A branch, a loop
body or the rest of a block after an exit may be seen by the pass and not executed; that
is where the pass, which has one scope stack for all paths, can go wrong.

| Variable | Code |
|---|---|
| `stack[i].vars`, `.declared`, `.kind` | the `Scope` frames of the pass: `vars`, `declared`, `inside_loop` |
| `stack[i].val`, `.taken` | the C block: what its pointers hold, and whether the execution is in it |
| `after` | what an `else` here would belong to |
| `ref` | ghost: what became of the reference that created each object |
| `read` | ghost: the objects a `return` or `@throw` expression has just read |

`Enter`, `EnterElse` and `Leave` are the blocks (`Leave` with the releases at the end of
the scope), `Declare` and `Assign` the registrations, `ManualRelease` is `drop_var`,
`BreakOrContinue` and `ReturnOrThrow` are the exits, which insert releases
(`Released`), forget the variables of the scopes they leave and, on the path, leave them
(`LeaveFrom`).  Text in `@noarc` and the bodies of `switch` and `do` are blocks the pass
does not look into (`Analyzed`).

`ref` tells why an object is no longer the pass's to release.  `leaked` is the pass's own
fault: an exit on a path not taken made it forget the variable.  `stray` is a reference
that is lost for another reason: its variable was overwritten, assigned in an inner block
(`arc.rs:325` registers only what the same block declared), created in text the pass does
not look at, or the receiver of a returned message.

Programs of the model declare no name that is visible, do not overwrite an owning local
by another pointer, and let a local borrow only from its own scope or one further out;
their throws leave the function.  The pass promises nothing about other programs.

### State and actions of ExceptionUnwind

| Variable | Code |
|---|---|
| `stack` | the C stack: calls, and the emitted blocks of `@try` with `__nupa_saved` (`saved`), `__nupa_state` (`state`) and the place that is running |
| `stack[i].local` | an object the body owns, and what its shadow holds |
| `stack[i].tracked` | `Scope.vars` of the ARC pass at this place of the text |
| `stack[i].byArc`, `.byShadow` | ghosts: how often ARC and the shadow have released the object |
| `buf` | `__nupa_exception_buf`: the position of the frame whose `setjmp` filled it, `Dangling` if that frame is gone |
| `value` | `__nupa_exception_value` |
| `dead` | a jump through a buffer that is not valid, or the class of nil was read: the end of the program |

The program decides when to call, return, enter a `@try`, declare an owning local, throw,
and end a body, a handler or a `@finally` block (`Program`).  The emitted code has no
choice (`Emitted`): `CatchClause` tests one clause, `Restore` writes the saved buffer
back after the last, `ReleaseShadow` releases what the body owned, `LeaveTry` leaves or
jumps on.  `Longjmp` pops the frames and may lose the value of a shadow, which is a plain
pointer (to a volatile object).  A declaration of several variables mirrors only the last
into its shadow, so `DeclareLocal` may leave the shadow empty.

What ARC inserts is in `BodyEnd` and `Throw`.  ARC's pass goes through the text once, and
the program may go through it in any way.  A `@throw` releases the locals that the pass
tracks there, except the one that is thrown, and makes the pass forget them; so a `@throw`
that is met again in a loop releases again (`byArc` up to the bound `MaxReleases`), one
that comes after another in the text releases nothing, and the end of a body releases the
local only if the pass still tracks it there.  Which locals a `@throw` releases is
therefore an input (`released`).

Clauses are compared with the class itself, as the code does (`isa ==`), so a class has no
subclasses here.  `ReturnsInTry` lets a return leave open `@try` blocks; the code does not
write the buffer back then.

### The passes of Compiler

* `Preprocessor`: an action for each kind of line, with the line made up when it is read.
  `reading` is the recursion of `process_file`, `cond_stack` the `CondFrame`s, `c_out`
  and `line_map` the output.  `truth` and `due` are ghosts: the value of every condition
  of a chain as the code finds it, and the directives that were active.  The code knows a
  file by the string dir/name that it was found under; `PathName` are such strings, and `FileOf`
  is the file at each, so two paths may be one file.  (`PathName` is finite: that two files
  which import each other through `../` are read without end, under longer and longer
  paths, is seen from `resolve_imports` and not in the model.)
* `Parser`: a step is a call, a return, a turn of a loop, or a look at the current token.
  A token is a class of tokens that is made smaller as it is looked at, so one state
  stands for every input that agrees with what the parser has seen.  `todo` is the Rust
  call stack.  The speculative reading of a message's receiver as a type keeps its tokens
  (`trying`) until it commits or rewinds.  The first token (`Opening`) can be anything,
  but for a block: each of the four callers of `parse_compound_statement` has looked at
  the `{`.
* `Binder`: an action for each kind of declaration; `EndOfUnit` is the injection of
  protocol methods.  Names are paths; what an expression contributes is the identifiers in it.
* `RefcountTrace`: `st` is `SimState`; `frames` are the statements that are open, with
  the state saved before a branch or loop.  `run` is a ghost: the function's real
  variables, counts and pools, on the path whose state the trace keeps (a branch
  without `else` is taken, one with `else` is not, loops do not run).  Programs
  declare a name once, assign a variable only in the block that declares it or in
  branches of that block, autorelease an object once in a pool, and have
  nothing after a `return` in its block.  A function that is left early makes
  `run.exact` false, and nothing is claimed from there on.
* `Compiler`: `stage` goes from pass to pass; a pass starts on an input of its own making
  and its state is reset when it ends, as the passes hand each other trees.  `Other` is
  another `nupac` whose binary has the same path: that of the same temporary file, or
  the one both were given with `-o`.

## 3. What TLC checks

| Run | Specification | Shows |
|---|---|---|
| `arrays_pools` | `Spec` | `RcIsOwners`, `StrongRefsLive`, `CallsWellNested`, `DeallocsDistinct`, `TypeOK`, and that the runtime implements `ObjectLifetime`, with two objects that may be arrays of each other and two pools |
| `weak` | `Spec` | unique registrations that are always in scope, and `ObjectLifetime` again, with two weak locals and two weak ivars |
| `throw` | `SpecThrow` | with three objects and stale registrations of unwound locals, no readable weak reference dangles (`WeakRefsLive`), and the invariant of the proof (`WeakInv`) |
| `stale_ivar` | `Spec` | fails: zeroing writes into freed memory |
| `left_pool` | `Spec` | fails: objects of a pool that was left early are never released |
| `reassign` | `SpecReassign` | fails: an assigned weak local dangles |
| `arc_exits` | `ArcPass` | `ReleasedOnce`, `OwnedTracked`, `VarsLive`, `ReturnsLive` with blocks, branches, loops, unanalysed text and exits anywhere, each taken or not |
| `arc_return` | `ArcPass`, `ReturnReads` | fails: a returned expression that reads a second local reads a released object |
| `arc_leak` | `ArcPass` | fails: an exit in a branch that is not taken makes the pass forget an owned local |
| `exceptions` | `FairSpec` | the jump buffer stays right (`BufIsInnermost`), no object of a body is forgotten by the exceptions that cross its statement (`ReleasedWhenLeft`), nor a `@finally` block (`FinallyOutlivesThrows`), the emitted code implements `StructuredExceptions` (`ImplementsMeaning`), an exception does not stay in flight (`Handled`) |
| `try_release` | `ExceptionUnwind` | fails: an object of a `@try` body is released by ARC and by its shadow |
| `compiler` | `Compiler` | the properties of the passes: `ActiveIsReference`, `DirectivesKept`, `LinesOnce` (preprocessor), `Progress`, `DropsReported` (parser), `SameClass`, `ConformersComplete`, `DeclaredOnceTyped` (names), `TraceIsRun`, `LeaksReported` (trace), `CleanOutput` (pipeline) |

Bounds, all in the guards of user actions and none in the runtime's own steps: `MaxRC`
(references an object may gain), `MaxItems`, `MaxPools`, `MaxPoolLen`, `MaxSlots`
(registrations of one object), and `MAX_WEAK_ENTRIES`, which is the code's constant
(1024 in the code) made small.  Two objects suffice for every cycle, self-reference and
address reuse the properties tell apart: an array in an array, an array that contains
itself, an object that takes the address of the one another's weak ivar pointed to.
Two pools are what it takes to leave one inside another; `MaxPoolLen = 1` still lets an
object be autoreleased in the middle of the pop of its own pool.  In `throw` a third
object gives a stale slot and its new owner an object to be confused with; arrays and
pools are off there because they reach the weak table only through `ReleaseRef`.
`weak` and `throw` keep arrays and pools empty for the same reason; `arrays_pools` has a
weak ivar to check zeroing under re-entrancy.  `SYMMETRY` is used only in `throw`, which
has no `PROPERTY`.

The ArcPass runs have two locals, two objects and `MaxDepth = 3`: a function with a
block in a loop, or a branch in a block.  Two of each are enough to confuse an owner with
a borrower or one owner with another.  A loop body runs at most once: at its end, and at a
`break` or `continue`, all its locals are gone and the pass does not see the text again, so
a second round starts from the state in which another first round could.  Locals of the
outer scopes that the body assigns are covered by the assignments before it.

`exceptions` has two classes and nil, statements with one clause or with two of which
the last accepts everything, `MaxDepth = 3` open calls and statements, and one body with
an owning local: three levels are a handler that throws inside a statement inside a
function with a handler of its own, which is what the saved copies of the buffer are for.
`MaxReleases = 2` is enough for a `@throw` in a loop, or in a loop and a nested statement,
to release again.  Statements without a clause behave like those whose clause does not
match.

`compiler` gives each pass the smallest input in which its hazards happen.  The
preprocessor reads five lines with two conditionals open at a time, two macros, the
main file and one other under two paths (a cycle of imports): `#ifdef`, a branch, a nested
conditional and what is in it.  The parser starts in the middle of each construct that recovers and
reads three tokens and the end of the file; a loop that does not advance shows after
one.  The binder binds three declarations of two classes, two protocols, a namespace and
a variable: a class, a category and a protocol in any order.  The trace reads five
statements over two variables, with blocks open three deep and two rounds of a loop.
The passes do not share a state, so one run checks them one after the other, and the
stages behind them with every combination of the options.

`CHECK_DEADLOCK FALSE` is set because a program may end, a function returns, and a
compilation is over.

Fairness is assumed in `exceptions` only.  `WF(Emitted)`: the thread runs the emitted
code, which never waits.  `SF(BlockEnd(d))`: a program that returns to the same block
again and again, for instance from calls in it, leaves it at some time; without it a
handler could call functions for ever while its own exception is what `Handled` asks
about.  Nothing is assumed about which exceptions are thrown.  The other
properties are safety properties: the runtime promises nothing about how soon user code
releases, and the passes make up their input.

Some properties name exceptions, or leave a case out.  Most are places where the code does
what it should not; they were read in the source, the model behaves as the code does there,
and no property claims the contrary.

* `FinallyOutlivesThrows` leaves out the return: one in `@try` is a plain C return
  (`codegen.rs:1982`) and skips `@finally`, although src/README.md:605 says "finally always
  runs".  `BufIsInnermost` and `ImplementsMeaning` are about programs without such returns,
  which leave the buffer dangling.
* `ImplementsMeaning` and `Handled` say nothing of a handler that throws: the buffer is
  written back after the clauses (`codegen.rs:2461`), so the throw comes back to the same
  `setjmp` and its clauses are tested again; a handler that throws what it catches does so
  for ever.  `StructuredExceptions` describes it as it is (its `Unwind` may go to a
  statement in its handler), against the comment at `codegen.rs:2106-2107`.
* `ReleasedWhenLeft` leaves out lost shadows and statements whose `@finally` block throws,
  which jumps over the releases.  A shadow is lost because `T *a = ..., *b = ...;` mirrors
  only `b` (`codegen.rs:1867`), or because C leaves the value of a plain local that changed
  after `setjmp` open (`codegen.rs:2306`).  The property is about objects of `@try` bodies.
  src/README.md:987 names another limit: what a *called function* owns outside of any
  `@try` body has no shadow, and leaks when an exception leaves that function; the model
  has no such objects.  And it is about leaks only: a local that is thrown itself is
  released through its shadow while the exception goes on.
* `ActiveIsReference` is about the flags of the conditional stack: the outcome of each
  condition is the code's own, which differs from C's.  `#ifdef A` / `#define B` / `#endif`
  / `#ifdef B` compiles what follows although neither is defined (`preprocessor.rs:220`),
  and `#undef` forgets nothing.  `DirectivesKept` counts a directive and does not compare
  its place.
* `LinesOnce` is about a file that the unit knows by one path.  `b.nh` and `../sub/b.nh`
  are two (`preprocessor.rs:432`), and the file is read twice.
* `Progress` leaves out the list of instance variables, which repeats for ever at a token
  that starts no type (`parser.rs:3462`).
* `SameClass` leaves out names that mean two classes; among them are those whose first
  using directive hides another (`symbol.rs:307`).
* `ConformersComplete` leaves out what the binder does not inject: in namespaces, from
  protocols with `@optional`, to a class whose first declaration is no `@interface`, and
  from the ancestors of a protocol (`binder.rs:792` is `None.or_else(|| None)`).
* `TraceIsRun` and `LeaksReported` compare with a run on the path the trace keeps, up to
  the first function that is left early, of programs that autorelease an object once
  in a pool.
* `CleanOutput` says nothing of whose program a run runs.  The binary has the name of the
  input in the directory that all processes share, or the one that `-o` gives
  (`main.rs:838`), and another process may replace it (`Other`); it is removed afterwards,
  with `-o` too, although src/README.md:138 says that it is kept.
* `ReturnsLive` in `arc_exits` is about expressions that read only a local that owns its
  object; `return b;` of a local that borrows, and `return [a plus: b]`, do read a released
  object (`arc_return`).

### What the failing runs show

* **`ClearsOnlyAllocated`** (`runtime.c:80`).  A child with a weak ivar to its parent
  is freed while the parent lives.  Nothing unregisters the ivar, so its address stays
  in the parent's entry, and when the parent dies `nupa_weakClearAll` stores NULL into
  freed memory.  The comment at `runtime.c:202-204` is about the other order only.
* **`OutermostPopLosesNothing`** (`codegen.rs:2040`).  The pop is the last statement of
  the emitted block; `return` skips it; an outer pop then unlinks the inner pool with
  its objects unreleased.
* **`WeakRefsLive` under `SpecReassign`** (`codegen.rs:1505`).  Assigning to a weak local
  after its declaration is a plain C assignment.

* **`NoLeak`** (`arc.rs:203`).  `T *a = [T new]; if (c) { return; }` -- at the return
  the pass inserts the release of `a` and calls `clear_all`, so nothing releases `a` when
  `c` is false.  `break`, `continue` and `@throw` do the same.  README.md:327 speaks of
  dataflow analysis over the CFG; the pass ignores its `_cfg`.
* **`NoDoubleRelease`** (`codegen.rs:2488`).  `@try { T *x = [[T alloc] init]; } @catch
  (id e) {}` releases `x` at the end of the body, by ARC, and after the statement through
  its shadow, which no test of `__nupa_state` guards.  The comment at
  `codegen.rs:2072-2073` takes the two paths to be mutually exclusive.
* **`ReturnsLive` with `ReturnReads`** (`arc.rs:202`).  `return [a plus: b]` releases `b`
  before the expression is computed; only its root `a` is kept.

## 4. What is proved

TLAPS proves, for every set of objects and locals and every bound:

* `TypeCorrect`: `SpecThrow => []TypeOK`, and `NestingCorrect`:
  `SpecThrow => []CallsWellNested`.  The inductive invariant is their conjunction
  `TypeInv`: that a `dealloc` or `removeAllObjects` activation names an object and that a
  pop in progress names a pool of the list is needed for the types of the step, and that
  pools are nested in activations is needed to see that ending an activation leaves no
  pool of it open and that ending a pop (`SubSeq(pools, 1, k - 1)`) removes no pool that
  a pop further up still works on.  `SpecIsSpecThrow` carries both over to `Spec`.
* `RetainCounts`: `SpecThrow /\ []TableHasRoom => []RcIsOwners`, and from it, with the
  same hypothesis, `StrongSafety` (`StrongRefsLive`), `WeakSafety` (`WeakRefsLive`),
  `WeakTable` (`WeakInv`) and `DeallocSafety` (`DeallocsDistinct`).
* `RegistrationsUnique`: `Spec => []RegisteredOnce`, and `RegistrationsInScope`:
  `Spec => []RegisteredLocalsInScope`, by their conjunction `OnceInv`:
  a local that is declared was out of scope and so in no slot, and each of the
  two removals by swapping with the last (of a slot, of an entry) moves slots and
  duplicates none.  No hypothesis on the table.
* `Refinement`: `Spec /\ []TableHasRoom => ImplementsLifetime`.

The counts, the weak table and the deallocations are only inductive together, as
`CountInv`:

* `TypeInv`, above.
* `WeakIndInv`.  `WeakRefsLive` does not say why a step that lets an object die finds every
  reference to it: `Registered` does (a location that holds an object is in that object's
  entry), with `EntriesWellFormed` (one entry per object, and only for live objects, which
  is what keeps a new object from inheriting registrations) and `DeallocsDistinct` (the
  object freed by `DeallocEnd` had count 0).
* `RcIsOwners`.  A reference that a pool or an array still has to release is a pair of
  a container and a position at or beyond the loop that is working on the container.
  Each step moves one loop past one pair, adds or removes one pair, or renames pairs
  (`InsertAt` and `RemoveAt` shift positions); the lemmas of the module are about
  these three cases and the cardinalities of the sets.  The references of a variable and
  the ones pinned by an activation are numbers.
* `Bounded` (pools and arrays are no longer than the sets of positions) and `PopsInPools`
  (no loop of a pop is past the end of its pool).

`StrongRefsLive` follows: a reference is counted, so the count of its object is not 0.
It is also what the steps need of the weak table.  The refinement maps a
step that brings a count to 0 to the abstract death of the object, and `nupa_weakClearAll`
to the weak references that become nil in that step (`RefineInv` is `CountInv`,
`OnceInv`, and that a free address has no count); the loops of a pop and of a `dealloc`
release one reference each, and the free at the end of a `dealloc` is a stutter, or the
end of a weak ivar.

The one hypothesis, `TableHasRoom`, is the code's own limit (`runtime.c:47` drops a
registration silently when 1024 objects are weakly referenced).

Assumptions on constants: `DisjointAddresses` and `BoundsAreNat`, which TLC evaluates in
every run.

For every set of names and objects and every nesting depth of ArcPass:

* `ReleaseSafety`: `Spec => []ReleasedOnce`, `Ownership`: `Spec => []OwnedTracked`, and
  `TypeCorrect`.  `ReleasedOnce` needs to know that a variable about to be released
  points to an object that is still owned and that no other such variable does, which is
  `OwnedTracked`; that in turn needs `NoShadow` (a tracked name means the variable that
  was tracked) and `TakenNested` (when a statement runs, all blocks around it do, so what
  an exit releases was really created).  `IInv` is their conjunction.
* `UseSafety`: `Spec => []VarsLive`, by the further invariant `Borrowed`: what a local
  points to is owned no further in than the local is declared, or is no longer the
  pass's to release.
* `ReturnSafety`: in every behaviour, a `ReturnOrThrow` step whose expression reads only a
  local that owns its object (`ReadsOnlyOwner`) leads to a state with `ReturnsLive`, from
  `Borrowed` and `OwnedTracked` before the step.  It is about each such statement, whatever
  the others of the program read; `ReturnInvariance` is the case that all are such.

They rest on `SentinelsAreNoObjects` and `NamesAreNoInitialisers`.

For every set of classes, every list of clauses and every depth of ExceptionUnwind:

* `TypeCorrect`: `Spec => []TypeOK`.
* `BufferSafety`: `~ReturnsInTry => (Spec => []BufIsInnermost)`.  The inductive invariant
  `BufKnown` says of every open statement, not only of the last, where its copy of the
  buffer points, so that popping frames leaves it true.  With returns out of `@try` it is
  weaker: each copy is that of the innermost statement, or dangles, or is empty.
* `FinallySafety`: `Spec => FinallyOutlivesThrows`, with or without such returns, from
  `BufKnown`: a jump goes to the innermost statement in its body, clauses or handler,
  or ends the program, so the statements it skips are past the beginning of their
  `@finally`.
* `ReleaseSafety`: `Spec => ReleasedWhenLeft`, by `Shadows`, which says that a statement that
  has come to its end with a shadow still set has released it, and by the step that
  `FinallySafety` rests on, which says where the statements are that an exception drops.
* `MeaningRefinement`: `~ReturnsInTry => (Spec => ImplementsMeaning)`.  Each action is
  mapped to an action of `StructuredExceptions` or a stutter, under `UnwindInv` (`BufKnown`, and
  `Places`, which says what the state number is at each place): a `longjmp` through `buf` is an `Unwind` to the statement that
  receives the exception, and the choice of a clause skips those that did not match.

For every set of macros and files, every length and every depth of Preprocessor, stated
of `Compiler!Spec` in `CompilerProofs` and proved in `PreprocessorProofs`:

* `ConditionalsInUnit`: `ActiveIsReference` (of the outcomes the code finds), by `ChainInv`: at every depth, the flag
  `active` of the frames up to it says what the chains say, and `any_met` holds iff a
  branch was chosen, or the frames around are inactive.
* `ImportsInUnit`: `LinesOnce`, by `LineInv`: the paths being read differ and have been
  resolved, and no line of the output is from beyond where its path is read.  A file with
  one path inherits both.
* `DirectivesInUnit`: `DirectivesKept`, by `KeptInv`: an ordinal is in one line of the
  output or in one frame, and none is above `count`.

From any of the parser's functions, for inputs of any length, stated of `Compiler!Spec` in
`CompilerProofs` and proved in `ParserProofs`:

* `ProgressInUnit`: `Progress`, and `DropsInUnit`: `DropsReported`, both by the same
  invariant.  Neither is about one function: that a loop advances, or that a recovery has an
  error to blame, rests on what the functions called in it consume and report, and those
  call each other.  So each function has a contract.  `Stays` is what the current token can
  be when it returns without having consumed one, with `Some` and with `None`: nothing at all
  for the functions in `Takes` that return `Some`, only the end of the file for those in
  `Opener`, which skip their keyword first.  `Answers` are the functions that return `None`
  only after an error was reported or a `;` consumed.  `Rank` says which functions may be
  called before a token was consumed: those of a smaller rank, so no function is inside
  itself at the same token.

  `Known` is what is known of the parser at a point of a function: what the token can be,
  whether one was consumed since the function was called, and what can be blamed for an
  error.  `Rule` says how each kind of step changes it.  The programs of the functions are
  data that contains data of the same kind, and no induction over it is possible
  here; so a step `Fits` if it is in some set of steps that is closed under `Rule`.  Such
  sets have unions, which is all that the proof needs (`Built`, `ChainIn`).

  The invariant `IInv`: the steps left to do are those of a `Stack` of steps that
  fit; its frames are the open calls and turns of loops, each with what was known when it
  was opened; `Sound` compares that with what has been consumed since, for each frame
  (`FrameOK`) and for each two with no token in between (`PairOK`); and what is known before
  the next step holds (`Ready`).  The lemmas up to `NextKeeps` show that every step keeps it
  if all programs keep their contracts (`Obeyed`).  The others derive that, one function of
  `parser.rs` after the other (`StatementObeyed`, `DeclarationObeyed`, ...; together
  `EachObeyed` and `UnitKept`).  A wrong contract does not go through: the forced advance
  after a recovery is what `FitsRecovery` needs at a token where recovery stops at once, and
  the missing one in the list of instance variables is why `Turned` expects nothing of
  that loop.

They assume `EntryPrograms`: an entry is the unit or has a program.

For every set of names and units of any length of Binder, stated of `Compiler!Spec` in
`CompilerProofs` and proved in `BinderProofs`:

* `SameClassInUnit`: `SameClass`, by `SameInv`.  The property compares the binder's answer,
  given when the table was smaller, with the elaborator's, given at the end; the invariant
  says what of the first answer can still be seen (`Meant`): the class is declared, it is the
  node's own name or a class of that name in a namespace in use, and a younger alias of that
  simple name was refused (`Using` tests for it).  That a unit is not `Ambiguous` then makes
  the two the same (`SameImplies`).
* `ConformersInUnit`: `ConformersComplete`, with the exceptions that section 3 names, by
  `ConformInv`: until the unit ends, the symbol of a protocol requires what each of its
  declarations requires (`Kept`); the lemma `InjectCompletes` is the injection.
* `TypesInUnit`: `DeclaredOnceTyped`, by `TypedInv`: a name never declared has no symbol
  or one without a type.  Without this half a step that declares a used name could not be
  shown to give it its type.

`TypesInUnit` assumes `MarksDiffer`: the marks "property" and "function" in the ghost
`declared` are no types.  Nothing is assumed of the names: a class may have the name of a
namespace, because the elaborator passes over a directive for a namespace when it looks for
an alias (`elaborator.rs:60`), also when that directive is the first of that name.

For every set of locals, number of rounds of a loop, length and depth of RefcountTrace,
stated of `Compiler!Spec` and proved in `RefcountTraceProofs`:

* `CountsInUnit`: `TraceIsRun`, and `LeaksInUnit`: `LeaksReported`, both by `TraceInv`, which
  has a lemma for each action.  `TraceIsRun` compares the trace with the run where the path
  goes and says nothing in a block that is off it, from which the trace returns to a saved
  state.  So `Path` says of the outermost block off the path that it is one the trace takes
  back, and that the state saved there agrees with the run (`Agree`: objects with the same
  counts and pools, and names bound alike); and of the current state that it agrees if the
  last block is on the path.  `Nested` ties the blocks to the scopes that are open
  (`Level`), which is why the binding found by `resolve` is the one of the block that
  declares the name, and why ending a scope forgets the names of that block and no other.

They assume `FreshDiffers`: the word for a new object is no local, and the bound on the
rounds is a number.

`CompilerProofs` has the composition: a step of the compiler is a step of the pass, or
leaves its state alone, or starts or drops it (`PreStep`, `ParStep`, `BndStep`, `TrcStep`),
so an invariant of the pass is one of the compiler.  `ParserEntries`, `BinderMarks` and
`TracerNames` are the three assumptions as the compiler makes them, and TLC evaluates them in
`compiler`.

Of the pipeline: `CleanSafety` (`CleanOutput`, because a stage that writes or runs is
reached only with nothing reported, `NothingYet`).

Model-checked only: `Handled`, which is liveness under fairness and so out of the prover's
reach, as ENABLED and induction over data are.  (The parser's programs are such data, and
the closed sets of steps are how its proof does without the induction.)  Every other
property that a run finds to hold is also stated by a theorem.

## 5. What is not modelled, and why

* Failing `malloc`/`realloc`: the code returns early in most places and dereferences in
  others; the model always gets its memory.
* `nupa_retain` beyond 2^32 references.
* Use of an array from user code while it is inside `removeAllObjects`
  (`NPMutableArray.np:147-154` leaves released elements visible until the end).
* Initialisers of weak locals with side effects (they are emitted twice).
* The debug trace of counts, selectors, `nupa_isKindOf`: no state.
* In the ARC pass: what it inserts around `@try` (in `ExceptionUnwind` instead),
  declarations with several declarators (only the first is tracked, `arc.rs:166`),
  shadowed names (`arc.rs:120`), `arc_optimize_pairs`.
* In the exceptions: subclasses in clauses (the code compares `isa`), `break` and `goto`
  out of `@try`, more than one owning local in a body.
* In the preprocessor: the text of lines.  `#if` expressions other than `defined(X)`,
  `!defined(X)` and one character are modelled by what they do, a panic (`rfind_token`,
  `preprocessor.rs:396-409`).  `#undef` is passed on to C and forgets nothing, an
  unterminated conditional drops the `#define` it holds back; the model does the same.
* In the parser: the trees, and the lexer, which is a function of text.  The flags that a
  failed speculation sets stay set, as in the code.
* In the binder: the trees of expressions, types and scopes of functions (the code has
  one scope for all variables, and so does the model).
* In the trace: `@try` and `@catch` (it takes each `@catch` as executed), literals, what
  is printed.  Its known limits are the restrictions of the programs above: an
  assignment in an inner block is lost at the end of that block, `v = [w retain]`
  is not traced, an object is recorded once in a pool.
* The elaborator's translation, the checker's rules (its outcome is an input of
  `Compiler`; `method_params` is keyed by the selector alone), the attribute table beyond
  the classes of attributes, class metadata, vtables and properties of the code
  generator, the printing of C: functions of trees and tables without a state that steps.
* The CFG builder: nothing reads its result.  The bare-metal runtime: the counts and
  pools are those of `runtime.c`; its heap, which reuses nothing, would need the failing
  allocations that are left out above.
* The parsing of the command line, the search for libraries, the tests.

## 6. How it was built, and what could follow

The order was: the runtime and its arrays and weak references; the ARC pass; exceptions;
the front end from the preprocessor to the binder, the trace, and the pipeline that
composes them; the proofs along with each.

What is left and could be worth it, most useful first: class metadata and vtables over
several translation units; `ArcPass` composed with `ExceptionUnwind` in one function; the
checker's rules.
