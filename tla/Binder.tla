------------------------------- MODULE Binder -------------------------------
(***************************************************************************)
(* src/crates/binder/src/binder.rs and src/crates/symbol/src/symbol.rs:    *)
(* one action per kind of declaration, the symbol table they fill, and the *)
(* requirements of protocols copied into classes at the end; then the      *)
(* names under which src/crates/elaborator/src/elaborator.rs finds the     *)
(* classes again.                                                          *)
(*                                                                         *)
(* A name is a path: <<A>>, or <<N, A>> for N::A.  Declared names are      *)
(* simple; names of classes, protocols and variables differ.               *)
(***************************************************************************)
EXTENDS Naturals, Sequences, SequencesExt

CONSTANTS
    Class, Protocol, Space, Var,    \* simple names
    Sel,                            \* selectors
    Type,                           \* types of variables
    Nil,                            \* None
    MaxDecls                        \* bound: declarations, uses of a variable

\* The marks in declared are no types.
MarksDiffer == Type \cap {"property", "function"} = {}

VARIABLES
    phase,          \* "binding", "bound" or "failed"
    cst,            \* the declarations of classes and protocols, in source order
    classes,        \* symtab.global: class -> ivars and properties
    protocols,      \* symtab.global: protocol -> requirements and parents
    symbols,        \* symtab: the first symbol of each variable's name
    using_list,
    ns_prefix,      \* namespaces that are open
    current_class,  \* class whose @implementation is open
    bind_error,     \* has_error
    size,           \* ghost: declarations and uses bound
    declared        \* ghost: what each variable's name was declared as

vars == <<phase, cst, classes, protocols, symbols, using_list, ns_prefix, current_class,
          bind_error, size, declared>>
table == <<classes, protocols, symbols, using_list>>
place == <<phase, ns_prefix, current_class>>

Empty == [x \in {} |-> Nil]
Init ==
    /\ phase = "binding" /\ cst = <<>>
    /\ classes = Empty /\ protocols = Empty /\ symbols = Empty /\ using_list = <<>>
    /\ ns_prefix = <<>> /\ current_class = Nil
    /\ bind_error = FALSE /\ size = 0 /\ declared = {}

\* Binder::new, for another unit.
NewBinder ==
    /\ phase' = "binding" /\ cst' = <<>>
    /\ classes' = Empty /\ protocols' = Empty /\ symbols' = Empty /\ using_list' = <<>>
    /\ ns_prefix' = <<>> /\ current_class' = Nil
    /\ bind_error' = FALSE /\ size' = 0 /\ declared' = {}

-----------------------------------------------------------------------------
(* The symbol table.                                                         *)
Find(map, name) == name \in DOMAIN map
Put(map, name, symbol) == [n \in DOMAIN map \cup {name} |-> IF n = name THEN symbol ELSE map[n]]
NewClass == [ivars |-> {}, properties |-> {}]
NewProtocol == [required |-> {}, optional |-> {}, parents |-> {}]
\* declare, for a name that lookup does not find: the first symbol stays.
Declare(name, symbol) ==
    symbols' = IF Find(symbols, name) THEN symbols ELSE Put(symbols, name, symbol)
Untyped == [kind |-> "variable", type |-> Nil]

\* The directives with this short name, of which the code takes the first.
find_using(short) == {i \in DOMAIN using_list : using_list[i].short = short}
\* The namespaces in use that have a class of this name; again the first counts.
Imported(name) ==
    {i \in DOMAIN using_list :
        using_list[i].is_namespace /\ Find(classes, Append(using_list[i].fqn, name))}
Qualified(ns, name) ==
    Append(IF Imported(name) # {} THEN using_list[Min(Imported(name))].fqn ELSE ns, name)
ns_fqn(name) == Qualified(ns_prefix, name)

Bind == phase = "binding" /\ size < MaxDecls /\ size' = size + 1
InUnit == Bind /\ current_class = Nil

-----------------------------------------------------------------------------
(* Declarations.                                                             *)

\* A declaration in the tree: where it is, the class it was bound to, and (a
\* ghost) how many @using directives came before it.
Node(kind, name, refs, methods, optional, class) ==
    [kind |-> kind, ns |-> ns_prefix, name |-> name, refs |-> refs, methods |-> methods,
     optional |-> optional, class |-> class, usings |-> Len(using_list)]
OwnName(node) == Append(node.ns, node.name)

\* Properties and instance variables of a category are not bound.
Interface(name, category, refs, methods, ivars, properties) ==
    /\ InUnit
    /\ LET class == ns_fqn(name)
           old == IF Find(classes, class) THEN classes[class] ELSE NewClass
           \* A property is a symbol of its own, for all classes.
           new == IF category THEN old ELSE [ivars |-> old.ivars \cup ivars,
                                             properties |-> old.properties \cup properties]
           named == IF category THEN {} ELSE properties
       IN  /\ classes' = Put(classes, class, new)
           /\ cst' = Append(cst, Node("interface", name, refs, methods, FALSE, class))
           /\ symbols' = [v \in DOMAIN symbols \cup named |->
                             IF Find(symbols, v) THEN symbols[v]
                             ELSE [kind |-> "property", type |-> Nil]]
           /\ declared' = declared \cup {<<v, "property">> : v \in named}
    /\ UNCHANGED <<protocols, using_list, place, bind_error>>

OpenImplementation(name) ==
    /\ InUnit
    /\ LET class == ns_fqn(name)
       IN  IF Find(classes, class)
           THEN /\ current_class' = class
                /\ cst' = Append(cst, Node("implementation", name, {}, {}, FALSE, class))
                /\ UNCHANGED bind_error
           ELSE bind_error' = TRUE /\ UNCHANGED <<cst, current_class>>
    /\ UNCHANGED <<phase, ns_prefix, table, declared>>
CloseImplementation ==
    /\ phase = "binding" /\ current_class # Nil /\ current_class' = Nil
    /\ UNCHANGED <<phase, ns_prefix, cst, table, bind_error, size, declared>>

\* A protocol is declared under its simple name.  One @optional makes all of its
\* methods optional.
Protocols(name, parents, methods, optional) ==
    /\ InUnit
    /\ LET old == IF Find(protocols, name) THEN protocols[name] ELSE NewProtocol
           kept == IF optional THEN [old EXCEPT !.optional = @ \cup methods]
                   ELSE [old EXCEPT !.required = @ \cup methods]
       IN  protocols' = Put(protocols, name, [kept EXCEPT !.parents = @ \cup parents])
    /\ cst' = Append(cst, Node("protocol", name, parents, methods, optional, Nil))
    /\ UNCHANGED <<classes, symbols, using_list, place, bind_error, declared>>

ForwardClass(name) ==
    /\ InUnit
    /\ classes' = LET class == ns_fqn(name)
                  IN  IF Find(classes, class) THEN classes ELSE Put(classes, class, NewClass)
    /\ UNCHANGED <<cst, protocols, symbols, using_list, place, bind_error, declared>>

OpenNamespace(space) ==
    /\ InUnit /\ ns_prefix' = Append(ns_prefix, space)
    /\ UNCHANGED <<phase, current_class, cst, table, bind_error, declared>>
CloseNamespace ==
    /\ phase = "binding" /\ current_class = Nil /\ ns_prefix # <<>>
    /\ ns_prefix' = SubSeq(ns_prefix, 1, Len(ns_prefix) - 1)
    /\ UNCHANGED <<phase, current_class, cst, table, bind_error, size, declared>>

AddUsing(fqn, short, is_namespace) ==
    using_list' = Append(using_list, [fqn |-> fqn, short |-> short, is_namespace |-> is_namespace])
\* @using fqn;  @using alias = fqn;  @using namespace fqn;
Using_Shadows(fqn, alias) ==
    /\ InUnit
    /\ LET short == IF alias # Nil THEN <<alias>> ELSE <<Last(fqn)>>
           introduces == alias # Nil \/ Len(fqn) > 1
       IN  IF introduces /\ find_using(short) # {}
           THEN bind_error' = TRUE /\ UNCHANGED using_list
           ELSE /\ IF introduces /\ Find(classes, fqn) THEN AddUsing(fqn, short, FALSE)
                   ELSE IF alias # Nil THEN UNCHANGED using_list
                   ELSE AddUsing(fqn, fqn, TRUE)
                /\ UNCHANGED bind_error
    /\ UNCHANGED <<place, cst, classes, protocols, symbols, declared>>

\* @using fqn;  @using alias = fqn;  @using namespace fqn;
Using(fqn, alias) ==
    /\ InUnit
    /\ LET short == IF alias # Nil THEN <<alias>> ELSE <<Last(fqn)>>
           introduces == alias # Nil \/ Len(fqn) > 1
       IN  IF introduces /\ (find_using(short) # {} \/ Find(classes, short))
           THEN bind_error' = TRUE /\ UNCHANGED using_list
           ELSE /\ IF introduces /\ Find(classes, fqn) THEN AddUsing(fqn, short, FALSE)
                   ELSE IF alias # Nil THEN UNCHANGED using_list
                   ELSE AddUsing(fqn, fqn, TRUE)
                /\ UNCHANGED bind_error
    /\ UNCHANGED <<place, cst, classes, protocols, symbols, declared>>

\* A variable, local or not: a name seen before gets the type it has not.
Variable_Seen(v, type) ==
    /\ Bind
    /\ Declare(v, [kind |-> "variable", type |-> type])
    /\ declared' = declared \cup {<<v, type>>}
    /\ UNCHANGED <<place, cst, classes, protocols, using_list, bind_error>>

Variable(v, type) ==
    /\ Bind
    /\ symbols' = IF Find(symbols, v) /\ (symbols[v].kind # "variable" \/ symbols[v].type # Nil)
                  THEN symbols ELSE Put(symbols, v, [kind |-> "variable", type |-> type])
    /\ declared' = declared \cup {<<v, type>>}
    /\ UNCHANGED <<place, cst, classes, protocols, using_list, bind_error>>

Function(v) ==
    /\ Bind
    /\ Declare(v, [kind |-> "function", type |-> Nil])
    /\ declared' = declared \cup {<<v, "function">>}
    /\ UNCHANGED <<place, cst, classes, protocols, using_list, bind_error>>

\* A parameter, of a method, a block or a @catch; a member of an enum.
Parameter(v) ==
    /\ Bind /\ Declare(v, Untyped)
    /\ UNCHANGED <<place, cst, classes, protocols, using_list, bind_error, declared>>

\* A name in an expression is declared by its use, except an instance variable.
Ident(v) ==
    /\ Bind
    /\ IF current_class # Nil /\ v \in classes[current_class].ivars THEN UNCHANGED symbols
       ELSE Declare(v, Untyped)
    /\ UNCHANGED <<place, cst, classes, protocols, using_list, bind_error, declared>>

-----------------------------------------------------------------------------
(* The end of the unit.                                                      *)

\* protocol_selectors: what the protocol and its ancestors require.  The ancestors
\* are in every set that has the protocol and the parents of its members.
Ancestors(p) ==
    {q \in DOMAIN protocols :
        \A S \in SUBSET Protocol :
            /\ p \in S
            /\ \A r \in S \cap DOMAIN protocols : protocols[r].parents \subseteq S
            => q \in S}
Required(p) == UNION {protocols[q].required : q \in Ancestors(p)}

\* Only the methods of the first declaration of the protocol itself are found.
Declares(p) ==
    LET own == {i \in DOMAIN cst : cst[i].kind = "protocol" /\ OwnName(cst[i]) = <<p>>}
    IN  IF own = {} THEN {} ELSE cst[Min(own)].methods
\* In a namespace a protocol is looked for under a name that none is declared under.
Missing(d) == IF d.kind = "protocol" \/ d.ns # <<>> THEN {}
              ELSE UNION {Required(p) \cap Declares(p) : p \in d.refs}

\* inject_methods_into_class: into the first declaration of the class's name.
Inject_First(tree) ==
    [i \in DOMAIN tree |->
        LET same == {j \in DOMAIN tree : OwnName(tree[j]) = OwnName(tree[i])}
        IN  IF tree[i].kind # "protocol" /\ \A j \in same : i <= j
            THEN [tree[i] EXCEPT !.methods = @ \cup Missing(tree[i])]
            ELSE tree[i]]

Inject(tree) ==
    [i \in DOMAIN tree |->
        LET same == {j \in DOMAIN tree : OwnName(tree[j]) = OwnName(tree[i])}
        IN  IF tree[i].kind # "protocol" /\ \A j \in same : i <= j
            THEN [tree[i] EXCEPT !.methods = @ \cup UNION {Missing(tree[j]) : j \in same}]
            ELSE tree[i]]

EndOfUnit ==
    /\ phase = "binding" /\ ns_prefix = <<>> /\ current_class = Nil
    /\ IF bind_error THEN phase' = "failed" /\ UNCHANGED cst
       ELSE phase' = "bound" /\ cst' = Inject(cst)
    /\ UNCHANGED <<table, ns_prefix, current_class, bind_error, size, declared>>

Ref == {<<c>> : c \in Class} \cup {<<s, c>> : s \in Space, c \in Class}
One(S) == {{}} \cup {{x} : x \in S}
Next ==
    \/ \E c \in Class, category \in BOOLEAN, refs \in One(Protocol), methods \in One(Sel) :
          Interface(c, category, refs, methods, {}, {})
    \/ \E c \in Class, v \in Var : Interface(c, FALSE, {}, {}, {v}, {}) \/ Interface(c, FALSE, {}, {}, {}, {v})
    \/ \E c \in Class : OpenImplementation(c) \/ ForwardClass(c)
    \/ CloseImplementation
    \/ \E p \in Protocol, parents \in One(Protocol), methods \in One(Sel), optional \in BOOLEAN :
          Protocols(p, parents, methods, optional)
    \/ \E s \in Space : OpenNamespace(s) \/ Using(<<s>>, Nil)
    \/ CloseNamespace
    \/ \E fqn \in Ref, alias \in Class \cup {Nil} : (alias # Nil \/ Len(fqn) > 1) /\ Using(fqn, alias)
    \/ \E v \in Var : Function(v) \/ Parameter(v) \/ Ident(v) \/ \E t \in Type : Variable(v, t)
    \/ EndOfUnit

Spec == Init /\ [][Next]_vars

-----------------------------------------------------------------------------
\* What the elaborator makes of a class name, with all that was declared.
elaborator_ns_fqn(d) ==
    LET named == find_using(<<d.name>>)
    IN  IF named # {} /\ ~using_list[Min(named)].is_namespace THEN using_list[Min(named)].fqn
        ELSE Qualified(d.ns, d.name)
\* More than one class or alias can be meant: the code takes the wrong one.
Ambiguous(d) ==
    \/ \E c \in DOMAIN classes : c # d.class /\ Last(c) = d.name
    \/ \E i \in DOMAIN using_list :
          /\ ~using_list[i].is_namespace /\ using_list[i].short = <<d.name>>
          /\ i <= d.usings \/ Len(d.class) > 1

\* Safety.  The elaborator resolves the name of each @interface and
\* @implementation to the class the binder bound it to, although by then more
\* classes, namespaces in use and aliases are known.  (Two classes of one simple
\* name are the exception, and an alias that was there before the class, or that
\* is the simple name of a class in a namespace.)
SameClass ==
    phase = "bound" =>
        \A i \in DOMAIN cst :
            cst[i].kind # "protocol" /\ ~Ambiguous(cst[i])
                => elaborator_ns_fqn(cst[i]) = cst[i].class

\* Safety.  A class has a slot for every method that a protocol it names declares
\* itself, whichever of the two is declared first and whichever of the class's
\* declarations names the protocol; both are outside of namespaces, the class's
\* first declaration is an @interface, and the protocol is declared once, without
\* @optional.  (The code injects nothing for a class or protocol in a namespace,
\* nor the methods of an ancestor of the protocol.)
ConformersComplete ==
    phase = "bound" =>
        \A i, j \in DOMAIN cst :
            LET class == {k \in DOMAIN cst : OwnName(cst[k]) = OwnName(cst[i])}
            IN  /\ cst[i].kind = "interface" /\ cst[i].ns = <<>>
                /\ cst[j].kind = "protocol" /\ cst[j].ns = <<>> /\ cst[j].name \in cst[i].refs
                /\ ~cst[j].optional
                /\ \A k \in DOMAIN cst : cst[k].name = cst[j].name => k = j
                /\ \A k \in class : (\A l \in class : k <= l) => cst[k].kind = "interface"
                => cst[j].methods \subseteq UNION {cst[k].methods : k \in class}

\* Safety.  A variable's name that the unit declares with one type, and as
\* nothing else, has that type in the symbol table wherever it was used before:
\* in other functions, as a parameter or without a declaration.
DeclaredOnceTyped ==
    phase = "bound" =>
        \A v \in Var, t \in Type :
            {d \in declared : d[1] = v} = {<<v, t>>} => symbols[v] = [kind |-> "variable", type |-> t]
=============================================================================
