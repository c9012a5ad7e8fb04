---------------------------- MODULE BinderProofs ----------------------------
(***************************************************************************)
(* Theorems about Binder, for all sets of names and units of any length.   *)
(***************************************************************************)
EXTENDS Binder, SequenceTheorems, WellFoundedInduction, TLAPS

\* The lower part of a sequence: a stack that is popped.
LEMMA CutShape ==
    ASSUME NEW S, NEW s \in Seq(S), NEW n \in 0 .. Len(s)
    PROVE  LET r == SubSeq(s, 1, n)
           IN  /\ r \in Seq(S) /\ Len(r) = n /\ DOMAIN r = 1 .. n
               /\ \A i \in 1 .. n : r[i] = s[i]
OBVIOUS

\* A set of numbers has a least.
LEMMA LeastElement ==
    ASSUME NEW T \in SUBSET Nat, T # {}
    PROVE  \E x \in T : \A y \in T : x <= y
<1>1. PICK x \in T : \A y \in T : ~ (<<y, x>> \in OpToRel(<, Nat))
  BY NatLessThanWellFounded, WFMin
<1>2. \A y \in T : ~ (y < x)
  BY <1>1 DEF OpToRel
<1>3. \A y \in T : x \in Nat /\ y \in Nat
  OBVIOUS
<1>4. \A y \in T : x <= y
  BY <1>2, <1>3
<1> QED
  BY <1>4

Name == Class \cup Protocol \cup Space
Path == Seq(Name)
TreeNode ==
    [kind : {"interface", "implementation", "protocol"}, ns : Path, name : Name,
     refs : SUBSET Protocol, methods : SUBSET Sel, optional : BOOLEAN,
     class : Path \cup {Nil}, usings : Nat]
UsingSymbol == [fqn : Path, short : Path, is_namespace : BOOLEAN]
Requirements == [required : SUBSET Sel, optional : SUBSET Sel, parents : SUBSET Protocol]

TypeInv ==
    /\ cst \in Seq(TreeNode)
    /\ DOMAIN classes \subseteq Path
    /\ using_list \in Seq(UsingSymbol)
    /\ ns_prefix \in Path
    /\ \A p \in DOMAIN protocols : protocols[p] \in Requirements

-----------------------------------------------------------------------------
(* Names and nodes *)

LEMMA MinIs ==
    ASSUME NEW T \in SUBSET Nat, T # {}
    PROVE  Min(T) \in T /\ \A y \in T : Min(T) <= y
BY LeastElement DEF Min

LEMMA AppendIs ==
    ASSUME NEW ns \in Path, NEW name \in Name
    PROVE  /\ Append(ns, name) \in Path /\ Last(Append(ns, name)) = name
           /\ Len(Append(ns, name)) \in Nat /\ Len(Append(ns, name)) >= 1
           /\ Len(Append(ns, name)) <= 1 => Append(ns, name) = <<name>>
<1>1. /\ Append(ns, name) \in Seq(Name) /\ Len(ns) \in Nat
      /\ Len(Append(ns, name)) = Len(ns) + 1
      /\ Append(ns, name)[Len(ns) + 1] = name
  BY AppendProperties DEF Path
<1>2. ASSUME Len(Append(ns, name)) <= 1 PROVE Append(ns, name) = <<name>>
  <2>1. Len(Append(ns, name)) = 1 /\ Append(ns, name)[1] = name
    BY <1>1, <1>2
  <2> DEFINE a == Append(ns, name)
             b == <<name>>
  <2>2. b \in Seq(Name) /\ Len(b) = 1 /\ b[1] = name
    OBVIOUS
  <2>3. a \in Seq(Name) /\ Len(a) = Len(b) /\ \A i \in 1 .. Len(a) : a[i] = b[i]
    BY <1>1, <2>1, <2>2
  <2> HIDE DEF a, b
  <2>4. a = b
    BY <2>2, <2>3, SeqEqual
  <2> QED
    BY <2>4 DEF a, b
<1> QED
  BY <1>1, <1>2 DEF Path, Last

LEMMA QualifiedIs ==
    ASSUME TypeInv, NEW ns \in Path, NEW name \in Name
    PROVE  /\ Qualified(ns, name) \in Path
           /\ \/ Imported(name) = {} /\ Qualified(ns, name) = Append(ns, name)
              \/ /\ Imported(name) # {} /\ Qualified(ns, name) \in DOMAIN classes
                 /\ \E u \in Imported(name) : Qualified(ns, name) = Append(using_list[u].fqn, name)
<1>1. CASE Imported(name) = {}
  BY <1>1, AppendIs DEF Qualified
<1>2. CASE Imported(name) # {}
  <2>1. Imported(name) \in SUBSET Nat
    BY DEF Imported, TypeInv
  <2>2. PICK u \in Imported(name) : u = Min(Imported(name))
    BY <1>2, <2>1, MinIs
  <2>3. Qualified(ns, name) = Append(using_list[u].fqn, name)
    BY <1>2, <2>2 DEF Qualified
  <2>4. Append(using_list[u].fqn, name) \in DOMAIN classes
    BY <2>2 DEF Imported, Find
  <2> QED
    BY <1>2, <2>2, <2>3, <2>4 DEF TypeInv
<1> QED
  BY <1>1, <1>2

LEMMA NodeType ==
    ASSUME TypeInv, NEW kind \in {"interface", "implementation", "protocol"}, NEW name \in Name,
           NEW refs \in SUBSET Protocol, NEW methods \in SUBSET Sel, NEW optional \in BOOLEAN,
           NEW class \in Path \cup {Nil}
    PROVE  Node(kind, name, refs, methods, optional, class) \in TreeNode
BY DEF Node, TreeNode, TypeInv

LEMMA Nodes ==
    ASSUME TypeInv
    PROVE  /\ Len(cst) \in Nat /\ DOMAIN cst = 1 .. Len(cst)
           /\ \A i \in DOMAIN cst :
                 /\ cst[i] \in TreeNode
                 /\ cst[i].kind \in {"interface", "implementation", "protocol"}
                 /\ cst[i].ns \in Path /\ cst[i].name \in Name
                 /\ cst[i].refs \in SUBSET Protocol /\ cst[i].methods \in SUBSET Sel
                 /\ cst[i].optional \in BOOLEAN
                 /\ cst[i].class \in Path \cup {Nil} /\ cst[i].usings \in Nat
<1>1. \A i \in DOMAIN cst : cst[i] \in TreeNode
  BY DEF TypeInv
<1> QED
  BY <1>1 DEF TypeInv, TreeNode

LEMMA Uses ==
    ASSUME TypeInv
    PROVE  /\ Len(using_list) \in Nat /\ DOMAIN using_list = 1 .. Len(using_list)
           /\ \A u \in DOMAIN using_list : /\ using_list[u].fqn \in Path
                                          /\ using_list[u].is_namespace \in BOOLEAN
<1>1. \A u \in DOMAIN using_list : using_list[u] \in UsingSymbol
  BY DEF TypeInv
<1> QED
  BY <1>1 DEF TypeInv, UsingSymbol

-----------------------------------------------------------------------------
(* The end of the unit *)

LEMMA MissingType ==
    ASSUME TypeInv, NEW d PROVE Missing(d) \in SUBSET Sel
<1>1. ASSUME NEW p PROVE Declares(p) \in SUBSET Sel
  <2> DEFINE own == {i \in DOMAIN cst : cst[i].kind = "protocol" /\ OwnName(cst[i]) = <<p>>}
  <2>1. CASE own = {}
    BY <2>1 DEF Declares
  <2>2. CASE own # {}
    <3>1. own \in SUBSET Nat
      BY DEF TypeInv
    <3>2. Min(own) \in DOMAIN cst
      BY <2>2, <3>1, MinIs
    <3> QED
      BY <2>2, <3>2, Nodes DEF Declares
  <2> QED
    BY <2>1, <2>2
<1> QED
  BY <1>1 DEF Missing

\* What becomes of a node: methods are added, to no protocol.
Extended(d, e) ==
    /\ e.kind = d.kind /\ e.ns = d.ns /\ e.name = d.name /\ e.refs = d.refs
    /\ e.optional = d.optional /\ e.class = d.class /\ e.usings = d.usings
    /\ d.methods \subseteq e.methods /\ (d.kind = "protocol" => e.methods = d.methods)

SameName(i) == {j \in DOMAIN cst : OwnName(cst[j]) = OwnName(cst[i])}

LEMMA InjectIs ==
    ASSUME TypeInv, NEW new, new = Inject(cst)
    PROVE  /\ new \in Seq(TreeNode) /\ DOMAIN new = DOMAIN cst
           /\ \A i \in DOMAIN cst :
                 /\ Extended(cst[i], new[i])
                 /\ (cst[i].kind # "protocol" /\ \A j \in SameName(i) : i <= j)
                       => \A j \in SameName(i) : Missing(cst[j]) \subseteq new[i].methods
<1>1. DOMAIN new = DOMAIN cst
  BY DEF Inject
<1>2. ASSUME NEW i \in DOMAIN cst
      PROVE  /\ new[i] \in TreeNode
             /\ Extended(cst[i], new[i])
             /\ (cst[i].kind # "protocol" /\ \A j \in SameName(i) : i <= j)
                   => \A j \in SameName(i) : Missing(cst[j]) \subseteq new[i].methods
  <2> DEFINE more == UNION {Missing(cst[j]) : j \in SameName(i)}
             first == cst[i].kind # "protocol" /\ \A j \in SameName(i) : i <= j
  <2>1. new[i] = IF first THEN [cst[i] EXCEPT !.methods = @ \cup more] ELSE cst[i]
    BY DEF Inject, SameName
  <2>2. cst[i] \in TreeNode
    BY Nodes
  <2>3. more \in SUBSET Sel
    BY MissingType
  <2>4. \A j \in SameName(i) : Missing(cst[j]) \subseteq more
    OBVIOUS
  <2> HIDE DEF more
  <2>5. CASE first
    <3>1. new[i] = [cst[i] EXCEPT !.methods = cst[i].methods \cup more]
      BY <2>1, <2>5
    <3> QED
      BY <2>2, <2>3, <2>4, <2>5, <3>1 DEF TreeNode, Extended
  <2>6. CASE ~first
    BY <2>1, <2>2, <2>6 DEF Extended
  <2> QED
    BY <2>5, <2>6
<1>3. new \in [1 .. Len(cst) -> TreeNode]
  BY <1>1, <1>2, Nodes DEF Inject
<1> QED
  BY <1>1, <1>2, <1>3, Nodes

-----------------------------------------------------------------------------
(* The types, step by step *)

\* A path that a directive names.
Reference == Ref \cup {<<s>> : s \in Space}

LEMMA ReferenceType ==
    ASSUME NEW fqn \in Reference
    PROVE  /\ fqn \in Path /\ Len(fqn) \in {1, 2} /\ Last(fqn) \in Name /\ <<Last(fqn)>> \in Path
           /\ Len(fqn) = 1 => \E n \in Class \cup Space : fqn = <<n>>
<1>1. CASE \E n \in Class \cup Space : fqn = <<n>>
  BY <1>1 DEF Path, Name, Last
<1>2. CASE \E s \in Space, c \in Class : fqn = <<s, c>>
  BY <1>2 DEF Path, Name, Last
<1> QED
  BY <1>1, <1>2 DEF Reference, Ref

LEMMA UsingIs ==
    ASSUME TypeInv, NEW fqn \in Reference, NEW alias \in Class \cup {Nil}, Using(fqn, alias)
    PROVE  \/ UNCHANGED using_list
           \/ \E u \in UsingSymbol :
                 /\ using_list' = Append(using_list, u)
                 /\ \/ u = [fqn |-> fqn, short |-> fqn, is_namespace |-> TRUE] /\ alias = Nil
                    \/ /\ ~u.is_namespace /\ ~Find(classes, u.short)
<1> DEFINE short == IF alias # Nil THEN <<alias>> ELSE <<Last(fqn)>>
           alias_symbol == [fqn |-> fqn, short |-> short, is_namespace |-> FALSE]
           space_symbol == [fqn |-> fqn, short |-> fqn, is_namespace |-> TRUE]
<1>1. short \in Path /\ fqn \in Path
  <2>1. fqn \in Path /\ <<Last(fqn)>> \in Path
    BY ReferenceType
  <2>2. alias # Nil => <<alias>> \in Path
    BY DEF Path, Name
  <2> QED
    BY <2>1, <2>2
<1>2. alias_symbol \in UsingSymbol /\ space_symbol \in UsingSymbol
  BY <1>1 DEF UsingSymbol
<1>3. \/ UNCHANGED using_list
      \/ using_list' = Append(using_list, alias_symbol) /\ ~Find(classes, short)
      \/ using_list' = Append(using_list, space_symbol) /\ alias = Nil
  BY DEF Using, AddUsing
<1>4. alias_symbol.short = short /\ ~alias_symbol.is_namespace
  OBVIOUS
<1> HIDE DEF alias_symbol
<1> QED
  BY <1>2, <1>3, <1>4

\* What a step does to the tree, the classes and the directives: nothing, but for
\* a class that becomes known; a directive; a node; or the end of the unit.
StepDeclares ==
    /\ ns_prefix' \in Path
    /\ UNCHANGED <<cst, protocols, using_list, phase>> /\ DOMAIN classes \subseteq DOMAIN classes'
    /\ \A c \in DOMAIN classes' \ DOMAIN classes : \E n \in Class : c = ns_fqn(n)
StepUses ==
    /\ UNCHANGED <<cst, classes, protocols, ns_prefix, phase>>
    /\ \E fqn \in Reference, alias \in Class \cup {Nil} :
          /\ alias = Nil => Len(fqn) = 2 \/ \E s \in Space : fqn = <<s>>
          /\ Using(fqn, alias)
StepClass ==
    /\ phase = "binding" /\ UNCHANGED <<protocols, using_list, ns_prefix, phase>>
    /\ \E kind \in {"interface", "implementation"}, n \in Class, refs \in SUBSET Protocol,
          methods \in SUBSET Sel :
          /\ cst' = Append(cst, Node(kind, n, refs, methods, FALSE, ns_fqn(n)))
          /\ DOMAIN classes' = DOMAIN classes \cup {ns_fqn(n)}
StepProtocol ==
    /\ phase = "binding" /\ UNCHANGED <<classes, using_list, ns_prefix, phase>>
    /\ \E n \in Protocol, refs \in SUBSET Protocol, methods \in SUBSET Sel, optional \in BOOLEAN :
          /\ cst' = Append(cst, Node("protocol", n, refs, methods, optional, Nil))
          /\ Protocols(n, refs, methods, optional)
StepEnds ==
    /\ UNCHANGED <<classes, using_list, ns_prefix, protocols>>
    /\ \/ phase = "binding" /\ cst' = Inject(cst) /\ phase' = "bound"
       \/ UNCHANGED cst /\ phase' = "failed"

LEMMA Steps ==
    ASSUME TypeInv, [Next]_vars
    PROVE  StepDeclares \/ StepUses \/ StepClass \/ StepProtocol \/ StepEnds
<1> USE DEF Bind, InUnit, place, table
<1>1. ASSUME NEW c \in Class, NEW category \in BOOLEAN, NEW refs \in SUBSET Protocol,
             NEW methods \in SUBSET Sel, NEW ivars, NEW properties,
             Interface(c, category, refs, methods, ivars, properties)
      PROVE  /\ phase = "binding" /\ UNCHANGED <<protocols, using_list, ns_prefix, phase>>
             /\ cst' = Append(cst, Node("interface", c, refs, methods, FALSE, ns_fqn(c)))
             /\ DOMAIN classes' = DOMAIN classes \cup {ns_fqn(c)}
  BY <1>1 DEF Interface, Put
<1>2. ASSUME NEW c \in Class, OpenImplementation(c)
      PROVE  /\ phase = "binding" /\ UNCHANGED <<protocols, using_list, ns_prefix, phase, classes>>
             /\ \/ /\ cst' = Append(cst, Node("implementation", c, {}, {}, FALSE, ns_fqn(c)))
                   /\ DOMAIN classes = DOMAIN classes \cup {ns_fqn(c)}
                \/ UNCHANGED cst
  BY <1>2 DEF OpenImplementation, Find
<1>3. ASSUME NEW c \in Class, ForwardClass(c)
      PROVE  /\ UNCHANGED <<cst, protocols, using_list, ns_prefix, phase>>
             /\ DOMAIN classes \subseteq DOMAIN classes'
             /\ DOMAIN classes' \subseteq DOMAIN classes \cup {ns_fqn(c)}
  BY <1>3 DEF ForwardClass, Put
<1>4. ASSUME NEW p, NEW parents, NEW methods, NEW optional, Protocols(p, parents, methods, optional)
      PROVE  /\ phase = "binding" /\ UNCHANGED <<classes, using_list, ns_prefix, phase>>
             /\ cst' = Append(cst, Node("protocol", p, parents, methods, optional, Nil))
  BY <1>4 DEF Protocols
<1>5. ASSUME NEW fqn, NEW alias, Using(fqn, alias)
      PROVE  UNCHANGED <<cst, classes, protocols, ns_prefix, phase>>
  BY <1>5 DEF Using
<1>6. CASE \E s \in Space : OpenNamespace(s)
  <2>1. PICK s \in Space : OpenNamespace(s)
    BY <1>6
  <2>2. ns_prefix' \in Path
    BY <2>1 DEF OpenNamespace, TypeInv, Path, Name
  <2> QED
    BY <2>1, <2>2 DEF OpenNamespace, StepDeclares
<1>7. CASE CloseNamespace
  <2>1. ns_prefix' = SubSeq(ns_prefix, 1, Len(ns_prefix) - 1) /\ ns_prefix # <<>>
    BY <1>7 DEF CloseNamespace
  <2>2. Len(ns_prefix) - 1 \in 0 .. Len(ns_prefix)
    BY <2>1 DEF TypeInv, Path
  <2>3. ns_prefix' \in Path
    BY <2>1, <2>2, CutShape DEF TypeInv, Path
  <2> QED
    BY <1>7, <2>3 DEF CloseNamespace, StepDeclares
<1>8. ns_prefix \in Path
  BY DEF TypeInv
<1>9. CASE \/ CloseImplementation
           \/ \E v \in Var : Function(v) \/ Parameter(v) \/ Ident(v) \/ \E t \in Type : Variable(v, t)
  BY <1>8, <1>9 DEF CloseImplementation, Function, Parameter, Ident, Variable, StepDeclares
<1>10. CASE EndOfUnit
  BY <1>10 DEF EndOfUnit, StepEnds
<1>11. CASE UNCHANGED vars
  BY <1>8, <1>11 DEF vars, StepDeclares
<1>12. CASE \/ \E s \in Space : Using(<<s>>, Nil)
            \/ \E fqn \in Ref, alias \in Class \cup {Nil} :
                  (alias # Nil \/ Len(fqn) > 1) /\ Using(fqn, alias)
  <2>1. ASSUME NEW s \in Space, Using(<<s>>, Nil) PROVE StepUses
    <3>1. <<s>> \in Reference
      BY DEF Reference
    <3> QED
      BY <1>5, <2>1, <3>1 DEF StepUses
  <2>2. ASSUME NEW fqn \in Ref, NEW alias \in Class \cup {Nil}, alias # Nil \/ Len(fqn) > 1,
               Using(fqn, alias)
        PROVE  StepUses
    <3>1. fqn \in Reference
      BY DEF Reference
    <3>2. Len(fqn) \in {1, 2}
      BY <3>1, ReferenceType
    <3>3. alias = Nil => Len(fqn) = 2
      BY <2>2, <3>2
    <3> QED
      BY <1>5, <2>2, <3>1, <3>3 DEF StepUses
  <2> QED
    BY <1>12, <2>1, <2>2
<1>13. CASE \/ \E c \in Class, category \in BOOLEAN, refs \in One(Protocol), methods \in One(Sel) :
                  Interface(c, category, refs, methods, {}, {})
            \/ \E c \in Class, v \in Var : \/ Interface(c, FALSE, {}, {}, {v}, {})
                                           \/ Interface(c, FALSE, {}, {}, {}, {v})
  <2>1. One(Protocol) \subseteq SUBSET Protocol /\ One(Sel) \subseteq SUBSET Sel
    BY DEF One
  <2>2. PICK c \in Class, category \in BOOLEAN, refs \in SUBSET Protocol, methods \in SUBSET Sel :
           \E ivars, properties : Interface(c, category, refs, methods, ivars, properties)
    BY <1>13, <2>1
  <2>3. PICK ivars, properties : Interface(c, category, refs, methods, ivars, properties)
    BY <2>2
  <2>4. /\ phase = "binding" /\ UNCHANGED <<protocols, using_list, ns_prefix, phase>>
        /\ cst' = Append(cst, Node("interface", c, refs, methods, FALSE, ns_fqn(c)))
        /\ DOMAIN classes' = DOMAIN classes \cup {ns_fqn(c)}
    BY <1>1, <2>3
  <2> QED
    BY <2>4 DEF StepClass
<1>14. CASE \E c \in Class : OpenImplementation(c)
  <2>1. PICK c \in Class : OpenImplementation(c)
    BY <1>14
  <2>2. phase = "binding" /\ UNCHANGED <<protocols, using_list, ns_prefix, phase, classes>>
    BY <1>2, <2>1
  <2>3. CASE /\ cst' = Append(cst, Node("implementation", c, {}, {}, FALSE, ns_fqn(c)))
             /\ DOMAIN classes = DOMAIN classes \cup {ns_fqn(c)}
    <3>1. DOMAIN classes' = DOMAIN classes \cup {ns_fqn(c)}
      BY <2>2, <2>3
    <3>2. {} \in SUBSET Protocol /\ {} \in SUBSET Sel
      OBVIOUS
    <3>3. \E refs \in SUBSET Protocol, methods \in SUBSET Sel :
             cst' = Append(cst, Node("implementation", c, refs, methods, FALSE, ns_fqn(c)))
      BY <2>3, <3>2
    <3>4. "implementation" \in {"interface", "implementation"}
      OBVIOUS
    <3> HIDE DEF Node
    <3> QED
      BY <2>2, <3>1, <3>3, <3>4 DEF StepClass
  <2>4. CASE UNCHANGED cst
    BY <1>8, <2>2, <2>4 DEF StepDeclares
  <2> QED
    BY <1>2, <2>1, <2>3, <2>4
<1>15. CASE \E c \in Class : ForwardClass(c)
  <2>1. PICK c \in Class : ForwardClass(c)
    BY <1>15
  <2> QED
    BY <1>3, <1>8, <2>1 DEF StepDeclares
<1>16. CASE \E p \in Protocol, parents \in One(Protocol), methods \in One(Sel), optional \in BOOLEAN :
               Protocols(p, parents, methods, optional)
  <2>1. One(Protocol) \subseteq SUBSET Protocol /\ One(Sel) \subseteq SUBSET Sel
    BY DEF One
  <2>2. PICK p \in Protocol, parents \in SUBSET Protocol, methods \in SUBSET Sel, optional \in BOOLEAN :
           Protocols(p, parents, methods, optional)
    BY <1>16, <2>1
  <2> QED
    BY <1>4, <2>2 DEF StepProtocol
<1> QED
  BY <1>6, <1>7, <1>9, <1>10, <1>11, <1>12, <1>13, <1>14, <1>15, <1>16 DEF Next

\* A protocol keeps what it requires, and another declaration can add to it.
LEMMA ProtocolsAre ==
    ASSUME TypeInv, NEW n \in Protocol, NEW refs \in SUBSET Protocol, NEW methods \in SUBSET Sel,
           NEW optional \in BOOLEAN, Protocols(n, refs, methods, optional)
    PROVE  /\ DOMAIN protocols' = DOMAIN protocols \cup {n}
           /\ \A p \in DOMAIN protocols' : protocols'[p] \in Requirements
           /\ \A p \in DOMAIN protocols : protocols[p].required \subseteq protocols'[p].required
           /\ ~optional => methods \subseteq protocols'[n].required
<1> DEFINE old == IF Find(protocols, n) THEN protocols[n] ELSE NewProtocol
           kept == IF optional THEN [old EXCEPT !.optional = @ \cup methods]
                   ELSE [old EXCEPT !.required = @ \cup methods]
           new == [kept EXCEPT !.parents = @ \cup refs]
<1>1. old \in Requirements
  BY DEF TypeInv, NewProtocol, Requirements, Find
<1>2. kept \in Requirements /\ old.required \subseteq kept.required
      /\ (~optional => methods \subseteq kept.required)
  <2> HIDE DEF old
  <2> QED
    BY <1>1 DEF Requirements
<1>3. new \in Requirements /\ new.required = kept.required
  <2> HIDE DEF kept
  <2> QED
    BY <1>2 DEF Requirements
<1>4. protocols' = [p \in DOMAIN protocols \cup {n} |-> IF p = n THEN new ELSE protocols[p]]
  BY DEF Protocols, Put
<1>5. n \in DOMAIN protocols => old = protocols[n]
  BY DEF Find
<1> HIDE DEF old, kept, new
<1> QED
  BY <1>2, <1>3, <1>4, <1>5 DEF TypeInv

LEMMA TypeInit == Init => TypeInv
BY DEF Init, TypeInv, Empty, Path

LEMMA TypeStep == TypeInv /\ [Next]_vars => TypeInv'
<1> SUFFICES ASSUME TypeInv, [Next]_vars PROVE TypeInv'
  OBVIOUS
<1>0. \A n \in Class : ns_fqn(n) \in Path
  BY QualifiedIs DEF ns_fqn, TypeInv, Name
<1>1. CASE StepDeclares
  BY <1>0, <1>1 DEF TypeInv, StepDeclares
<1>2. CASE StepUses
  <2>1. \/ UNCHANGED using_list
        \/ \E u \in UsingSymbol : using_list' = Append(using_list, u)
    BY <1>2, UsingIs DEF StepUses
  <2>2. using_list' \in Seq(UsingSymbol)
    BY <2>1, AppendProperties DEF TypeInv
  <2> QED
    BY <1>2, <2>2 DEF TypeInv, StepUses
<1>3. CASE StepClass
  <2>1. PICK kind \in {"interface", "implementation"}, n \in Class, refs \in SUBSET Protocol,
             methods \in SUBSET Sel :
             /\ cst' = Append(cst, Node(kind, n, refs, methods, FALSE, ns_fqn(n)))
             /\ DOMAIN classes' = DOMAIN classes \cup {ns_fqn(n)}
    BY <1>3 DEF StepClass
  <2>2. Node(kind, n, refs, methods, FALSE, ns_fqn(n)) \in TreeNode
    BY <1>0, NodeType DEF Name
  <2>3. cst' \in Seq(TreeNode)
    BY <2>1, <2>2, AppendProperties DEF TypeInv
  <2> QED
    BY <1>0, <1>3, <2>1, <2>3 DEF TypeInv, StepClass
<1>4. CASE StepProtocol
  <2>1. PICK n \in Protocol, refs \in SUBSET Protocol, methods \in SUBSET Sel, optional \in BOOLEAN :
             /\ cst' = Append(cst, Node("protocol", n, refs, methods, optional, Nil))
             /\ Protocols(n, refs, methods, optional)
    BY <1>4 DEF StepProtocol
  <2>2. Node("protocol", n, refs, methods, optional, Nil) \in TreeNode
    BY NodeType DEF Name
  <2>3. cst' \in Seq(TreeNode)
    BY <2>1, <2>2, AppendProperties DEF TypeInv
  <2>4. \A p \in DOMAIN protocols' : protocols'[p] \in Requirements
    BY <2>1, ProtocolsAre
  <2> QED
    BY <1>4, <2>3, <2>4 DEF TypeInv, StepProtocol
<1>5. CASE StepEnds
  <2>1. cst' \in Seq(TreeNode)
    BY <1>5, InjectIs DEF TypeInv, StepEnds
  <2> QED
    BY <1>5, <2>1 DEF TypeInv, StepEnds
<1> QED
  BY <1>1, <1>2, <1>3, <1>4, <1>5, Steps

-----------------------------------------------------------------------------
(* The class that the elaborator finds *)

\* A node of a class is bound to a class of its own name, which is known and was
\* declared where the node is, or in a namespace in use; no alias for that simple
\* name is younger.
Meant(d, known, uses) ==
    /\ d.name \in Class /\ d.class \in known /\ d.usings \in Nat
    /\ \/ d.class = OwnName(d)
       \/ \E u \in DOMAIN uses : uses[u].is_namespace /\ d.class = Append(uses[u].fqn, d.name)
    /\ \A k \in DOMAIN uses :
          ~uses[k].is_namespace /\ uses[k].short = <<d.name>> /\ d.class = <<d.name>> => k <= d.usings

SameInv ==
    \A i \in DOMAIN cst : cst[i].kind # "protocol" => Meant(cst[i], DOMAIN classes, using_list)

LEMMA SameInit == Init => SameInv
BY DEF Init, SameInv

LEMMA SameStep == TypeInv /\ SameInv /\ [Next]_vars => SameInv'
<1> SUFFICES ASSUME TypeInv, SameInv, [Next]_vars PROVE SameInv'
  OBVIOUS
<1>1. CASE StepDeclares
  BY <1>1 DEF SameInv, StepDeclares, Meant
<1>2. CASE StepUses
  <2>1. PICK fqn \in Reference, alias \in Class \cup {Nil} :
           /\ alias = Nil => Len(fqn) = 2 \/ \E s \in Space : fqn = <<s>>
           /\ Using(fqn, alias)
    BY <1>2 DEF StepUses
  <2>2. CASE UNCHANGED using_list
    BY <1>2, <2>2 DEF SameInv, StepUses
  <2>3. ASSUME NEW u \in UsingSymbol, using_list' = Append(using_list, u),
               \/ u = [fqn |-> fqn, short |-> fqn, is_namespace |-> TRUE] /\ alias = Nil
               \/ ~u.is_namespace /\ ~Find(classes, u.short)
        PROVE  SameInv'
    <3>1. /\ DOMAIN using_list = 1 .. Len(using_list) /\ Len(using_list) \in Nat
          /\ DOMAIN using_list' = 1 .. Len(using_list) + 1
          /\ \A k \in DOMAIN using_list : using_list'[k] = using_list[k]
          /\ using_list'[Len(using_list) + 1] = u
      BY <2>3, AppendProperties DEF TypeInv
    <3>2. ASSUME NEW i \in DOMAIN cst, cst[i].kind # "protocol"
          PROVE  Meant(cst[i], DOMAIN classes, using_list')
      <4>1. Meant(cst[i], DOMAIN classes, using_list)
        BY <3>2 DEF SameInv
      <4>2. ~u.is_namespace /\ u.short = <<cst[i].name>> => cst[i].class # <<cst[i].name>>
        BY <2>3, <4>1 DEF Meant, Find
      <4> DEFINE d == cst[i]
      <4> HIDE DEF d
      <4>3. /\ d.name \in Class /\ d.class \in DOMAIN classes /\ d.usings \in Nat
            /\ \/ d.class = OwnName(d)
               \/ \E n \in DOMAIN using_list : /\ using_list[n].is_namespace
                                                /\ d.class = Append(using_list[n].fqn, d.name)
        BY <4>1 DEF Meant, d
      <4>4. \/ d.class = OwnName(d)
            \/ \E n \in DOMAIN using_list' : /\ using_list'[n].is_namespace
                                              /\ d.class = Append(using_list'[n].fqn, d.name)
        BY <3>1, <4>3
      <4>5. \A k \in DOMAIN using_list : ~using_list[k].is_namespace /\ using_list[k].short = <<d.name>>
               /\ d.class = <<d.name>> => k <= d.usings
        BY <4>1 DEF Meant, d
      <4>6. ASSUME NEW k \in DOMAIN using_list', ~using_list'[k].is_namespace,
                   using_list'[k].short = <<d.name>>, d.class = <<d.name>>
            PROVE  k <= d.usings
        <5>1. CASE k \in DOMAIN using_list
          BY <3>1, <4>5, <4>6, <5>1
        <5>2. CASE k = Len(using_list) + 1
          BY <3>1, <4>2, <4>6, <5>2 DEF d
        <5> QED
          BY <3>1, <5>1, <5>2
      <4> QED
        BY <4>3, <4>4, <4>6 DEF Meant, d
    <3> QED
      BY <1>2, <3>2 DEF SameInv, StepUses
  <2> QED
    BY <2>1, <2>2, <2>3, UsingIs
<1>3. CASE StepClass
  <2>1. PICK kind \in {"interface", "implementation"}, n \in Class, refs \in SUBSET Protocol,
             methods \in SUBSET Sel :
             /\ cst' = Append(cst, Node(kind, n, refs, methods, FALSE, ns_fqn(n)))
             /\ DOMAIN classes' = DOMAIN classes \cup {ns_fqn(n)}
    BY <1>3 DEF StepClass
  <2> DEFINE d == Node(kind, n, refs, methods, FALSE, ns_fqn(n))
  <2>2. ns_fqn(n) \in Path
    BY QualifiedIs DEF ns_fqn, TypeInv, Name
  <2>3. d \in TreeNode
    BY <2>2, NodeType DEF Name
  <2>4. d.name = n /\ d.class = ns_fqn(n) /\ d.ns = ns_prefix /\ d.usings = Len(using_list)
    BY DEF Node
  <2>5. \/ d.class = OwnName(d)
        \/ \E u \in DOMAIN using_list : /\ using_list[u].is_namespace
                                         /\ d.class = Append(using_list[u].fqn, d.name)
    <3>1. \/ ns_fqn(n) = Append(ns_prefix, n)
          \/ \E u \in Imported(n) : ns_fqn(n) = Append(using_list[u].fqn, n)
      BY QualifiedIs DEF ns_fqn, TypeInv, Name
    <3> HIDE DEF d
    <3> QED
      BY <2>4, <3>1 DEF OwnName, Imported
  <2> HIDE DEF d
  <2>6. Meant(d, DOMAIN classes', using_list)
    BY <2>1, <2>4, <2>5 DEF Meant, TypeInv
  <2>7. \A i \in DOMAIN cst' : (i \in DOMAIN cst /\ cst'[i] = cst[i]) \/ cst'[i] = d
    <3>1. cst' = Append(cst, d)
      BY <2>1 DEF d
    <3> QED
      BY <2>3, <3>1, AppendProperties DEF TypeInv
  <2>8. \A i \in DOMAIN cst : cst[i].kind # "protocol" => Meant(cst[i], DOMAIN classes', using_list)
    BY <2>1 DEF SameInv, Meant
  <2> QED
    BY <1>3, <2>6, <2>7, <2>8 DEF SameInv, StepClass
<1>4. CASE StepProtocol
  <2>1. PICK n \in Protocol, refs \in SUBSET Protocol, methods \in SUBSET Sel, optional \in BOOLEAN :
             cst' = Append(cst, Node("protocol", n, refs, methods, optional, Nil))
    BY <1>4 DEF StepProtocol
  <2> DEFINE d == Node("protocol", n, refs, methods, optional, Nil)
  <2>2. d \in TreeNode /\ d.kind = "protocol"
    BY NodeType DEF Name, Node
  <2> HIDE DEF d
  <2>3. cst' = Append(cst, d)
    BY <2>1 DEF d
  <2>4. \A i \in DOMAIN cst' : (i \in DOMAIN cst /\ cst'[i] = cst[i]) \/ cst'[i] = d
    BY <2>2, <2>3, AppendProperties DEF TypeInv
  <2> QED
    BY <1>4, <2>2, <2>4 DEF SameInv, StepProtocol
<1>5. CASE StepEnds
  <2>1. CASE UNCHANGED cst
    BY <1>5, <2>1 DEF SameInv, StepEnds
  <2>2. CASE cst' = Inject(cst)
    <3>1. DOMAIN cst' = DOMAIN cst /\ \A i \in DOMAIN cst : Extended(cst[i], cst'[i])
      BY <2>2, InjectIs
    <3>2. \A i \in DOMAIN cst :
             cst[i].kind # "protocol" => Meant(cst'[i], DOMAIN classes, using_list)
      <4>1. SUFFICES ASSUME NEW i \in DOMAIN cst, cst[i].kind # "protocol"
                     PROVE  Meant(cst'[i], DOMAIN classes, using_list)
        OBVIOUS
      <4>2. Meant(cst[i], DOMAIN classes, using_list) /\ Extended(cst[i], cst'[i])
        BY <3>1, <4>1 DEF SameInv
      <4>3. \A d, e : Meant(d, DOMAIN classes, using_list) /\ Extended(d, e)
                        => Meant(e, DOMAIN classes, using_list)
        BY DEF Meant, Extended, OwnName
      <4> QED
        BY <4>2, <4>3
    <3>3. \A i \in DOMAIN cst : cst'[i].kind = cst[i].kind
      BY <3>1 DEF Extended
    <3> QED
      BY <1>5, <3>1, <3>2, <3>3 DEF SameInv, StepEnds
  <2> QED
    BY <1>5, <2>1, <2>2 DEF StepEnds
<1> QED
  BY <1>1, <1>2, <1>3, <1>4, <1>5, Steps

LEMMA SameImplies == TypeInv /\ SameInv => SameClass
<1> SUFFICES ASSUME TypeInv, SameInv, NEW i \in DOMAIN cst, cst[i].kind # "protocol", ~Ambiguous(cst[i])
             PROVE  elaborator_ns_fqn(cst[i]) = cst[i].class
  BY DEF SameClass
<1> DEFINE d == cst[i]
<1>1. Meant(d, DOMAIN classes, using_list)
  BY DEF SameInv
<1>2. d.ns \in Path /\ d.name \in Name
  BY Nodes
<1>3. d.class \in Path
  BY <1>1 DEF Meant, TypeInv
<1> HIDE DEF d
<1>4. Len(d.class) <= 1 => d.class = <<d.name>>
  <2>1. PICK ns \in Path : d.class = Append(ns, d.name)
    BY <1>1, <1>2, Uses DEF Meant, OwnName
  <2> QED
    BY <1>2, <2>1, AppendIs
<1>5. \A k \in find_using(<<d.name>>) : using_list[k].is_namespace
  <2>1. SUFFICES ASSUME NEW k \in DOMAIN using_list, using_list[k].short = <<d.name>>,
                        ~using_list[k].is_namespace
                 PROVE  FALSE
    BY Uses DEF find_using, UsingSymbol
  <2>2. ~(k <= d.usings) /\ ~(Len(d.class) > 1)
    BY <2>1 DEF Ambiguous, d
  <2>3. Len(d.class) \in Nat
    BY <1>3 DEF Path
  <2>4. d.class = <<d.name>>
    BY <1>4, <2>2, <2>3
  <2> QED
    BY <1>1, <2>1, <2>2, <2>4 DEF Meant
<1>6. elaborator_ns_fqn(d) = Qualified(d.ns, d.name)
  <2>1. find_using(<<d.name>>) # {} => Min(find_using(<<d.name>>)) \in find_using(<<d.name>>)
    <3>1. find_using(<<d.name>>) \in SUBSET Nat
      BY Uses DEF find_using
    <3> QED
      BY <3>1, MinIs
  <2> QED
    BY <1>5, <2>1 DEF elaborator_ns_fqn
<1>7. CASE Imported(d.name) = {} /\ Qualified(d.ns, d.name) = Append(d.ns, d.name)
  <2>1. ASSUME NEW u \in DOMAIN using_list, using_list[u].is_namespace,
               d.class = Append(using_list[u].fqn, d.name)
        PROVE  FALSE
    <3>1. u \in Imported(d.name)
      BY <1>1, <2>1 DEF Imported, Find, Meant
    <3> QED
      BY <1>7, <3>1
  <2>2. d.class = OwnName(d)
    BY <1>1, <2>1 DEF Meant
  <2> QED
    BY <1>6, <1>7, <2>2 DEF OwnName, d
<1>8. CASE /\ Imported(d.name) # {} /\ Qualified(d.ns, d.name) \in DOMAIN classes
           /\ \E u \in Imported(d.name) : Qualified(d.ns, d.name) = Append(using_list[u].fqn, d.name)
  <2>1. PICK u \in Imported(d.name) : Qualified(d.ns, d.name) = Append(using_list[u].fqn, d.name)
    BY <1>8
  <2>2. using_list[u].fqn \in Path
    BY Uses DEF Imported
  <2>3. Last(Qualified(d.ns, d.name)) = d.name
    BY <1>2, <2>1, <2>2, AppendIs
  <2> QED
    BY <1>6, <1>8, <2>3 DEF Ambiguous, d
<1> QED
  BY <1>2, <1>7, <1>8, QualifiedIs

-----------------------------------------------------------------------------
(* The methods of protocols *)

\* The symbol of a protocol requires what each of its declarations requires.
Kept(d, known) ==
    d.kind = "protocol" /\ ~d.optional => /\ d.name \in DOMAIN known
                                          /\ d.methods \subseteq known[d.name].required
ConformInv == (\A i \in DOMAIN cst : Kept(cst[i], protocols)) /\ ConformersComplete

LEMMA ConformInit == Init => ConformInv
BY DEF Init, ConformInv, ConformersComplete

LEMMA InjectCompletes ==
    ASSUME TypeInv, \A i \in DOMAIN cst : Kept(cst[i], protocols), cst' = Inject(cst)
    PROVE  ConformersComplete'
<1>1. /\ DOMAIN cst' = DOMAIN cst
      /\ \A i \in DOMAIN cst :
            /\ Extended(cst[i], cst'[i])
            /\ (cst[i].kind # "protocol" /\ \A l \in SameName(i) : i <= l)
                  => \A l \in SameName(i) : Missing(cst[l]) \subseteq cst'[i].methods
  BY InjectIs
<1>2. \A i \in DOMAIN cst :
         /\ cst'[i].kind = cst[i].kind /\ cst'[i].ns = cst[i].ns /\ cst'[i].name = cst[i].name
         /\ cst'[i].refs = cst[i].refs /\ cst'[i].optional = cst[i].optional
         /\ (cst[i].kind = "protocol" => cst'[i].methods = cst[i].methods)
         /\ OwnName(cst'[i]) = OwnName(cst[i])
  BY <1>1 DEF Extended, OwnName
<1>3. \A i \in DOMAIN cst : {k \in DOMAIN cst' : OwnName(cst'[k]) = OwnName(cst'[i])} = SameName(i)
  BY <1>1, <1>2 DEF SameName
<1>4. ASSUME NEW i \in DOMAIN cst, NEW j \in DOMAIN cst,
             cst[i].kind = "interface", cst[i].ns = <<>>,
             cst[j].kind = "protocol", cst[j].ns = <<>>, cst[j].name \in cst[i].refs,
             ~cst[j].optional,
             \A k \in DOMAIN cst : cst[k].name = cst[j].name => k = j,
             \A k \in SameName(i) :
                (\A l \in SameName(i) : k <= l) => cst[k].kind = "interface"
      PROVE  cst[j].methods \subseteq UNION {cst'[k].methods : k \in SameName(i)}
  <2> DEFINE p == cst[j].name
             own == {l \in DOMAIN cst : cst[l].kind = "protocol" /\ OwnName(cst[l]) = <<p>>}
  <2>1. p \in DOMAIN protocols /\ cst[j].methods \subseteq protocols[p].required
    BY <1>4 DEF Kept
  <2>2. cst[j].methods \subseteq Required(p)
    <3>1. p \in Ancestors(p)
      BY <2>1 DEF Ancestors
    <3> QED
      BY <2>1, <3>1 DEF Required
  <2>3. OwnName(cst[j]) = <<p>>
    BY <1>4, AppendIs DEF OwnName
  <2>4. ASSUME NEW l \in own PROVE l = j
    <3>1. cst[l].ns \in Path /\ cst[l].name \in Name /\ Append(cst[l].ns, cst[l].name) = <<p>>
      BY Nodes DEF OwnName
    <3>2. Last(Append(cst[l].ns, cst[l].name)) = cst[l].name
      BY <3>1, AppendIs
    <3>3. Last(<<p>>) = p
      BY DEF Last
    <3> QED
      BY <1>4, <3>1, <3>2, <3>3
  <2>5. own = {j}
    BY <1>4, <2>3, <2>4
  <2>6. Declares(p) = cst[j].methods
    <3>1. own \in SUBSET Nat
      BY Nodes
    <3>2. Min(own) = j
      BY <2>5, <3>1, MinIs
    <3> QED
      BY <2>5, <3>2 DEF Declares
  <2>7. cst[j].methods \subseteq Missing(cst[i])
    <3>1. Missing(cst[i]) = UNION {Required(q) \cap Declares(q) : q \in cst[i].refs}
      BY <1>4 DEF Missing
    <3>2. Required(p) \cap Declares(p) \subseteq Missing(cst[i])
      BY <1>4, <3>1
    <3> QED
      BY <2>2, <2>6, <3>2
  <2>8. PICK k \in SameName(i) : \A l \in SameName(i) : k <= l
    <3>1. SameName(i) \in SUBSET Nat /\ i \in SameName(i)
      BY Nodes DEF SameName
    <3> QED
      BY <3>1, LeastElement
  <2>9. k \in DOMAIN cst /\ SameName(k) = SameName(i) /\ cst[k].kind = "interface" /\ i \in SameName(i)
    BY <1>4, <2>8 DEF SameName
  <2>10. Missing(cst[i]) \subseteq cst'[k].methods
    BY <1>1, <2>8, <2>9
  <2> QED
    BY <2>7, <2>8, <2>10
<1> QED
  BY <1>1, <1>2, <1>3, <1>4 DEF ConformersComplete

LEMMA ConformStep == TypeInv /\ ConformInv /\ [Next]_vars => ConformInv'
<1> SUFFICES ASSUME TypeInv, ConformInv, [Next]_vars PROVE ConformInv'
  OBVIOUS
<1>1. CASE StepDeclares \/ StepUses
  BY <1>1 DEF ConformInv, ConformersComplete, OwnName, StepDeclares, StepUses
<1>2. CASE StepClass
  <2>1. PICK kind \in {"interface", "implementation"}, n \in Class, refs \in SUBSET Protocol,
             methods \in SUBSET Sel :
             cst' = Append(cst, Node(kind, n, refs, methods, FALSE, ns_fqn(n)))
    BY <1>2 DEF StepClass
  <2> DEFINE d == Node(kind, n, refs, methods, FALSE, ns_fqn(n))
  <2>2. d \in TreeNode /\ d.kind # "protocol"
    <3>1. ns_fqn(n) \in Path
      BY QualifiedIs DEF ns_fqn, TypeInv, Name
    <3> QED
      BY <3>1, NodeType DEF Name, Node
  <2> HIDE DEF d
  <2>3. \A i \in DOMAIN cst' : (i \in DOMAIN cst /\ cst'[i] = cst[i]) \/ cst'[i] = d
    <3>1. cst' = Append(cst, d)
      BY <2>1 DEF d
    <3> QED
      BY <2>2, <3>1, AppendProperties DEF TypeInv
  <2>4. \A i \in DOMAIN cst' : Kept(cst'[i], protocols)
    BY <2>2, <2>3 DEF ConformInv, Kept
  <2> QED
    BY <1>2, <2>4 DEF ConformInv, ConformersComplete, StepClass
<1>3. CASE StepProtocol
  <2>1. PICK n \in Protocol, refs \in SUBSET Protocol, methods \in SUBSET Sel, optional \in BOOLEAN :
             /\ cst' = Append(cst, Node("protocol", n, refs, methods, optional, Nil))
             /\ Protocols(n, refs, methods, optional)
    BY <1>3 DEF StepProtocol
  <2> DEFINE d == Node("protocol", n, refs, methods, optional, Nil)
  <2>2. d \in TreeNode /\ d.name = n /\ d.methods = methods /\ d.optional = optional
    BY NodeType DEF Name, Node
  <2> HIDE DEF d
  <2>3. \A i \in DOMAIN cst' : (i \in DOMAIN cst /\ cst'[i] = cst[i]) \/ cst'[i] = d
    <3>1. cst' = Append(cst, d)
      BY <2>1 DEF d
    <3> QED
      BY <2>2, <3>1, AppendProperties DEF TypeInv
  <2>4. /\ DOMAIN protocols' = DOMAIN protocols \cup {n}
        /\ \A p \in DOMAIN protocols : protocols[p].required \subseteq protocols'[p].required
        /\ ~optional => methods \subseteq protocols'[n].required
    <3>1. DOMAIN protocols' = DOMAIN protocols \cup {n}
      BY <2>1, ProtocolsAre
    <3>2. \A p \in DOMAIN protocols : protocols[p].required \subseteq protocols'[p].required
      BY <2>1, ProtocolsAre
    <3>3. ~optional => methods \subseteq protocols'[n].required
      <4>1. CASE optional = FALSE
        BY <2>1, <4>1, ProtocolsAre
      <4>2. CASE optional = TRUE
        BY <4>2
      <4> QED
        BY <4>1, <4>2
    <3> QED
      BY <3>1, <3>2, <3>3
  <2>5. Kept(d, protocols')
    BY <2>2, <2>4 DEF Kept
  <2>6. \A i \in DOMAIN cst : Kept(cst[i], protocols')
    BY <2>4 DEF ConformInv, Kept
  <2>7. \A i \in DOMAIN cst' : Kept(cst'[i], protocols')
    BY <2>3, <2>5, <2>6
  <2> QED
    BY <1>3, <2>7 DEF ConformInv, ConformersComplete, StepProtocol
<1>4. CASE StepEnds
  <2>1. CASE cst' = Inject(cst)
    <3>1. ConformersComplete'
      BY <2>1, InjectCompletes DEF ConformInv
    <3>2. DOMAIN cst' = DOMAIN cst /\ \A i \in DOMAIN cst : Extended(cst[i], cst'[i])
      BY <2>1, InjectIs
    <3>3. \A i \in DOMAIN cst : Kept(cst'[i], protocols)
      BY <3>2 DEF ConformInv, Extended, Kept
    <3> QED
      BY <1>4, <3>1, <3>2, <3>3 DEF ConformInv, StepEnds
  <2>2. CASE UNCHANGED cst /\ phase' = "failed"
    BY <1>4, <2>2 DEF ConformInv, ConformersComplete, StepEnds
  <2> QED
    BY <1>4, <2>1, <2>2 DEF StepEnds
<1> QED
  BY <1>1, <1>2, <1>3, <1>4, Steps

-----------------------------------------------------------------------------
(* The types of variables *)

\* A name never declared has no symbol, or one without a type; one declared with
\* one type only has that type.
AsDeclared(v, symbol, as) ==
    /\ {d \in as : d[1] = v} = {} => v \notin DOMAIN symbol \/ symbol[v] = Untyped
    /\ \A t \in Type :
          {d \in as : d[1] = v} = {<<v, t>>} =>
             v \in DOMAIN symbol /\ symbol[v] = [kind |-> "variable", type |-> t]
TypedInv == \A v \in Var : AsDeclared(v, symbols, declared)

LEMMA TypedInit == Init => TypedInv
BY DEF Init, TypedInv, AsDeclared, Empty

LEMMA TypedImplies == TypedInv => DeclaredOnceTyped
BY DEF TypedInv, AsDeclared, DeclaredOnceTyped

\* The name itself: what it is declared as joins what it was declared as before.
LEMMA ThisName ==
    ASSUME NEW v, NEW as, NEW as2, NEW x, as2 = as \cup {<<v, x>>}
    PROVE  {d \in as2 : d[1] = v} = {d \in as : d[1] = v} \cup {<<v, x>>}
<1> DEFINE p == <<v, x>>
<1>1. p[1] = v /\ as2 = as \cup {p}
  OBVIOUS
<1> HIDE DEF p
<1>2. {d \in as2 : d[1] = v} = {d \in as : d[1] = v} \cup {p}
  BY <1>1
<1> QED
  BY <1>2 DEF p

LEMMA TypedStep == MarksDiffer /\ TypedInv /\ [Next]_vars => TypedInv'
<1> SUFFICES ASSUME MarksDiffer, TypedInv, [Next]_vars, NEW v \in Var
             PROVE  AsDeclared(v, symbols', declared')
  BY DEF TypedInv
<1>0. AsDeclared(v, symbols, declared)
  BY DEF TypedInv
<1>1. ASSUME NEW c, NEW category, NEW refs, NEW methods, NEW ivars, NEW properties,
             Interface(c, category, refs, methods, ivars, properties)
      PROVE  AsDeclared(v, symbols', declared')
  <2> DEFINE named == IF category THEN {} ELSE properties
  <2>1. /\ symbols' = [w \in DOMAIN symbols \cup named |->
                         IF Find(symbols, w) THEN symbols[w] ELSE [kind |-> "property", type |-> Nil]]
        /\ declared' = declared \cup {<<w, "property">> : w \in named}
    BY <1>1 DEF Interface
  <2> HIDE DEF named
  <2>2. CASE v \in named
    <3>1. <<v, "property">> \in {d \in declared' : d[1] = v}
      BY <2>1, <2>2
    <3>2. \A t \in Type : <<v, "property">> # <<v, t>>
      BY DEF MarksDiffer
    <3> QED
      BY <3>1, <3>2 DEF AsDeclared
  <2>3. CASE v \notin named
    <3>1. {d \in declared' : d[1] = v} = {d \in declared : d[1] = v}
      BY <2>1, <2>3
    <3>2. v \in DOMAIN symbols <=> v \in DOMAIN symbols'
      BY <2>1, <2>3
    <3>3. v \in DOMAIN symbols => symbols'[v] = symbols[v]
      BY <2>1 DEF Find
    <3> QED
      BY <1>0, <3>1, <3>2, <3>3 DEF AsDeclared
  <2> QED
    BY <2>2, <2>3
<1>2. ASSUME NEW w, NEW t, Variable(w, t) PROVE AsDeclared(v, symbols', declared')
  <2> DEFINE new == [kind |-> "variable", type |-> t]
  <2>1. /\ symbols' = IF Find(symbols, w) /\ (symbols[w].kind # "variable" \/ symbols[w].type # Nil)
                      THEN symbols ELSE Put(symbols, w, new)
        /\ declared' = declared \cup {<<w, t>>}
    BY <1>2 DEF Variable
  <2>2. CASE w = v
    <3>1. {d \in declared' : d[1] = v} = {d \in declared : d[1] = v} \cup {<<v, t>>}
      BY <2>1, <2>2, ThisName
    <3>2. ASSUME NEW u \in Type, {d \in declared' : d[1] = v} = {<<v, u>>}
          PROVE  v \in DOMAIN symbols' /\ symbols'[v] = [kind |-> "variable", type |-> u]
      <4>1. <<v, t>> = <<v, u>>
        BY <3>1, <3>2
      <4>2. u = t
        BY <4>1
      <4>3. CASE {d \in declared : d[1] = v} = {}
        <5>1. v \notin DOMAIN symbols \/ symbols[v] = Untyped
          BY <1>0, <4>3 DEF AsDeclared
        <5>2. symbols' = Put(symbols, v, new)
          BY <2>1, <2>2, <5>1 DEF Find, Untyped
        <5> QED
          BY <4>2, <5>2 DEF Put
      <4>4. CASE {d \in declared : d[1] = v} # {}
        <5>1. {d \in declared : d[1] = v} = {<<v, t>>}
          BY <3>1, <3>2, <4>2, <4>4
        <5>2. v \in DOMAIN symbols /\ symbols[v] = new
          BY <1>0, <4>2, <5>1 DEF AsDeclared
        <5>3. symbols' = symbols \/ symbols' = Put(symbols, v, new)
          BY <2>1, <2>2
        <5> QED
          BY <4>2, <5>2, <5>3 DEF Put
      <4> QED
        BY <4>3, <4>4
    <3>3. {d \in declared' : d[1] = v} # {}
      BY <3>1
    <3> QED
      BY <3>2, <3>3 DEF AsDeclared
  <2>3. CASE w # v
    <3>1. {d \in declared' : d[1] = v} = {d \in declared : d[1] = v}
      BY <2>1, <2>3
    <3>2. (v \in DOMAIN symbols <=> v \in DOMAIN symbols')
          /\ (v \in DOMAIN symbols => symbols'[v] = symbols[v])
      <4>1. symbols' = symbols \/ symbols' = Put(symbols, w, new)
        BY <2>1
      <4> QED
        BY <2>3, <4>1 DEF Put
    <3> QED
      BY <1>0, <3>1, <3>2 DEF AsDeclared
  <2> QED
    BY <2>2, <2>3
<1>3. ASSUME NEW w, Function(w) PROVE AsDeclared(v, symbols', declared')
  <2>1. /\ declared' = declared \cup {<<w, "function">>}
        /\ \/ symbols' = symbols
           \/ symbols' = Put(symbols, w, [kind |-> "function", type |-> Nil])
    BY <1>3 DEF Function, Declare
  <2>2. CASE w = v
    <3>1. <<v, "function">> \in {d \in declared' : d[1] = v}
      BY <2>1, <2>2
    <3>2. \A t \in Type : <<v, "function">> # <<v, t>>
      BY DEF MarksDiffer
    <3> QED
      BY <3>1, <3>2 DEF AsDeclared
  <2>3. CASE w # v
    <3>1. {d \in declared' : d[1] = v} = {d \in declared : d[1] = v}
      BY <2>1, <2>3
    <3>2. (v \in DOMAIN symbols <=> v \in DOMAIN symbols')
          /\ (v \in DOMAIN symbols => symbols'[v] = symbols[v])
      BY <2>1, <2>3 DEF Put
    <3> QED
      BY <1>0, <3>1, <3>2 DEF AsDeclared
  <2> QED
    BY <2>2, <2>3
<1>4. ASSUME NEW w, Parameter(w) \/ Ident(w) PROVE AsDeclared(v, symbols', declared')
  <2>1. /\ declared' = declared
        /\ \/ symbols' = symbols
           \/ w \notin DOMAIN symbols /\ symbols' = Put(symbols, w, Untyped)
    BY <1>4 DEF Parameter, Ident, Declare, Find
  <2> QED
    BY <1>0, <2>1 DEF AsDeclared, Put
<1>5. ASSUME UNCHANGED <<symbols, declared>> PROVE AsDeclared(v, symbols', declared')
  BY <1>0, <1>5
<1>6. CASE \E c \in Class : OpenImplementation(c) \/ ForwardClass(c)
  BY <1>5, <1>6 DEF OpenImplementation, ForwardClass, table
<1>7. CASE \/ CloseImplementation \/ CloseNamespace \/ EndOfUnit
           \/ \E s \in Space : OpenNamespace(s) \/ Using(<<s>>, Nil)
           \/ \E fqn \in Ref, alias \in Class \cup {Nil} : Using(fqn, alias)
  BY <1>5, <1>7 DEF CloseImplementation, CloseNamespace, EndOfUnit, OpenNamespace, Using, table
<1>8. CASE \E p \in Protocol, parents \in One(Protocol), methods \in One(Sel), optional \in BOOLEAN :
              Protocols(p, parents, methods, optional)
  BY <1>5, <1>8 DEF Protocols
<1>9. CASE UNCHANGED vars
  BY <1>5, <1>9 DEF vars
<1> QED
  BY <1>1, <1>2, <1>3, <1>4, <1>6, <1>7, <1>8, <1>9 DEF Next

=============================================================================
