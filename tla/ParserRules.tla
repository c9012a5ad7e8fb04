---------------------------- MODULE ParserRules ----------------------------
(***************************************************************************)
(* src/crates/parser/src/parser.rs: the parse_* functions as programs of   *)
(* the few steps they are all made of.  Parser.tla runs the programs.      *)
(*                                                                         *)
(* A kind of token is what the parser can tell apart: "tname" is an        *)
(* identifier in type_names, "attr" is __attribute__, "sizekw" one of      *)
(* signed, unsigned, long and short, "idkw" one of id, Class, SEL and      *)
(* instancetype, "contextual" a word that is special in @property only.    *)
(***************************************************************************)
EXTENDS Naturals, Sequences

\* Cases consumes the token it finds and Look does not; Need is consume();
\* Choose stands for a test on what the model leaves out (texts and types).
Skip == [op |-> "skip"]
Drop == [op |-> "drop"]
Break == [op |-> "break"]
Continue == [op |-> "continue"]
Error == [op |-> "error"]
Recover == [op |-> "recover"]
Speculate == [op |-> "speculate"]
Commit == [op |-> "commit"]
Rewind == [op |-> "rewind"]
Need(k) == [op |-> "need", kinds |-> k]
On(k, yes) == [kinds |-> k, body |-> yes]
Cases(alternatives, no) == [op |-> "cases", alternatives |-> alternatives, no |-> no]
Match(k, yes, no) == Cases(<<On(k, yes)>>, no)
Look(k, yes, no) == [op |-> "look", kinds |-> k, yes |-> yes, no |-> no]
Ahead(k, yes, no) == [op |-> "ahead", kinds |-> k, yes |-> yes, no |-> no]
Choose(yes, no) == [op |-> "choose", yes |-> yes, no |-> no]
IfOk(yes, no) == [op |-> "ifok", yes |-> yes, no |-> no]
IfPanic(yes) == [op |-> "ifpanic", yes |-> yes, no |-> <<>>]
AfterSemicolon(yes) == [op |-> "aftersemi", yes |-> yes, no |-> <<>>]
IfStill(yes) == [op |-> "still", yes |-> yes, no |-> <<>>]
Loop(name, body) == [op |-> "loop", name |-> name, body |-> body]
Call(f) == [op |-> "call", f |-> f]
Some == [op |-> "return", ok |-> TRUE]
None == [op |-> "return", ok |-> FALSE]

May(k) == Match(k, <<>>, <<>>)
Try(f) == <<Call(f), IfOk(<<>>, <<None>>)>>                 \* f()?
Result(f) == <<Call(f), IfOk(<<Some>>, <<None>>)>>          \* return f()
OrBreak(k) == Match(k, <<>>, <<Break>>)
While(k, name, body) == Loop(name, <<Match(k, body, <<Break>>)>>)
Until(k, name, body) == Loop(name, <<Look(k \cup {"eof"}, <<Break>>, <<>>)>> \o body)
SkipTo(k) == Until(k, "skip", <<Skip>>)
\* The depth of the parentheses is left out: one of the ")" is the last.
SkipBalanced == Loop("balanced", <<Look({"eof"}, <<Break>>, <<>>),
                                   Look({")"}, <<Choose(<<Break>>, <<Skip>>)>>, <<Skip>>)>>)

-----------------------------------------------------------------------------
(* Kinds of token.                                                           *)
Ident == {"ident", "tname", "attr"}
match_name == Ident \cup {"idkw"}
is_name_token == Ident \cup {"self", "contextual"}
Flow == {"return", "break", "if", "else", "while", "do", "for", "switch", "goto", "case",
         "default", "sizeof"}
TypeWord == {"basekw", "sizekw", "idkw", "struct", "enum"}
Storage == {"const", "static", "volatile", "inline", "typedef"}
Qualifier == {"block", "strong", "unsafe"}
Plain == {"self", "super", "value", "asm", "extension", "alignof", "contextual"}
Word == Ident \cup Flow \cup TypeWord \cup Storage \cup Qualifier \cup Plain \cup {"auto", "typeof"}
AtOpener == {"@interface", "@implementation", "@protocol", "@class", "@namespace",
             "@endnamespace", "@using", "@end"}
AtWord == AtOpener \cup {"@property", "@synthesize", "@public", "@optional", "@selector",
                         "@encode", "@try", "@catch", "@finally", "@throw", "@synchronized", "@pool"}
Keyword == (Word \ Ident) \cup AtWord \cup {"pragma", "import"}
UnaryOp == {"++", "*", "&", "-", "+", "!"}
BinaryOp == {"*", "+", "-", "&", "^", "<", ">", ">>", "binop"}
Kind == Word \cup Keyword \cup UnaryOp \cup BinaryOp
          \cup {"number", "string", "literal", "=", "assignop", "?", ";", "{", "}", "(", ")",
                "[", "]", ",", ":", "::", ".", "...", "@[", "@{", "eof"}

Numeric == {"number"} \cup Ident
SelectorPart == Ident \cup {"idkw", "basekw", "sizekw"} \cup Qualifier \cup Plain
NotMethodName == (Flow \ {"else"}) \cup TypeWord \cup (Storage \ {"inline"}) \cup Qualifier
\* In parse_method: the first word of a selector, and the others.
FirstPart == Ident \cup (Keyword \ NotMethodName)
LaterPart == FirstPart \cup {"case", "default", "volatile", "unsafe"}

-----------------------------------------------------------------------------
(* Recovery.                                                                 *)
RecoveryPoint == AtOpener \cup TypeWord \cup Storage \cup {"import"}
                   \cup {"return", "if", "while", "for", "do", "switch", "break", "else"}
synchronize(skip) ==
    <<Recover, Loop("synchronize", <<Look({"eof"}, <<Break>>, <<>>), AfterSemicolon(<<Break>>),
                                     Look(RecoveryPoint, <<Break>>, <<skip>>)>>)>>

\* What a loop does after an item: recover, and move on if nothing was consumed.
Recovery_NotForced(end, skip) == IfOk(<<IfPanic(<<Recover>>)>>, synchronize(skip))

Recovery(end, skip) ==
    LET forced == IfStill(<<Look(end \cup {"eof"}, <<>>, <<skip>>)>>)
    IN  IfOk(<<IfPanic(<<Recover, forced>>)>>, synchronize(skip) \o <<forced>>)

-----------------------------------------------------------------------------
(* Types.                                                                    *)
parse_type_name ==
    <<While({"const", "static", "volatile", "block"}, "qualifiers", <<>>),
      Cases(<<On({"sizekw"}, <<Loop("sizes", <<Choose(<<OrBreak({"sizekw"})>>, <<Break>>)>>),
                               Choose(<<May({"basekw"})>>, <<>>), Some>>),
              On({"basekw", "idkw"}, <<Some>>),
              On({"struct", "enum"}, <<May(Ident), Some>>),
              On({"typeof"}, <<Need({"("}), SkipBalanced, Need({")"}), Some>>)>>,
            <<Look(Ident, Result("qualified_name"), <<None>>)>>)>>

\* Protocols, and the type arguments of a generic class.  What is no list of
\* protocols is read on as type arguments.
Arguments ==
    <<Loop("type_args", <<Call("type_full"),
                          IfOk(<<>>, <<SkipTo({",", ">"}), Look({"eof"}, <<Break>>, <<>>)>>),
                          OrBreak({","})>>),
      Match({">"}, <<>>, <<Error, SkipTo({">"}), May({">"})>>)>>
Angles ==
    <<Choose(<<Look(Ident, <<Loop("protocols", <<OrBreak(Ident), OrBreak({","})>>),
                             Match({">"}, <<>>, Arguments)>>, Arguments)>>,
             Arguments)>>

ParameterTypes ==
    Match({"("}, <<Until({")"}, "parameters",
                         <<Call("type_full"), IfOk(<<May(is_name_token)>>, <<Skip>>), OrBreak({","})>>),
                   Need({")"})>>, <<>>)
ArraySize == Match({"["}, <<May(Numeric), Need({"]"})>>, <<>>)
Declarator ==
    Match({"^"}, <<May(Ident), Need({")"}), ParameterTypes>>,
          <<Match({"*"}, <<Match(Ident, <<Match({"["}, <<Look({"]"}, <<>>, <<Skip>>), Need({"]"})>>,
                                                <<>>)>>, <<>>),
                           Need({")"}), ParameterTypes>>,
                  <<Need({")"})>>)>>)

parse_type_full ==
    Try("type_name") \o
    <<Choose(<<Match({"<"}, Angles, <<>>)>>, <<>>),
      While({"*"}, "pointers", <<>>),
      Match({"("}, <<Declarator>>, <<>>),
      Some>>

MoreNames(k) == While({"::"}, "qualified", <<OrBreak(k)>>)
parse_qualified_name == <<Match(match_name, <<MoreNames(match_name), Some>>, <<None>>)>>
parse_qualified_name_with_keywords ==
    <<Match(match_name \cup {"contextual"}, <<MoreNames(match_name), Some>>, <<None>>)>>

-----------------------------------------------------------------------------
(* Expressions.                                                              *)
CastType == {"basekw", "sizekw", "idkw", "struct", "enum", "const", "tname"}
Cast == <<Call("type_full"), IfOk(<<Match({")"}, <<Call("unary"), Some>>, <<>>)>>, <<>>)>>
Parenthesised ==
    <<Look(CastType, Cast, <<Look(Ident, <<Ahead({"::"}, Cast, <<>>)>>, <<>>)>>),
      Call("expression"), Need({")"}), IfOk(<<Some>>, <<None>>)>>

Selector == <<Need({"("}), Loop("selector", <<OrBreak(SelectorPart \ {"self", "super"}), OrBreak({":"})>>),
              Need({")"}), Some>>

\* A receiver is read as a type first; the lexer and the current token are put
\* back when it is none, but not has_error and panic_mode.
Receiver ==
    LET not_a_type == <<Rewind, Call("expression")>>
    IN  Look(Ident, <<Speculate, Call("type_full"),
                      IfOk(<<Look(Ident, <<Choose(<<Commit>>, not_a_type)>>, not_a_type)>>,
                           not_a_type)>>,
             <<Call("expression")>>)
MessageSend ==
    <<Receiver,
      While(SelectorPart, "message",
            <<Match({":"}, <<Call("assignment"),
                             While({","}, "variadic", <<Look({"]"}, <<Break>>, <<>>),
                                                        Call("assignment")>>)>>, <<>>)>>),
      Need({"]"}), Some>>

Elements(end) ==
    <<Until(end, "elements", <<Call("assignment"), OrBreak({","})>>), Need(end), Some>>
parse_init_list_or_dict == Elements({"}"})
DictLiteral ==
    <<Until({"}"}, "entries", <<Call("assignment"),
                                IfOk(<<Match({":"}, <<Call("expression")>>, <<>>)>>, <<>>),
                                OrBreak({","})>>),
      Need({"}"}), Some>>

parse_primary ==
    <<Cases(<<On({"extension"}, Result("primary")),
              On(Ident, <<MoreNames(match_name), Some>>),
              On({"idkw", "contextual", "self", "super", "value", "number", "literal"}, <<Some>>),
              On({"string"}, <<While({"string"}, "strings", <<>>), Some>>),
              On({"@selector"}, Selector),
              On({"@protocol"}, <<Need({"("}), May(Ident), Need({")"}), Some>>),
              On({"@encode"}, <<Need({"("}), Call("type_full"), Need({")"}), Some>>),
              On({"("}, Parenthesised),
              On({"^"}, Result("block_literal")),
              On({"@["}, Elements({"]"})),
              On({"["}, MessageSend),
              On({"{"}, parse_init_list_or_dict),
              On({"@{"}, DictLiteral)>>,
            <<None>>)>>

parse_block_literal ==
    <<Look({"basekw", "sizekw", "idkw"}, <<Call("type_name")>>,
           <<Look(Ident, <<Call("type_full")>>, <<>>)>>),
      ParameterTypes,
      Look({"{"}, <<Call("compound_statement")>>, <<>>),
      Some>>

is_builtin_type_arg_start ==
    {"basekw", "sizekw", "struct", "enum", "const", "volatile", "typeof"}
CallArguments ==
    <<Until({")"}, "arguments",
            <<Look(is_builtin_type_arg_start,
                   <<Call("type_full"), IfOk(<<OrBreak({","}), Continue>>, <<>>)>>, <<>>),
              Call("assignment"), OrBreak({","})>>),
      Need({")"})>>
parse_postfix ==
    Try("primary") \o
    <<Loop("postfix", <<Cases(<<On({"::", "."}, <<OrBreak(match_name)>>),
                                On({"["}, <<Call("expression"), Need({"]"})>>),
                                On({"("}, CallArguments),
                                On({"++"}, <<>>)>>, <<Break>>)>>),
      Some>>

\* When the operand is no type, the parser means to go back to its start; the
\* lexer stays where it is, and the token at which the type ended is lost.
Sizeof ==
    <<Call("type_full"), IfOk(<<Match({")"}, <<Choose(<<Some>>, <<>>)>>, <<>>)>>, <<>>),
      Skip, Call("expression"), Need({")"}), IfOk(<<Some>>, <<None>>)>>
parse_unary ==
    <<Cases(<<On(UnaryOp, Try("unary") \o <<Some>>),
              On({"sizeof"}, <<Match({"("}, Sizeof, <<>>)>>),
              On({"alignof"}, <<Match({"("}, <<Call("type_full"), IfOk(<<Need({")"}), Some>>, <<>>)>>,
                                      <<>>)>>)>>, <<>>)>>
    \o Result("postfix")

\* parse_multiplicative to parse_logical_or, which differ in their operators.
parse_binary == Try("unary") \o <<While(BinaryOp, "operators", Try("unary")), Some>>
parse_conditional ==
    Try("binary") \o
    <<Match({"?"}, Try("expression") \o <<Need({":"})>> \o Try("conditional"), <<>>), Some>>
parse_assignment ==
    Try("conditional") \o <<Match({"=", "assignop"}, Try("assignment"), <<>>), Some>>
parse_expression ==
    Try("assignment") \o
    <<Match({","}, <<Loop("commas", <<Call("assignment"), IfOk(<<>>, <<Break>>), OrBreak({","})>>)>>,
            <<>>),
      Some>>

-----------------------------------------------------------------------------
(* Statements.                                                               *)
AsmOperands(item) == Loop("operands", item \o <<OrBreak({","})>>)
parse_asm_operand ==
    <<Match({"["}, <<May(Ident), Need({"]"})>>, <<>>),
      Match({"string"}, <<>>, <<Error, None>>),
      Need({"("}), Call("expression"), IfOk(<<>>, <<Error, None>>), Need({")"}), Some>>
parse_asm_clobbers == <<Match({"string"}, <<>>, <<Error, None>>)>>
parse_asm_labels == <<Match(Ident, <<>>, <<Error, None>>)>>
\* The section says which of the lists it is.
parse_asm_body ==
    <<May({"volatile"}), May({"goto"}), Need({"("}),
      Match({"string"}, <<While({"string"}, "template", <<>>)>>, <<Error, None>>),
      While({":"}, "sections",
            <<Look({":"}, <<Continue>>, <<>>),
              Choose(<<AsmOperands(Try("asm_operand"))>>,
                     <<Choose(<<AsmOperands(parse_asm_clobbers)>>,
                              <<Choose(<<AsmOperands(parse_asm_labels)>>, <<Break>>)>>)>>)>>),
      Need({")"}), Need({";"}), Some>>

parse_compound_statement ==
    <<Need({"{"}),
      Until({"}"}, "statements", <<Call("statement"), Recovery({"}"}, Drop)>>),
      Need({"}"}), Some>>

\* The second token decides what a name at the start of a statement is.
is_declaration_start(yes, no) ==
    Look({"basekw", "sizekw", "struct", "enum", "auto", "typeof", "extension", "tname"}
           \cup Storage \cup Qualifier, yes,
         <<Look({"idkw"}, <<Ahead(Word \cup {"*", "[", "(", "<"}, yes, no)>>,
                <<Look(Ident, <<Ahead(Word \cup {"*", "::"}, yes, no)>>, no)>>)>>)

Condition == <<Need({"("}), Call("expression"), Need({")"})>>
Body == <<Call("statement"), Some>>
For ==
    <<Need({"("}),
      Match({";"}, <<>>, <<is_declaration_start(<<Call("declaration")>>,
                                                <<Call("expression"), Need({";"})>>)>>),
      Match({";"}, <<>>, <<Call("expression"), Need({";"})>>),
      Match({")"}, <<>>, <<Call("expression"), Need({")"})>>)>> \o Body
TryCatch ==
    <<Call("statement"),
      While({"@catch"}, "catches",
            <<Match({"("}, <<Call("type_full"), May(Ident), Need({")"})>>, <<>>), Call("statement")>>),
      Match({"@finally"}, <<Call("statement")>>, <<>>),
      Some>>
parse_statement_Unterminated ==
    <<Look({"{"}, Result("compound_statement"), <<>>),
      is_declaration_start(<<Call("declaration"), IfOk(<<Some>>, <<>>)>>, <<>>),
      Call("expression"), May({";"}), IfOk(<<Some>>, <<None>>)>>

Jumps ==
    <<On({"return"}, <<Look({";", "}"}, <<>>, <<Call("expression")>>), Need({";"}), Some>>),
      On({"break"}, <<Need({";"}), Some>>),
      On({"goto"}, <<May(Ident), Need({";"}), Some>>),
      On({"asm"}, Result("asm_body")),
      On({"@throw"}, <<Look({";"}, <<>>, <<Call("expression")>>), Need({";"}), Some>>)>>
parse_statement ==
    <<Look({"pragma"}, Result("raw_pragma_decl"), <<>>),
      Look(Ident, <<Ahead({":"}, <<Skip, Need({":"}), Some>>, <<>>)>>, <<>>),
      Cases(Jumps \o
            <<On({"if"}, Condition \o <<Call("statement"), Match({"else"}, <<Call("statement")>>, <<>>),
                                        Some>>),
              On({"while", "switch", "@synchronized"}, Condition \o Body),
              On({"do"}, <<Call("statement"), Need({"while"})>> \o Condition \o <<Need({";"}), Some>>),
              On({"for"}, For),
              On({"case"}, <<Call("expression"), Need({":"})>> \o Body),
              On({"default"}, <<Need({":"})>> \o Body),
              On({"@try"}, TryCatch),
              On({"@pool"}, Body)>>, <<>>),
      Look({"{"}, Result("compound_statement"), <<>>),
      Look({"attr"}, <<Call("attributes")>>, <<>>),
      is_declaration_start(<<Call("declaration"), IfOk(<<Some>>, <<>>)>>, <<>>),
      Call("expression"), Need({";"}), IfOk(<<Some>>, <<None>>)>>

-----------------------------------------------------------------------------
(* Declarations.                                                             *)
parse_attributes ==
    <<While({"attr"}, "attributes", <<OrBreak({"("}), OrBreak({"("}), SkipBalanced, May({")"}), May({")"})>>),
      Some>>
parse_decl_qualifiers == <<While({"static", "const", "block"}, "qualifiers", <<>>), Some>>
parse_raw_pragma_decl == <<Skip, Loop("line", <<Look({"eof"}, <<Break>>, <<>>), Choose(<<Break>>, <<Skip>>)>>),
                           Some>>

parse_function_decl_or_definition ==
    <<Need({"("}),
      Until({")"}, "parameters",
            <<Match({"..."}, <<Break>>, <<>>),
              Call("type_full"),
              IfOk(<<Match(is_name_token, <<ArraySize>>, <<>>), Call("attributes")>>, <<Skip>>),
              OrBreak({","})>>),
      Need({")"}), Call("attributes"),
      Look({"{"}, <<Call("compound_statement")>>, <<Need({";"})>>),
      Some>>

Initializer == Match({"="}, <<Call("assignment")>>, <<>>)
Variables ==
    <<ArraySize, Initializer,
      Match({","}, <<Loop("declarators", <<OrBreak(Ident), Initializer, OrBreak({","})>>)>>, <<>>),
      Need({";"}), Some>>
FunctionOrVariables == <<Look({"("}, Result("function_decl_or_definition"), Variables)>>

StructRest == Try("struct_body") \o <<Call("attributes"), Need({";"}), Some>>
Struct ==
    <<Match(Ident, <<Look({"{"}, StructRest, <<>>),
                     Match({";"}, <<Some>>, <<>>),
                     While({"*"}, "pointers", <<>>), Call("decl_qualifiers")>>
                   \o Try("qualified_name_with_keywords") \o FunctionOrVariables,
            <<>>)>> \o StructRest

parse_declaration == <<Call("attributes")>> \o Result("declaration_inner")
parse_declaration_inner ==
    <<Cases(<<On({"extension"}, Result("declaration_inner")),
              On({"asm"}, Result("asm_body")),
              On({"typedef"}, <<Call("attributes")>> \o Result("typedef")),
              On({"struct"}, Struct),
              On({"enum"}, Result("enum"))>>, <<>>),
      Look({"pragma"}, Result("raw_pragma_decl"), <<>>),
      Look({"@interface"}, Result("class_interface"), <<>>),
      Look({"@implementation"}, Result("class_implementation"), <<>>),
      Look({"@protocol"}, Result("protocol"), <<>>),
      Look({"@class"}, Result("forward_class"), <<>>),
      Look({"@namespace"}, Result("namespace"), <<>>),
      Look({"@using"}, Result("using"), <<>>),
      Call("decl_qualifiers"),
      Call("type_full"), IfOk(<<>>, <<Match(Ident, <<>>, <<None>>)>>),
      Call("attributes"),
      \* The name is in the type of a block or of a pointer to a function.
      Choose(<<>>, Try("qualified_name_with_keywords"))>> \o FunctionOrVariables

Alias == <<Match(Ident, <<Need({";"}), Some>>, <<>>)>>
NamedType ==
    <<Call("type_full"),
      Choose(<<Need({";"}), Some>>, <<>>),
      Match(Ident, <<While({"["}, "sizes", <<May(Numeric), Need({"]"})>>), Need({";"}), Some>>, <<>>),
      Need({";"}), None>>
parse_typedef ==
    <<Match({"enum"}, Try("enum") \o Alias \o <<Need({";"}), Some>>, <<>>),
      Match({"struct"}, <<Match(Ident, <<Look({"{"}, Try("struct_body"), <<>>)>> \o Alias
                                       \o <<Need({";"}), Some>>, <<>>),
                          Look({"{"}, Try("struct_body") \o Alias \o <<Need({";"}), Some>>, <<>>),
                          Need({";"}), None>>, <<>>)>> \o NamedType

BitWidth ==
    While({":"}, "widths",
          <<May(Numeric), While({"+", "-", "*", "binop", ">>", "&"}, "width", <<May(Numeric)>>)>>)
parse_struct_body ==
    <<Skip,
      Until({"}"}, "fields",
            <<May({"extension"}), Call("type_full"),
              IfOk(<<May(Ident), While({"["}, "sizes", <<May(Numeric), Need({"]"})>>),
                     BitWidth, Call("attributes"),
                     While({","}, "names", <<Match(Ident, <<Call("attributes")>>, <<>>)>>)>>,
                   <<Look({";", "}"}, <<>>, <<Break>>)>>),
              Need({";"}),
              While({"static", "const", "volatile", "inline"}, "qualifiers", <<>>)>>),
      Need({"}"}), Some>>
parse_enum ==
    <<Match(Ident, <<Look({"{"}, <<>>, <<Need({";"}), Some>>)>>, <<>>),
      Match({"{"}, <<Until({"}"}, "members",
                           <<OrBreak(Ident), Match({"="}, <<May({"number"})>>, <<>>), OrBreak({","})>>),
                     Need({"}"}), Some>>, <<>>),
      None>>

-----------------------------------------------------------------------------
(* Classes, protocols and namespaces.                                        *)
Category == Match({"("}, <<SkipTo({")"}), Need({")"})>>, <<>>)
Superclass == Match({":"}, <<Look(Ident, <<Call("qualified_name")>>, <<>>)>>, <<>>)
Protocols == Match({"<"}, <<Loop("protocols", <<OrBreak(Ident), OrBreak({","})>>), May({">", ">>"})>>, <<>>)
Ivars ==
    Match({"{"}, <<Until({"}"}, "ivars",
                         <<Match({"@public"}, <<Continue>>, <<>>),
                           May({"extension"}),
                           Match({"("}, <<SkipTo({")"}), Need({")"})>>, <<>>),
                           Call("type_full"),
                           IfOk(<<Loop("names", <<OrBreak(match_name), ArraySize, OrBreak({","})>>)>>, <<>>),
                           Need({";"})>>),
                   Need({"}"})>>, <<>>)
InterfaceName ==
    <<Skip,
      Match(match_name, <<>>, <<Error, None>>),
      While({"::"}, "qualified", <<Match(match_name, <<>>, <<Error, None>>)>>),
      Category,
      Match({"<"}, <<Loop("type_params", <<OrBreak(match_name), OrBreak({","})>>), Need({">"})>>, <<>>)>>
Members ==
    <<Until({}, "members",
            <<Match({"@end"}, <<Break>>, <<>>),
              Look({"pragma"}, <<Call("raw_pragma_decl"), Continue>>, <<>>),
              Match({"@property"}, <<Call("property"), Continue>>, <<>>),
              Match({"@synthesize"},
                    <<Loop("names", <<Match(SelectorPart \ {"self", "super"},
                                            <<Match({"="}, <<May(Ident)>>, <<>>)>>, <<Break>>),
                                      OrBreak({","})>>),
                      Need({";"}), Continue>>, <<>>),
              Match({"@public", "block", "strong"}, <<Continue>>, <<>>),
              Call("method"), IfOk(<<>>, <<Skip>>)>>)>>
InterfaceBody == <<Superclass, Protocols, Ivars>> \o Members \o <<Some>>
parse_class_interface == InterfaceName \o InterfaceBody

parse_class_implementation ==
    <<Skip,
      Call("qualified_name_with_keywords"), IfOk(<<>>, <<Error, None>>),
      Category, Superclass,
      Until({}, "members",
            <<Match({"@end"}, <<Break>>, <<>>),
              Look({"pragma"}, <<Call("raw_pragma_decl"), Continue>>, <<>>),
              Match({"@property", "@synthesize"},
                    <<Match({"("}, <<SkipBalanced, May({")"})>>, <<>>), SkipTo({";"}), May({";"}), Continue>>,
                    <<>>),
              Look({"+", "-"}, <<Call("method"), IfOk(<<Continue>>, <<>>)>>,
                   <<is_declaration_start(<<Call("declaration"), IfOk(<<Continue>>, <<>>)>>, <<>>)>>),
              Call("method"), IfOk(<<>>, <<Look({"eof"}, <<Break>>, <<Skip>>)>>)>>),
      Some>>

parse_property ==
    <<Match({"("}, <<Until({")"}, "attributes",
                           <<Match({"contextual"},
                                   <<Choose(<<Need({"="}), Match(Ident, <<May({":"})>>, <<>>)>>, <<>>)>>,
                                   <<Skip>>),
                             OrBreak({","})>>),
                     Need({")"})>>, <<>>),
      Call("type_full"),
      Match(match_name, <<Match({"["}, <<May({"number"}), Need({"]"})>>, <<>>),
                          Match({","}, <<Loop("names", <<OrBreak(match_name), OrBreak({","})>>)>>, <<>>),
                          Need({";"}), Some>>, <<>>),
      Need({";"}), None>>

MethodType == Match({"("}, <<Call("type_full"), Need({")"})>>, <<Call("type_full")>>)
Parameter == <<MethodType, May(is_name_token)>>
CParameters ==
    Match({"("}, <<Until({")"}, "parameters",
                         <<Call("type_full"), IfOk(<<May(is_name_token)>>, <<>>), OrBreak({","})>>),
                   Need({")"})>>, <<>>)
MethodBody == <<Look({"{"}, <<Call("compound_statement")>>, <<Need({";"})>>), Some>>
parse_method ==
    <<Match({"+", "-"}, <<>>, <<None>>),
      MethodType,
      Match(FirstPart,
            <<Match({":"}, Parameter
                             \o <<While(LaterPart, "parts", <<Match({":"}, Parameter, <<Break>>)>>)>>
                             \o MethodBody, <<>>)>>, <<>>),
      CParameters>> \o MethodBody

parse_protocol ==
    <<Skip, Match(match_name, <<>>, <<Error, None>>), Protocols,
      Until({}, "members",
            <<Match({"@end"}, <<Break>>, <<>>),
              Match({"@optional"}, <<Continue>>, <<>>),
              Call("method"), IfOk(<<>>, <<Skip>>)>>),
      Some>>
parse_forward_class == <<Skip, Loop("names", <<OrBreak(Ident), OrBreak({","})>>), Need({";"}), Some>>
parse_namespace ==
    <<Skip, Call("qualified_name_with_keywords"), IfOk(<<>>, <<Error, None>>),
      Until({}, "members", <<Match({"@endnamespace"}, <<Break>>, <<>>),
                             Call("declaration"), IfOk(<<>>, <<Skip>>)>>),
      Some>>
\* namespace is a word of its own only after @using.
parse_using ==
    <<Skip,
      Match({"@namespace"} \cup Ident,
            <<Choose(<<Call("qualified_name_with_keywords"), Need({";"}), IfOk(<<Some>>, <<None>>)>>,
                     <<Match({"="}, <<Call("type_full")>>, <<MoreNames(Ident)>>)>>)>>, <<>>),
      Need({";"}), Some>>

parse_translation_unit ==
    <<Until({}, "declarations", <<Call("declaration"), Recovery({}, Skip)>>)>>

Program ==
    [type_name |-> parse_type_name, type_full |-> parse_type_full,
     qualified_name |-> parse_qualified_name,
     qualified_name_with_keywords |-> parse_qualified_name_with_keywords,
     primary |-> parse_primary, block_literal |-> parse_block_literal, postfix |-> parse_postfix,
     unary |-> parse_unary, binary |-> parse_binary, conditional |-> parse_conditional,
     assignment |-> parse_assignment, expression |-> parse_expression,
     asm_operand |-> parse_asm_operand, asm_body |-> parse_asm_body,
     compound_statement |-> parse_compound_statement, statement |-> parse_statement,
     attributes |-> parse_attributes, decl_qualifiers |-> parse_decl_qualifiers,
     raw_pragma_decl |-> parse_raw_pragma_decl,
     function_decl_or_definition |-> parse_function_decl_or_definition,
     declaration |-> parse_declaration, declaration_inner |-> parse_declaration_inner,
     typedef |-> parse_typedef, struct_body |-> parse_struct_body, enum |-> parse_enum,
     \* interface_body is no function, only a point at which Parser.tla may start.
     interface_body |-> InterfaceBody,
     class_interface |-> parse_class_interface, class_implementation |-> parse_class_implementation,
     property |-> parse_property, method |-> parse_method, protocol |-> parse_protocol,
     forward_class |-> parse_forward_class, namespace |-> parse_namespace, using |-> parse_using]
=============================================================================
