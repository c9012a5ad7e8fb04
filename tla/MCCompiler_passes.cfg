SPECIFICATION Spec
CONSTANTS
    Macro = {a, b}
    PathName = {p, q}
    Main = Main
    FileOf <- EachPath
    NoMacro = NoMacro
    MaxLines = 5
    MaxNest = 2
    Entry = {"translation_unit", "compound_statement", "class_interface", "interface_body",
             "class_implementation", "statement", "expression"}
    MaxTokens = 3
    Class = {A, B}
    Protocol = {P, Q}
    Space = {N}
    Var = {x}
    Sel = {s}
    Type = {T}
    Nil = Nil
    MaxDecls = 3
    Local = {v, w}
    Fresh = Fresh
    MaxIters = 2
    MaxOpen = 3
    MaxStmts = 5
INVARIANTS
    ActiveIsReference DirectivesKept LinesOnce
    Progress DropsReported
    SameClass ConformersComplete DeclaredOnceTyped
    TraceIsRun LeaksReported
    CleanOutput
CHECK_DEADLOCK FALSE
