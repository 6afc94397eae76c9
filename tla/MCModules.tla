------------------------------ MODULE MCModules ------------------------------
\* A library for module ModuleManager: "app" imports an embedded module and
\* "bad", which may fail in every way, and "loop" imports "bad" and itself.
EXTENDS ModuleManager

MCKind ==
    [app |-> "source", bad |-> "source", loop |-> "source", sys |-> "embedded",
     lib |-> "dynlib", old |-> "bytecode", none |-> "none"]
MCNames == DOMAIN MCKind
MCImports ==
    [n \in MCNames |-> CASE n = "app" -> <<"sys", "bad">>
                         [] n = "loop" -> <<"bad", "loop">>
                         [] OTHER -> <<>>]
=============================================================================
