------------------------------ MODULE MCPrograms ------------------------------
\* Literals, native functions and the library of module Programs.
EXTENDS Programs

MCInt == ("1" :> 1) @@ ("5" :> 5) @@ ("9" :> 9) @@ ("0" :> 0)
MCFloat == ("2.5" :> 5) @@ ("3.0" :> 6)
MCLiteral == DOMAIN MCInt \cup DOMAIN MCFloat \cup {"nil", "true", "false", "str", "sym"}
MCNatives ==
    [print |-> [argc |-> 1, oarg |-> 0, does |-> "nothing"],
     one |-> [argc |-> 0, oarg |-> 0, does |-> "value"],
     boom |-> [argc |-> 0, oarg |-> 0, does |-> "raise"],
     apply |-> [argc |-> 1, oarg |-> 0, does |-> "apply"]]
MCLibrary ==
    [sys |-> <<<<"x", SmallInt(1)>>>>,
     lib |-> <<<<"", FuncObj([code |-> <<Instr("RetNil", FALSE, 0)>>, consts |-> <<>>,
                              syms |-> <<>>], "lib", 0, 0)>>>>]
=============================================================================
