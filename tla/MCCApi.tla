------------------------------- MODULE MCCApi -------------------------------
(* A small instance of the C API for TLC. *)
EXTENDS CApi

MCNames == {"f", "main"}
MCPushable == {Num, Sym}
MCElems == {Num}
MCStorable == [n \in MCNames |-> IF n = "main" THEN {Num} ELSE {}]
MCGlobals == [f |-> None, main |-> Func(0)]
MCBase == [f |-> Func(2), main |-> None]
MCFormats == {<<"str_to">>, <<"num", "bad">>}

\* ret is written and never read, the host's jump buffer is never accepted:
\* states that differ in nothing else are the same.
\* An aborted machine does nothing more.
View == IF up THEN <<stk, fp, frames, Tail(jb), globals>> ELSE <<>>
=============================================================================
