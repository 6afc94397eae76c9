------------------------------- MODULE Bytecode -------------------------------
(***************************************************************************)
(* What the compiler makes and the interpreter takes: the objects among a  *)
(* function's constants, function objects, and instructions, with what     *)
(* bytecode.md says of their effect on the stack.                          *)
(***************************************************************************)
EXTENDS Integers, SequencesExt

Nil == [k |-> "nil"]
Bool(b) == [k |-> "bool", b |-> b]
SmallInt(i) == [k |-> "int", i |-> i]
Float(h) == [k |-> "float", h |-> h]    \* h is twice the number
Str(s) == [k |-> "string", s |-> s]
Sym(y) == [k |-> "symbol", y |-> y]

\* ow_func_obj_new(): code, tables and the module's name.
FuncObj(as, mod, argc, locals) ==
    [k |-> "func", mod |-> mod, argc |-> argc, locals |-> locals, code |-> as.code,
     consts |-> as.consts, syms |-> as.syms]

\* An instruction has its operand widened or not; the operand of LdInt alone
\* has a sign.  A jump holds the index of its target.
Instr(op, wide, a) == [op |-> op, wide |-> wide, a |-> a]
Instruction ==
    [op : STRING, wide : BOOLEAN, a : Nat] \cup [op : {"LdInt"}, wide : BOOLEAN, a : Int]

IsFunction(v) == v.k = "func" /\ v.code \in Seq(Instruction)

Jumps == {"Jmp", "JmpWhen", "JmpUnls"}
ArithOps == {"Add", "Sub", "Mul", "Div", "Rem", "Shl", "Shr", "And", "Or", "Xor"}
CompareOps == {"CmpLt", "CmpLe", "CmpGt", "CmpGe", "CmpEq", "CmpNe"}

-----------------------------------------------------------------------------
\* bytecode.md's stack-change column: what an instruction takes and leaves.
Pops(i) ==
    CASE i.op \in {"Drop", "Dup", "Neg", "Inv", "Not", "JmpWhen", "JmpUnls", "LdAttrY", "PrepMethY",
                   "Ret", "StArg", "StLoc", "StGlob"} -> 1
      [] i.op \in ArithOps \cup CompareOps \cup {"StAttrY", "LdElem"} -> 2
      [] i.op = "StElem" -> 3
      [] i.op \in {"Call", "CallDrop"} -> i.a + 1
      [] i.op \in {"MkArr", "MkTup", "MkSet"} -> i.a
      [] i.op = "MkMap" -> 2 * i.a
      [] OTHER -> 0
Pushes(i) ==
    CASE i.op \in {"Dup", "PrepMethY"} -> 2
      [] i.op \in {"Drop", "JmpWhen", "JmpUnls", "StArg", "StLoc", "StGlob", "StAttrY", "StElem",
                   "CallDrop", "Jmp", "Ret", "RetNil", "RetLoc"} -> 0
      [] OTHER -> 1
Succs(code, k) ==
    CASE code[k].op \in {"Ret", "RetNil", "RetLoc"} -> {}
      [] code[k].op = "Jmp" -> {code[k].a}
      [] code[k].op \in {"JmpWhen", "JmpUnls"} -> {code[k].a, k + 1}
      [] OTHER -> {k + 1}

\* The depths at which the instructions of a function can be reached.
Depths(code) ==
    LET d[k \in 1 .. Len(code) + 1] ==
            (IF k = 1 THEN {0} ELSE {})
            \cup UNION {{n - Pops(code[j]) + Pushes(code[j]) : n \in d[j]} :
                        j \in {i \in 1 .. k - 1 : k \in Succs(code, i)}}
    IN d

\* Every instruction is reached with one depth of the stack, also over a jump
\* back, never takes what is not there, and the code is never left but by a
\* return.
Verified(code) ==
    LET d == Depths(code)
        n == Len(code)
        after(k, x) == x - Pops(code[k]) + Pushes(code[k])
    IN /\ 0 \in d[1] /\ d[n + 1] = {}
       /\ \A k \in 1 .. n : \A x \in d[k] :
            /\ d[k] = {x} /\ x \in Nat /\ x >= Pops(code[k])
            /\ \A s \in Succs(code, k) : s \in 1 .. n + 1 /\ after(k, x) \in d[s]

\* StAttrY takes one value less than documented.
Documented(code) == Verified(code) /\ \A k \in DOMAIN code : code[k].op # "StAttrY"
=============================================================================
