------------------------------- MODULE Codegen -------------------------------
(***************************************************************************)
(* The code generator of compiler/codegen.c, with the tables of constants  *)
(* and symbols of compiler/assembler.c: from the parser's tree to function *)
(* objects.                                                                *)
(*                                                                         *)
(* A jump holds the index of its target instruction, one past the last     *)
(* instruction included: that the bytes lead there is the subject of       *)
(* module Assembler.  As in Parser, an operator maps generator states to   *)
(* generator states, and a state with an error is final.                   *)
(***************************************************************************)
EXTENDS Parser, Bytecode

CONSTANTS
    IntLit,          \* the integer literals: a function to their values
    FloatLit,        \* the floating-point literals: to twice their values
    StringLit, SymbolLit,
    I8Max, I16Max    \* INT8_MAX, INT16_MAX

ASSUME WidthsAssumption == I8Max \in Nat /\ I16Max \in Nat /\ I8Max < I16Max

U8Max == 2 * I8Max + 1
U16Max == 2 * I16Max + 1

-----------------------------------------------------------------------------
\* struct ow_assembler; labels holds the position of each label, 0 while it has
\* none.
NewAs == [code |-> <<>>, labels |-> <<>>, consts |-> <<>>, syms |-> <<>>]

-----------------------------------------------------------------------------
\* The generator's state.

\* ow_codegen_new()
NewCodegen ==
    [codes |-> <<>>,     \* code_stack.assemblers
     scopes |-> <<>>,    \* scope_stack.scope_list, the innermost last
     freeCodes |-> <<>>, freeScopes |-> <<>>,
     mod |-> "",         \* the module
     err |-> "ok",
     val |-> Nil]

As(cg) == Last(cg.codes)
SetAs(cg, as) == IF Failed(cg) THEN cg ELSE [cg EXCEPT !.codes[Len(cg.codes)] = as]

\* ow_assembler_append() of an instruction with no operand or a narrow one.
Emit(cg, op, a) ==
    IF Failed(cg) THEN cg
    ELSE SetAs(cg, [As(cg) EXCEPT !.code = Append(@, Instr(op, FALSE, a))])
Emit0(cg, op) == Emit(cg, op, 0)

\* The choice between an instruction and its wide form, or "too many ...".
EmitIndex(cg, op, index) ==
    IF Failed(cg) THEN cg
    ELSE IF index <= U8Max THEN Emit(cg, op, index)
    ELSE IF index <= U16Max
    THEN SetAs(cg, [As(cg) EXCEPT !.code = Append(@, Instr(op, TRUE, index))])
    ELSE Throw(cg, "syntax")

DropIf(cg, act) == IF act = "eval" THEN Emit0(cg, "Drop") ELSE cg

\* ow_assembler_prepare_label(), ow_assembler_place_label(); the label made is
\* the last one.
NextLabel(cg) == IF Failed(cg) THEN 0 ELSE Len(As(cg).labels) + 1
PrepareLabel(cg) ==
    IF Failed(cg) THEN cg ELSE SetAs(cg, [As(cg) EXCEPT !.labels = Append(@, 0)])
PlaceLabel(cg, label) ==
    IF Failed(cg) THEN cg
    ELSE SetAs(cg, [As(cg) EXCEPT !.labels[label] = Len(As(cg).code) + 1])

\* ow_assembler_output(): each jump gets its target.
Linked(as) ==
    [as EXCEPT !.code = [k \in DOMAIN as.code |->
        IF as.code[k].op \in Jumps THEN [as.code[k] EXCEPT !.a = as.labels[@]]
        ELSE as.code[k]]]

\* The index of the first element of a table, and the table with it.
IndexIn(s, x) == IF x \in ToSet(s) THEN (CHOOSE i \in DOMAIN s :
                    s[i] = x /\ \A j \in 1 .. i - 1 : s[j] # x) - 1 ELSE Len(s)
WithElem(s, x) == IF x \in ToSet(s) THEN s ELSE Append(s, x)

\* ow_assembler_constant() and ow_codegen_asm_push_constant(): an object is
\* always added.  The search asks each constant for its class, which a small
\* integer does not have.
PushConstant(cg, c) ==
    IF Failed(cg) THEN cg
    ELSE LET s == As(cg).consts
             first == IndexIn(s, c)
             met == 1 .. first
         IN IF c.k = "func"
            THEN EmitIndex(SetAs(cg, [As(cg) EXCEPT !.consts = Append(@, c)]), "LdCnst", Len(s))
            ELSE IF \E i \in met \cap DOMAIN s : s[i].k = "int" THEN Throw(cg, "assert")
            ELSE IF c.k = "int" /\ c \in ToSet(s) THEN Throw(cg, "assert")
            ELSE EmitIndex(SetAs(cg, [As(cg) EXCEPT !.consts = WithElem(@, c)]), "LdCnst", first)

\* ow_assembler_symbol() and an instruction with the symbol's index.
EmitSymbol(cg, op, name) ==
    IF Failed(cg) THEN cg
    ELSE EmitIndex(SetAs(cg, [As(cg) EXCEPT !.syms = WithElem(@, name)]), op,
                   IndexIn(As(cg).syms, name))

-----------------------------------------------------------------------------
\* The stacks.

\* code_stack_push(), code_stack_make_func_and_pop()
PushCode(cg) ==
    IF Failed(cg) THEN cg
    ELSE IF cg.freeCodes = <<>> THEN [cg EXCEPT !.codes = Append(@, NewAs)]
    ELSE [cg EXCEPT !.codes = Append(@, Last(cg.freeCodes)), !.freeCodes = Front(@)]
MakeFuncAndPop(cg, argc, locals) ==
    IF Failed(cg) THEN cg
    ELSE [cg EXCEPT !.val = FuncObj(Linked(As(cg)), cg.mod, argc, locals),
                    !.codes = Front(@), !.freeCodes = Append(@, NewAs)]

Scope(type, vars) == [type |-> type, vars |-> vars]

\* scope_stack_push(), scope_stack_pop(), scope_stack_top()
PushScope(cg, type) ==
    IF Failed(cg) THEN cg
    ELSE IF cg.freeScopes = <<>> THEN [cg EXCEPT !.scopes = Append(@, Scope(type, <<>>))]
    ELSE Require([cg EXCEPT !.scopes = Append(@, Scope(type, Last(cg.freeScopes))),
                            !.freeScopes = Front(@)],
                 Last(cg.freeScopes) = <<>>)
PopScope(cg) ==
    IF Failed(cg) THEN cg
    ELSE [cg EXCEPT !.scopes = Front(@), !.freeScopes = Append(@, <<>>)]
TopScope(cg) == Last(cg.scopes)

\* scope_register_variable()
Register(cg, name) ==
    IF Failed(cg) THEN cg
    ELSE Require([cg EXCEPT !.scopes[Len(cg.scopes)].vars = Append(@, name)],
                 name \notin ToSet(TopScope(cg).vars))

\* ow_codegen_clear(): code_stack_clear(), scope_stack_clear()
ClearCodegen(cg) ==
    [NewCodegen EXCEPT
        !.freeCodes = cg.freeCodes \o [k \in DOMAIN cg.codes |-> NewAs],
        !.freeScopes = cg.freeScopes \o [k \in DOMAIN cg.scopes |-> <<>>]]

-----------------------------------------------------------------------------
\* Leaves.

\* ow_codegen_emit_NilLiteral() to ow_codegen_emit_StringLiteral()
EmitLiteral(cg, act, lit) ==
    IF act = "eval" THEN cg
    ELSE CASE lit = "nil" -> Emit0(cg, "LdNil")
           [] lit \in {"true", "false"} -> Emit(cg, "LdBool", IF lit = "true" THEN 1 ELSE 0)
           [] lit \in DOMAIN IntLit ->
                LET v == IntLit[lit]
                IN IF - I8Max - 1 <= v /\ v <= I8Max THEN Emit(cg, "LdInt", v)
                   ELSE IF - I16Max - 1 <= v /\ v <= I16Max
                   THEN SetAs(cg, [As(cg) EXCEPT !.code = Append(@, Instr("LdInt", TRUE, v))])
                   ELSE PushConstant(cg, SmallInt(v))
           [] lit \in DOMAIN FloatLit ->
                LET h == FloatLit[lit]
                IN IF h <= 2 * I8Max /\ h >= - 2 * I8Max - 2 /\ h % 2 = 0
                   THEN Emit(cg, "LdFlt", h \div 2) ELSE PushConstant(cg, Float(h))
           [] lit \in SymbolLit -> EmitSymbol(cg, "LdSym", lit)
           [] lit \in StringLit -> PushConstant(cg, Str(lit))

\* Mutant: every scope of an enclosing function is searched.
SearchedAll(cg) == DOMAIN cg.scopes

\* The scopes in which a name is looked up: the innermost of each type.
Searched(cg) ==
    {k \in DOMAIN cg.scopes : \A j \in k + 1 .. Len(cg.scopes) :
        cg.scopes[j].type # cg.scopes[k].type}

VarOp ==
    [module |-> [push |-> "LdGlob", recv |-> "StGlob"],
     args |-> [push |-> "LdArg", recv |-> "StArg"],
     func |-> [push |-> "LdLoc", recv |-> "StLoc"]]

\* ow_codegen_emit_Identifier()
EmitIdentifier(cg, act, name) ==
    LET found == {k \in Searched(cg) : name \in ToSet(cg.scopes[k].vars)}
        s == cg.scopes[CHOOSE k \in found : \A j \in found : j <= k]
        reg == Register(cg, name)
    IN IF act = "eval" \/ Failed(cg) THEN cg
       ELSE IF found # {}
       THEN EmitIndex(cg, VarOp[s.type][act], IndexIn(s.vars, name))
       ELSE IF act = "push" THEN EmitSymbol(cg, "LdGlobY", name)
       ELSE EmitIndex(reg, VarOp[TopScope(cg).type].recv, Len(TopScope(cg).vars))

\* ow_codegen_emit_PosExpr(), ow_codegen_emit_ForStmt() and the assignment to
\* a tuple.
NotImplemented(cg) == Throw(cg, "syntax")

-----------------------------------------------------------------------------
\* Expressions.

CmpOpcode(op) ==
    CASE op = "==" -> "CmpEq" [] op = "!=" -> "CmpNe" [] op = "<" -> "CmpLt"
      [] op = "<=" -> "CmpLe" [] op = ">" -> "CmpGt" [] op = ">=" -> "CmpGe"
BinOpcode(op) ==
    CASE op = "+" -> "Add" [] op = "-" -> "Sub" [] op = "*" -> "Mul" [] op = "/" -> "Div"
      [] op = "%" -> "Rem" [] op = "<<" -> "Shl" [] op = ">>" -> "Shr" [] op = "&" -> "And"
      [] op = "|" -> "Or" [] op = "^" -> "Xor" [] OTHER -> CmpOpcode(op)
EqlOpcode(op) ==
    CASE op = "+=" -> "Add" [] op = "-=" -> "Sub" [] op = "*=" -> "Mul" [] op = "/=" -> "Div"
      [] op = "%=" -> "Rem" [] op = "<<=" -> "Shl" [] op = ">>=" -> "Shr" [] op = "&=" -> "And"
      [] op = "|=" -> "Or" [] op = "^=" -> "Xor"
UnOpcode(op) == CASE op = "neg" -> "Neg" [] op = "~" -> "Inv" [] op = "!" -> "Not"

\* ow_codegen_emit_node(), the action being "push", "eval" or "recv".
RECURSIVE EmitNode(_, _, _)

\* ow_codegen_emit_BlockStmt()
EmitBlock(cg, stmts) == FoldLeft(LAMBDA c, s : EmitNode(c, "eval", s), cg, stmts)

\* The nodes of a sequence, each pushed.
PushAll(cg, nodes) == FoldLeft(LAMBDA c, e : EmitNode(c, "push", e), cg, nodes)

\* ow_codegen_emit_BinOpExpr()
EmitBinOp(cg, act, e, opcode) ==
    DropIf(Emit0(PushAll(cg, <<e.l, e.r>>), opcode), act)

\* ow_codegen_emit_EqlOpExpr()
EmitEqlOp(cg, act, e) ==
    LET rhs == IF e.op = "=" THEN EmitNode(cg, "push", e.r)
               ELSE EmitBinOp(cg, "push", e, EqlOpcode(e.op))
        dup == IF act = "push" THEN Emit0(rhs, "Dup") ELSE rhs
        assignable == \/ e.l.t = "leaf" /\ e.l.v \in Ident
                      \/ e.l.t = "bin" /\ e.l.op = "."
                      \/ e.l.t = "sub"
    IN IF assignable THEN EmitNode(dup, "recv", e.l) ELSE Throw(cg, "syntax")

\* Mutant: the value of the left operand stays under that of the right one.
EmitLogicalNoDrop(cg, act, e) ==
    LET label == NextLabel(cg)
        lhs == Emit0(EmitNode(PrepareLabel(cg), "push", e.l), "Dup")
        jump == Emit(lhs, IF e.op = "||" THEN "JmpWhen" ELSE "JmpUnls", label)
    IN DropIf(PlaceLabel(EmitNode(jump, "push", e.r), label), act)

\* ow_codegen_emit_logical_BinOpExpr()
EmitLogical(cg, act, e) ==
    LET label == NextLabel(cg)
        lhs == Emit0(EmitNode(PrepareLabel(cg), "push", e.l), "Dup")
        jump == Emit(lhs, IF e.op = "||" THEN "JmpWhen" ELSE "JmpUnls", label)
    IN DropIf(PlaceLabel(EmitNode(Emit0(jump, "Drop"), "push", e.r), label), act)

\* ow_codegen_emit_AttrAccessExpr()
EmitAttr(cg, act, e) ==
    LET obj == EmitNode(cg, "push", e.l)
    IN IF e.r.t = "leaf" /\ e.r.v \in Ident
       THEN DropIf(EmitSymbol(obj, IF act = "recv" THEN "StAttrY" ELSE "LdAttrY", e.r.v), act)
       ELSE Throw(obj, "syntax")

\* ow_codegen_emit_MethodUseExpr()
EmitMethodUse(cg, act, e) ==
    LET obj == EmitNode(Require(cg, act = "push"), "push", e.l)
    IN IF e.r.t = "leaf" /\ e.r.v \in Ident THEN EmitSymbol(obj, "PrepMethY", e.r.v)
       ELSE Throw(obj, "syntax")

\* ow_codegen_emit_UnOpExpr()
EmitUnOp(cg, act, e) ==
    IF e.op = "pos" THEN NotImplemented(cg)
    ELSE DropIf(Emit0(EmitNode(cg, "push", e.x), UnOpcode(e.op)), act)

\* ow_codegen_emit_MakeContainerExpr(), ow_codegen_emit_MakePairContainerExpr()
MakeOp == [tuple |-> "MkTup", array |-> "MkArr", set |-> "MkSet"]
EmitContainer(cg, act, e) ==
    IF act = "recv" THEN NotImplemented(cg)
    ELSE DropIf(EmitIndex(PushAll(cg, e.elems), MakeOp[e.t], Len(e.elems)), act)
EmitPairs(cg, act, e) ==
    DropIf(EmitIndex(PushAll(cg, FlattenSeq(e.pairs)), "MkMap", Len(e.pairs)), act)

\* ow_codegen_emit_CallExpr(); the high bit of the operand tells that the
\* value is not wanted.
EmitCall(cg, act, e) ==
    LET method == e.obj.t = "bin" /\ e.obj.op = ":"
        argc == Len(e.args) + (IF method THEN 1 ELSE 0)
        args == PushAll(EmitNode(cg, "push", e.obj), e.args)
    IN IF argc > I8Max THEN Throw(args, "syntax")
       ELSE Emit(args, IF act = "eval" THEN "CallDrop" ELSE "Call", argc)

\* ow_codegen_emit_SubscriptExpr()
EmitSubscript(cg, act, e) ==
    LET obj == EmitNode(cg, "push", e.obj)
        keys == PushAll(obj, e.args)
        key == IF Len(e.args) = 1 THEN keys
               ELSE IF Len(e.args) > U8Max THEN Throw(obj, "syntax")
               ELSE Emit(keys, "MkTup", Len(e.args))
    IN DropIf(Emit0(key, IF act = "recv" THEN "StElem" ELSE "LdElem"), act)

\* _scope_load_func_args(): the parser lets only identifiers through.
LoadFuncArgs(cg, args) == FoldLeft(Register, cg, args)

\* The function of ow_codegen_emit_FuncStmt(), in val; both scopes are pushed
\* before the parameters are registered in the outer one.
EmitFunc(cg, args, stmts) ==
    LET fresh == PushScope(PushCode(cg), "args")
        params == LoadFuncArgs(fresh, args)
        body == EmitBlock(PushScope(params, "func"), stmts)
        code == As(body).code
        ends == code # <<>> /\ Last(code).op \in {"Ret", "RetNil", "RetLoc"}
    IN IF Len(args) >= I8Max THEN Throw(cg, "syntax")
       ELSE IF Failed(body) THEN body
       ELSE PopScope(PopScope(MakeFuncAndPop(
                IF ends THEN body ELSE Emit0(body, "RetNil"),
                Len(args), Len(TopScope(body).vars))))

\* ow_codegen_emit_LambdaExpr()
EmitLambda(cg, act, e) ==
    LET f == EmitFunc(cg, e.args, e.stmts)
    IN DropIf(PushConstant(f, f.val), act)

-----------------------------------------------------------------------------
\* Statements.

\* ow_codegen_emit_ReturnStmt(), ow_codegen_emit_MagicReturnStmt()
EmitReturn(cg, s) ==
    LET local == /\ TopScope(cg).type = "func" /\ s.e.t = "leaf"
                 /\ s.e.v \in ToSet(TopScope(cg).vars)
                 /\ IndexIn(TopScope(cg).vars, s.e.v) <= U8Max
    IN IF TopScope(cg).type # "func" /\ s.t # "magic" THEN Throw(cg, "syntax")
       ELSE IF s.e = None THEN Emit0(cg, "RetNil")
       ELSE IF local THEN Emit(cg, "RetLoc", IndexIn(TopScope(cg).vars, s.e.v))
       ELSE Emit0(EmitNode(cg, "push", s.e), "Ret")

\* ow_codegen_emit_ImportStmt()
EmitImport(cg, s) == EmitIdentifier(EmitSymbol(cg, "LdMod", s.v), "recv", s.v)

\* ow_codegen_emit_IfElseStmt()
EmitIf(cg, s) ==
    LET end == NextLabel(cg)
        n == Len(s.branches)
        branch(c, k) ==
            LET next == NextLabel(c)
                cond == EmitNode(PrepareLabel(c), "push", s.branches[k][1])
                then == EmitBlock(Emit(cond, "JmpUnls", next), s.branches[k][2])
                jump == IF k < n \/ s.els # <<>> THEN Emit(then, "Jmp", end) ELSE then
            IN PlaceLabel(jump, next)
        all == FoldLeft(branch, PrepareLabel(cg), [k \in 1 .. n |-> k])
    IN PlaceLabel(IF s.els = <<>> THEN all ELSE EmitBlock(all, s.els[1]), end)

\* Mutant: the end of the loop is where it begins.
EmitWhileNoEnd(cg, s) ==
    LET begin == NextLabel(cg)
        labels == PlaceLabel(PrepareLabel(cg), begin)
        head == Emit(EmitNode(labels, "push", s.cond), "JmpUnls", begin)
    IN Emit(EmitBlock(head, s.stmts), "Jmp", begin)

\* ow_codegen_emit_WhileStmt()
EmitWhile(cg, s) ==
    LET constant == s.cond.t = "leaf" /\ s.cond.v \in {"true", "false"}
        begin == NextLabel(cg)
        end == begin + 1
        labels == PrepareLabel(PlaceLabel(PrepareLabel(cg), begin))
        head == IF constant THEN labels
                ELSE Emit(EmitNode(labels, "push", s.cond), "JmpUnls", end)
        loop == Emit(EmitBlock(head, s.stmts), "Jmp", begin)
    IN IF constant /\ s.cond.v = "false" THEN cg
       ELSE IF constant THEN loop
       ELSE PlaceLabel(loop, end)

\* ow_codegen_emit_FuncStmt() of a named function.
EmitFuncStmt(cg, s) ==
    LET f == EmitFunc(cg, s.args, s.stmts)
    IN EmitIdentifier(PushConstant(f, f.val), "recv", s.v)

EmitNode(cg, act, e) ==
    IF Failed(cg) THEN cg
    ELSE CASE e.t = "leaf" /\ e.v \in Ident -> EmitIdentifier(cg, act, e.v)
           [] e.t = "leaf" /\ e.v \notin Ident -> EmitLiteral(cg, act, e.v)
           [] e.t = "bin" /\ e.op \in AssignOps -> EmitEqlOp(cg, act, e)
           [] e.t = "bin" /\ e.op \in {"&&", "||"} -> EmitLogical(cg, act, e)
           [] e.t = "bin" /\ e.op = "." -> EmitAttr(cg, act, e)
           [] e.t = "bin" /\ e.op = ":" -> EmitMethodUse(cg, act, e)
           [] e.t = "bin" /\ e.op \notin AssignOps \cup {"&&", "||", ".", ":"} ->
                EmitBinOp(cg, act, e, BinOpcode(e.op))
           [] e.t = "un" -> EmitUnOp(cg, act, e)
           [] e.t \in {"tuple", "array", "set"} -> EmitContainer(cg, act, e)
           [] e.t = "map" -> EmitPairs(cg, act, e)
           [] e.t = "call" -> EmitCall(cg, act, e)
           [] e.t = "sub" -> EmitSubscript(cg, act, e)
           [] e.t = "lambda" -> EmitLambda(cg, act, e)
           [] e.t = "expr" -> EmitNode(cg, "eval", e.e)
           [] e.t \in {"return", "magic"} -> EmitReturn(cg, e)
           [] e.t = "import" -> EmitImport(cg, e)
           [] e.t = "if" -> EmitIf(cg, e)
           [] e.t = "for" -> NotImplemented(cg)
           [] e.t = "while" -> EmitWhile(cg, e)
           [] e.t = "func" -> EmitFuncStmt(cg, e)

-----------------------------------------------------------------------------
\* Modules.

\* ow_codegen_generate() into a module that has the global variables globals:
\* _scope_load_module_globals(): the variables the module has already.
LoadModuleGlobals(cg, globals) == FoldLeft(Register, cg, globals)

\* ow_codegen_generate(), ow_codegen_emit_Module() up to the last statement.
\* The names of the global variables afterwards are those of the scope.
Generate(cg, stmts, mod, globals) ==
    LET clear == [ClearCodegen(cg) EXCEPT !.mod = mod]
        scope == LoadModuleGlobals(PushScope(PushCode(clear), "module"), globals)
    IN Emit0(EmitBlock(scope, stmts), "RetNil")

\* The end of ow_codegen_emit_Module().
Finish(cg) == [PopScope(MakeFuncAndPop(cg, 0, 0)) EXCEPT !.mod = ""]

\* modify_ast_return_last_expr()
ReturnLast(stmts) ==
    IF stmts # <<>> /\ Last(stmts).t = "expr"
    THEN Append(Front(stmts), [t |-> "magic", e |-> Last(stmts).e])
    ELSE stmts
=============================================================================
