-------------------------------- MODULE Parser --------------------------------
(***************************************************************************)
(* The parser of compiler/parser.c: a recursive-descent parser of          *)
(* statements around an operator-precedence parser of expressions.         *)
(*                                                                         *)
(* A parsing function is an operator from parser states to parser states;  *)
(* the node it returns is in field val.  An error leaves by longjmp(): the *)
(* state keeps what the parser held at that moment and every later call    *)
(* leaves it alone.  Locations, messages and the values of literals are    *)
(* left out.  A token is the text of its type; operators that share a text *)
(* are told apart as "pos", "neg", "call" and "sub".                       *)
(***************************************************************************)
EXTENDS Integers, SequencesExt

CONSTANTS
    Ident,    \* identifiers
    Literal   \* literals, with nil, true and false

EOL == "eol"        \* OW_TOK_END_LINE
EOF == "eof"        \* OW_TOK_END
LexError == "lexerr" \* ow_lexer_next() fails

-----------------------------------------------------------------------------
\* Tokens.

AssignOps == {"=", "+=", "-=", "*=", "/=", "%=", "<<=", ">>=", "&=", "|=", "^="}
UnOps == {"pos", "neg", "~", "!"}

\* The lists of token.h; a negative precedence is that of an operator that
\* associates to the right.
Precedence(op) ==
    CASE op \in {".", ":"} -> 1
      [] op \in {"call", "sub"} -> 2
      [] op \in UnOps -> -3
      [] op \in {"*", "/", "%"} -> 4
      [] op \in {"+", "-"} -> 5
      [] op \in {"<<", ">>"} -> 6
      [] op \in {"<", "<=", ">", ">="} -> 8
      [] op \in {"==", "!="} -> 9
      [] op = "&" -> 10
      [] op = "^" -> 11
      [] op = "|" -> 12
      [] op = "&&" -> 13
      [] op = "||" -> 14
      [] op \in AssignOps -> -15
      [] OTHER -> 0

Tightness(op) == LET p == Precedence(op) IN IF p < 0 THEN - p ELSE p
IsOperator(tok) == Precedence(tok) # 0
IsValue(tok) == tok \in Ident \cup Literal

\* Tokens that begin no statement and make ow_parser_parse_stmt() throw.
Unexpected == {",", "@", "?", "$", "..", "...", "<-", "=>", ")", "]", "}", "#"}

-----------------------------------------------------------------------------
\* Nodes.

None == [t |-> "none"]
Leaf(tok) == [t |-> "leaf", v |-> tok]
Bin(op, l, r) == [t |-> "bin", op |-> op, l |-> l, r |-> r]
Un(op, x) == [t |-> "un", op |-> op, x |-> x]
Applied(t, obj, args) == [t |-> t, obj |-> obj, args |-> args] \* call, sub
Elements(t, elems) == [t |-> t, elems |-> elems]               \* tuple, array, set
MapOf(pairs) == [t |-> "map", pairs |-> pairs]
Lambda(args, stmts) == [t |-> "lambda", args |-> args, stmts |-> stmts]

ExprStmt(e) == [t |-> "expr", e |-> e]
Return(e) == [t |-> "return", e |-> e]                        \* e may be None
Import(name) == [t |-> "import", v |-> name]
IfElse(branches, els) == [t |-> "if", branches |-> branches, els |-> els]
For(v, iter, stmts) == [t |-> "for", v |-> v, iter |-> iter, stmts |-> stmts]
While(cond, stmts) == [t |-> "while", cond |-> cond, stmts |-> stmts]
Func(name, args, stmts) == [t |-> "func", v |-> name, args |-> args, stmts |-> stmts]

-----------------------------------------------------------------------------
\* The parser's state.

EmptyEp == [ops |-> <<>>, opnds |-> <<>>]

\* ow_parser_new()
NewParser ==
    [rest |-> <<>>,   \* what the lexer has not read yet
     q |-> <<>>,      \* token_queue._tokens
     iel |-> 0,       \* token_queue._ign_eol_cnt
     temp |-> 0,      \* size of temp_nodes
     inuse |-> <<>>,  \* inuse_expr_parsers, the innermost last
     free |-> <<>>,   \* free_expr_parsers
     err |-> "ok",
     val |-> None]

Failed(st) == st.err # "ok"

\* ow_parser_error_throw(), ow_parser_error_throw_lex_err(), and a failed
\* assertion.
Throw(st, e) == IF Failed(st) THEN st ELSE [st EXCEPT !.err = e]
Require(st, p) == IF p THEN st ELSE Throw(st, "assert")

Ret(st, node) == [st EXCEPT !.val = node]

\* token_queue_peek()
Peek(st) == IF Failed(st) THEN "failed" ELSE st.q[1]

\* ow_lexer_next(), again and again over the ends of lines to be ignored.
Fetch(st) ==
    LET skip == CHOOSE n \in 0 .. Len(st.rest) :
            /\ \A k \in 1 .. n : st.rest[k] = EOL
            /\ n < Len(st.rest) => (st.rest[n + 1] # EOL \/ st.iel = 0)
            /\ st.iel = 0 => n = 0
        more == SubSeq(st.rest, skip + 1, Len(st.rest))
    IN IF more = <<>> THEN [st EXCEPT !.rest = <<>>, !.q = Append(@, EOF)]
       ELSE IF Head(more) = LexError THEN Throw(st, "syntax")
       ELSE [st EXCEPT !.rest = Tail(more), !.q = Append(@, Head(more))]

\* token_queue_peek2()
Peek2(st) == IF Failed(st) \/ Len(st.q) = 2 THEN st ELSE Fetch(st)

\* token_queue_advance()
Advance(st) ==
    IF Failed(st) THEN st
    ELSE IF Len(st.q) = 2 /\ ~ (st.q[2] = EOL /\ st.iel > 0)
    THEN [st EXCEPT !.q = Tail(@)]
    ELSE Fetch([st EXCEPT !.q = <<>>])

\* token_queue_push_iel(), token_queue_pop_iel()
PushIel(st) ==
    IF Failed(st) THEN st
    ELSE [Require(st, Peek(st) # EOL) EXCEPT !.iel = @ + 1]
PopIel(st) == IF Failed(st) THEN st ELSE [st EXCEPT !.iel = @ - 1]

\* ow_parser_check_next(), ow_parser_check_and_ignore()
CheckNext(st, tok) == IF Peek(st) = tok THEN st ELSE Throw(st, "syntax")
Ignore(st, tok) == Advance(CheckNext(st, tok))

\* ow_parser_protect_node(), ow_parser_unprotect_node()
Protect(st) == IF Failed(st) THEN st ELSE [st EXCEPT !.temp = @ + 1]
Unprotect(st) == IF Failed(st) THEN st ELSE [st EXCEPT !.temp = @ - 1]

\* Mutant: the level of ignored ends of lines survives.
ClearKeepsIel(st) ==
    [NewParser EXCEPT !.iel = st.iel,
                      !.free = st.free \o [k \in DOMAIN st.inuse |-> EmptyEp]]

\* ow_parser_clear(): expr_parser_list_merge() takes back the parsers that
\* were in use when an error was thrown.
Clear(st) ==
    [NewParser EXCEPT !.free = st.free \o [k \in DOMAIN st.inuse |-> EmptyEp]]

-----------------------------------------------------------------------------
\* The operator-precedence parser.

\* ow_parser_expr_parser_borrow(), ow_parser_expr_parser_return()
Borrow(st) ==
    IF Failed(st) THEN st
    ELSE IF st.free = <<>> THEN [st EXCEPT !.inuse = Append(@, EmptyEp)]
    ELSE [st EXCEPT !.inuse = Append(@, Last(st.free)), !.free = Front(@)]
GiveBack(st) ==
    IF Failed(st) THEN st
    ELSE [st EXCEPT !.inuse = Front(@), !.free = Append(@, EmptyEp)]

Ep(st) == Last(st.inuse)
SetEp(st, ops, opnds) ==
    [st EXCEPT !.inuse[Len(st.inuse)] = [ops |-> ops, opnds |-> opnds]]

\* expr_parser_input_operand()
InputOperand(st, node) ==
    IF Failed(st) THEN st ELSE SetEp(st, Ep(st).ops, Append(Ep(st).opnds, node))

\* Mutant: the operands of a binary operator come off the stack in order.
GenOpExprSwapped(st) ==
    LET op == Last(Ep(st).ops)
        ops == Front(Ep(st).ops)
        n == Len(Ep(st).opnds)
        x == Ep(st).opnds[n]
        y == Ep(st).opnds[n - 1]
    IN IF n < 2 THEN Throw(st, "syntax")
       ELSE SetEp(st, ops, Append(SubSeq(Ep(st).opnds, 1, n - 2), Bin(op, x, y)))

\* _expr_parser_gen_op_expr(): the last operator takes its operands.  The
\* node of a call or subscript is an operand until then, with its arguments
\* and without the object.
GenOpExpr(st) ==
    LET op == Last(Ep(st).ops)
        ops == Front(Ep(st).ops)
        n == Len(Ep(st).opnds)
        x == Ep(st).opnds[n]
        y == Ep(st).opnds[n - 1]
        keep(k) == SubSeq(Ep(st).opnds, 1, n - k)
    IN IF n < (IF op \in UnOps THEN 1 ELSE 2) THEN Throw(st, "syntax")
       ELSE IF op \in UnOps THEN SetEp(st, ops, Append(keep(1), Un(op, x)))
       ELSE IF op \in {"call", "sub"}
       THEN IF x.t = op /\ x.obj = None
            THEN SetEp(st, ops, Append(keep(2), Applied(op, y, x.args)))
            ELSE Throw(st, "assert")
       ELSE SetEp(st, ops, Append(keep(2), Bin(op, y, x)))

RECURSIVE Reduce(_, _)
Reduce(st, tightness) ==
    IF Failed(st) \/ Ep(st).ops = <<>> THEN st
    ELSE IF Tightness(Last(Ep(st).ops)) <= tightness
    THEN Reduce(GenOpExpr(st), tightness)
    ELSE st

\* Mutant: an equal precedence does not reduce.
InputOperatorStrict(st, op) ==
    LET s == Reduce(st, Tightness(op) - 1)
    IN IF Failed(s) THEN s ELSE SetEp(s, Append(Ep(s).ops, op), Ep(s).opnds)

\* expr_parser_input_operator(): both branches reduce while the precedence
\* on the stack is less or equal.
InputOperator(st, op) ==
    LET s == Reduce(st, Tightness(op))
    IN IF Failed(s) THEN s ELSE SetEp(s, Append(Ep(s).ops, op), Ep(s).opnds)

\* expr_parser_output_expression()
OutputExpression(st) ==
    LET s == Reduce(st, 100)
    IN IF Failed(s) THEN s
       ELSE IF Len(Ep(s).opnds) = 1 THEN Ret(s, Ep(s).opnds[1])
       ELSE Throw(s, "syntax")

-----------------------------------------------------------------------------
\* Expressions.

\* The functions that call each other: ow_parser_parse_expr(),
\* ow_parser_parse_stmt() and ow_parser_parse_block_to(), whose statements so
\* far are acc.
RECURSIVE Parse(_, _, _)
ParseExpr(st) == Parse("expr", st, <<>>)
ParseStmt(st) == Parse("stmt", st, <<>>)
ParseBlock(st, acc) == Parse("block", st, acc)

\* The loop of ow_parser_parse_CallExpr_args(),
\* ow_parser_parse_SubscriptExpr_indices() and
\* ow_parser_parse_ArrayLikeExpr_elems(); the end token is left.
RECURSIVE Elems(_, _, _)
Elems(st, end, acc) ==
    IF Failed(st) THEN st
    ELSE IF Peek(st) = end THEN Ret(st, acc)
    ELSE LET s == ParseExpr(st)
             more == Append(acc, s.val)
         IN CASE Peek(s) = "," -> Elems(Advance(s), end, more)
              [] Peek(s) = end -> Ret(s, more)
              [] OTHER -> Throw(s, "syntax")

\* The opening token is passed; the closing one is passed after the region
\* of ignored ends of lines is left.
OpenRegion(st) == Advance(PushIel(st))
CloseRegion(st) == Advance(PopIel(st))

\* ow_parser_parse_TupleExpr_or_expr()
ParseTupleOrExpr(st) ==
    LET open == OpenRegion(st)
        first == ParseExpr(open)
        rest == Elems(Advance(Protect(first)), ")", <<first.val>>)
    IN IF Peek(open) = ")" THEN CloseRegion(Ret(open, Elements("tuple", <<>>)))
       ELSE CASE Peek(first) = ")" -> CloseRegion(first)
              [] Peek(first) = "," ->
                    LET s == Unprotect(CloseRegion(rest))
                    IN Ret(s, Elements("tuple", s.val))
              [] OTHER -> Throw(Protect(first), "syntax")

\* ow_parser_parse_ArrayExpr()
ParseArray(st) ==
    LET s == Unprotect(CloseRegion(Elems(OpenRegion(Protect(st)), "]", <<>>)))
    IN Ret(s, Elements("array", s.val))

\* The pairs of a map whose next key is already in val.
RECURSIVE MapPairs(_, _)
MapPairs(st, acc) ==
    LET key == Protect(st)
        s == Unprotect(ParseExpr(Ignore(key, "=>")))
        more == Append(acc, <<st.val, s.val>>)
        after == Advance(s)
    IN CASE Peek(s) = "}" -> Ret(s, more)
         [] Peek(s) = "," -> IF Peek(after) = "}" THEN Ret(after, more)
                             ELSE MapPairs(ParseExpr(after), more)
         [] OTHER -> Throw(s, "syntax")

\* ow_parser_parse_SetExpr_or_MapExpr()
ParseSetOrMap(st) ==
    LET open == OpenRegion(st)
        empty == Advance(open)
        first == ParseExpr(open)
        set == CloseRegion(Elems(Advance(first), "}", <<first.val>>))
        map == Unprotect(CloseRegion(MapPairs(Protect(first), <<>>)))
    IN CASE Peek(open) = "}" -> CloseRegion(Ret(open, MapOf(<<>>)))
         [] Peek(open) = "," ->
                CloseRegion(Ret(CheckNext(empty, "}"), Elements("set", <<>>)))
         [] Peek(open) \notin {"}", ","} /\ Peek(first) = "}" ->
                CloseRegion(Ret(first, Elements("set", <<first.val>>)))
         [] Peek(open) \notin {"}", ","} /\ Peek(first) = "," ->
                Ret(set, Elements("set", set.val))
         [] OTHER -> Ret(map, MapOf(map.val))

\* _parse_func_def_args()
ParseFuncArgs(st) ==
    LET s == CloseRegion(Elems(Ignore(PushIel(st), "("), ")", <<>>))
    IN IF Failed(s) THEN s
       ELSE IF \A k \in DOMAIN s.val : s.val[k].t = "leaf" /\ s.val[k].v \in Ident
       THEN Ret(s, [k \in DOMAIN s.val |-> s.val[k].v])
       ELSE Throw(s, "syntax")

\* ow_parser_parse_lambda_expr(): in the body ends of lines count again.
ParseLambda(st) ==
    LET args == ParseFuncArgs(Advance(Protect(st)))
        e == Unprotect(ParseExpr(Advance(args)))
        body == ParseBlock(IF Failed(args) THEN args ELSE [args EXCEPT !.iel = 0], <<>>)
        back == IF Failed(body) THEN body
                ELSE [Require(body, body.iel = 0) EXCEPT !.iel = args.iel]
        end == Unprotect(Ignore(back, "end"))
    IN IF Peek(args) = "=>" THEN Ret(e, Lambda(args.val, <<Return(e.val)>>))
       ELSE Ret(end, Lambda(args.val, body.val))

\* A call or a subscript: its node waits on the operand stack while its
\* arguments are parsed.
Apply(st, op, end) ==
    LET s == Elems(OpenRegion(InputOperand(InputOperator(st, op), Applied(op, None, <<>>))),
                   end, <<>>)
        c == CloseRegion(s)
    IN IF Failed(c) THEN c
       ELSE SetEp(c, Ep(c).ops, Append(Front(Ep(c).opnds), Applied(op, None, s.val)))

\* The loop of ow_parser_parse_expr().
RECURSIVE ExprLoop(_, _)
ExprLoop(st, last_tok_is_operand) ==
    LET tok == Peek(st)
        op == CASE tok = "+" /\ ~ last_tok_is_operand -> "pos"
                [] tok = "-" /\ ~ last_tok_is_operand -> "neg"
                [] OTHER -> tok
        operand(s) == ExprLoop(InputOperand(s, s.val), TRUE)
    IN CASE IsValue(tok) -> ExprLoop(Advance(InputOperand(st, Leaf(tok))), TRUE)
         [] IsOperator(tok) -> ExprLoop(Advance(InputOperator(st, op)), FALSE)
         [] tok = "(" /\ last_tok_is_operand -> ExprLoop(Apply(st, "call", ")"), TRUE)
         [] tok = "(" /\ ~ last_tok_is_operand -> operand(ParseTupleOrExpr(st))
         [] tok = "[" /\ last_tok_is_operand -> ExprLoop(Apply(st, "sub", "]"), TRUE)
         [] tok = "[" /\ ~ last_tok_is_operand -> operand(ParseArray(st))
         [] tok = "{" /\ last_tok_is_operand -> Throw(st, "syntax")
         [] tok = "{" /\ ~ last_tok_is_operand -> operand(ParseSetOrMap(st))
         [] tok = "func" -> operand(ParseLambda(st))
         [] OTHER -> st

ExprOf(st) == GiveBack(OutputExpression(ExprLoop(Borrow(st), FALSE)))

-----------------------------------------------------------------------------
\* Statements.

\* ow_parser_parse_return_stmt()
ParseReturn(st) ==
    LET s == Advance(Protect(st))
        e == IF Peek(s) # EOL THEN ParseExpr(s) ELSE Ret(s, None)
    IN Ret(Unprotect(Ignore(e, EOL)), Return(e.val))

\* ow_parser_parse_identifier() of a name that must follow.
ParseName(st) ==
    IF Peek(st) \in Ident THEN Advance(Ret(st, st.q[1])) ELSE Throw(st, "syntax")

\* ow_parser_parse_import_stmt()
ParseImport(st) ==
    LET name == ParseName(Advance(Protect(st)))
    IN Ret(Unprotect(Ignore(name, EOL)), Import(name.val))

\* ow_parser_parse_block_stmt()
ParseBlockStmt(st) == Unprotect(ParseBlock(Protect(st), <<>>))

\* The loop of ow_parser_parse_if_else_stmt().
RECURSIVE Branches(_, _)
Branches(st, acc) ==
    LET cond == Protect(ParseExpr(Advance(st)))
        then == Unprotect(ParseBlockStmt(Ignore(cond, EOL)))
        els == CheckNext(ParseBlockStmt(Ignore(Advance(st), EOL)), "end")
    IN CASE Peek(st) = (IF acc = <<>> THEN "if" ELSE "elif") ->
                Branches(then, Append(acc, <<cond.val, then.val>>))
         [] Peek(st) = "else" ->
                Ret(Ignore(Advance(els), EOL), IfElse(acc, <<els.val>>))
         [] Peek(st) = "end" -> Ret(Ignore(Advance(st), EOL), IfElse(acc, <<>>))
         [] OTHER -> Throw(st, "syntax")

\* Mutant: the statement stays among the temporary nodes.
ParseIfProtected(st) == Branches(Protect(st), <<>>)

ParseIf(st) == Unprotect(Branches(Protect(st), <<>>))

\* The end of ow_parser_parse_for_stmt(), _while_stmt() and _func_stmt().
BlockEnd(st) == Unprotect(Ignore(Ignore(st, "end"), EOL))

\* ow_parser_parse_for_stmt()
ParseFor(st) ==
    LET var == ParseName(Advance(Protect(st)))
        iter == ParseExpr(Ignore(var, "<-"))
        body == ParseBlock(Ignore(iter, EOL), <<>>)
    IN Ret(BlockEnd(body), For(var.val, iter.val, body.val))

\* ow_parser_parse_while_stmt()
ParseWhile(st) ==
    LET cond == ParseExpr(Advance(Protect(st)))
        body == ParseBlock(Ignore(cond, EOL), <<>>)
    IN Ret(BlockEnd(body), While(cond.val, body.val))

\* ow_parser_parse_func_stmt()
ParseFunc(st) ==
    LET name == ParseName(Advance(Protect(st)))
        args == ParseFuncArgs(name)
        body == ParseBlock(Ignore(args, EOL), <<>>)
    IN Ret(BlockEnd(body), Func(name.val, args.val, body.val))

\* ow_parser_parse_stmt(); val is None when there is no statement.
StmtOf(st) ==
    LET tok == Peek(st)
        expr == ParseExpr(st)
        ahead == Peek2(st)
    IN CASE tok = EOL -> ParseStmt(Advance(st))
         [] tok \in {"end", "self", "elif", "else", EOF, "failed"} -> Ret(st, None)
         [] tok \in Unexpected -> Throw(st, "syntax")
         [] tok = "return" -> ParseReturn(st)
         [] tok = "import" -> ParseImport(st)
         [] tok = "if" -> ParseIf(st)
         [] tok = "for" -> ParseFor(st)
         [] tok = "while" -> ParseWhile(st)
         [] tok = "func" ->
                IF Failed(ahead) THEN ahead
                ELSE IF ahead.q[2] \in Ident THEN ParseFunc(ahead)
                ELSE LET e == ParseExpr(ahead) IN Ret(e, ExprStmt(e.val))
         [] OTHER -> Ret(expr, ExprStmt(expr.val))

\* ow_parser_parse_block_to()
BlockOf(st, acc) ==
    LET s == ParseStmt(st)
    IN IF Failed(s) THEN s
       ELSE IF s.val = None THEN Ret(s, acc)
       ELSE ParseBlock(s, Append(acc, s.val))

Parse(what, st, acc) ==
    CASE what = "expr" -> ExprOf(st)
      [] what = "stmt" -> StmtOf(st)
      [] what = "block" -> BlockOf(st, acc)

\* ow_parser_parse() after ow_parser_clear(): the first token is read before
\* setjmp().
ParseSource(st, toks) ==
    LET sync == Advance([st EXCEPT !.rest = toks, !.q = <<EOF>>])
    IN IF Failed(sync) THEN [sync EXCEPT !.err = "longjmp"]
       ELSE Unprotect(Ignore(ParseBlock(Protect(sync), <<>>), EOF))
=============================================================================
