---------------------------- MODULE ParserSession ----------------------------
(***************************************************************************)
(* One parser object, used again and again: a compiler keeps one parser    *)
(* and may be asked to compile again, after a failure too.                 *)
(***************************************************************************)
EXTENDS Grammar, FiniteSetsExt

CONSTANTS
    Alphabet,  \* tokens of the arbitrary sources
    MaxTokens, \* bound on their length
    Ops, Uns   \* operators of the sources printed from a tree

VARIABLES
    pc,
    st,      \* the parser
    src,     \* the source of the last call
    tree     \* the tree it was printed from, None if it was not

vars == <<pc, st, src, tree>>

-----------------------------------------------------------------------------
\* The trees.

Atoms == {Leaf(x) : x \in Ident \cup Literal}

\* What can be built on a set of expressions.
Over(E) ==
    {Bin(op, l, r) : op \in Ops, l \in E, r \in E}
    \cup {Un(op, x) : op \in Uns, x \in E}
    \cup {Applied(t, obj, args) : t \in {"call", "sub"}, obj \in E,
                                  args \in {<<>>} \cup {<<x>> : x \in Atoms}}
    \cup {Applied(t, obj, <<x>>) : t \in {"call", "sub"}, obj \in Atoms, x \in E}
    \cup {Elements(t, <<x>>) : t \in {"tuple", "array", "set"}, x \in E}
    \cup {Elements(t, <<>>) : t \in {"tuple", "array", "set"}}
    \cup {MapOf(<<>>)} \cup {MapOf(<<<<x, y>>>>) : x \in E, y \in Atoms}
    \cup {Lambda(<<i>>, <<Return(x)>>) : i \in Ident, x \in E}

Simple ==
    {ExprStmt(e) : e \in Atoms} \cup {Return(e) : e \in Atoms \cup {None}}
    \cup {Import(i) : i \in Ident}

\* What can be built on a set of blocks.
Compound(B) ==
    {IfElse(<<<<c, b>>>>, els) : c \in Atoms, b \in B, els \in {<<>>} \cup {<<x>> : x \in B}}
    \cup {IfElse(<<<<c, b>>, <<c, x>>>>, <<>>) : c \in Atoms, b \in B, x \in B}
    \cup {While(c, b) : c \in Atoms, b \in B}
    \cup {For(i, c, b) : i \in Ident, c \in Atoms, b \in B}
    \cup {Func(i, <<i>>, b) : i \in Ident, b \in B}
    \cup {ExprStmt(Lambda(<<i>>, b)) : i \in Ident, b \in B}
    \cup {ExprStmt(Applied("call", Leaf(i), <<Lambda(<<>>, b)>>)) : i \in Ident, b \in B}

\* The trees whose print is parsed.
Trees ==
    LET E1 == Atoms \cup Over(Atoms)
        E2 == Over(E1)
        B1 == {<<>>} \cup {<<x>> : x \in Simple}
        B2 == {<<x, y>> : x \in Compound(B1), y \in Simple}
    IN {<<ExprStmt(e)>> : e \in E2} \cup B2
       \cup {<<x>> : x \in Compound({<<y>> : y \in Compound({<<Return(None)>>})})}

-----------------------------------------------------------------------------
Init ==
    /\ pc = "idle"
    /\ st = NewParser
    /\ src = <<>> /\ tree = <<None>>

\* ow_parser_parse() first clears what the last call left.
BeginParse ==
    /\ pc = "idle"
    /\ st' = Clear(st)
    /\ pc' = "cleared"
    /\ src' = <<>> /\ tree' = <<None>>

ParseAny(toks) ==
    /\ pc = "cleared"
    /\ st' = ParseSource(st, toks)
    /\ src' = toks /\ tree' = <<None>>
    /\ pc' = "idle"

ParseTree(t) ==
    /\ pc = "cleared"
    /\ src' = WrittenBlock(t) /\ tree' = t
    /\ st' = ParseSource(st, WrittenBlock(t))
    /\ pc' = "idle"

Next ==
    \/ BeginParse
    \/ \E n \in 0 .. MaxTokens : \E toks \in [1 .. n -> Alphabet] : ParseAny(toks)
    \/ \E t \in Trees : ParseTree(t)

Spec == Init /\ [][Next]_vars

-----------------------------------------------------------------------------
\* Properties.

Accepted == pc = "idle" /\ ~ Failed(st) /\ src # <<>>

\* When a source is accepted everything the parser borrowed is given back:
\* no region of ignored ends of lines is open, no temporary node protected,
\* no expression parser in use, and all of the source has been read.
Balanced ==
    Accepted => st.iel = 0 /\ st.temp = 0 /\ st.inuse = <<>> /\ st.rest = <<>>

RECURSIVE Leaves(_), StmtLeaves(_)
BlockLeaves(stmts) == FlattenSeq([k \in DOMAIN stmts |-> StmtLeaves(stmts[k])])
AllLeaves(s) == FlattenSeq([k \in DOMAIN s |-> Leaves(s[k])])
Leaves(e) ==
    CASE e.t = "leaf" -> <<e.v>>
      [] e.t = "bin" -> Leaves(e.l) \o <<e.op>> \o Leaves(e.r)
      [] e.t = "un" -> <<Text(e.op)>> \o Leaves(e.x)
      [] e.t \in {"call", "sub"} -> Leaves(e.obj) \o AllLeaves(e.args)
      [] e.t \in {"tuple", "array", "set"} -> AllLeaves(e.elems)
      [] e.t = "map" -> FlattenSeq([k \in DOMAIN e.pairs |->
                            Leaves(e.pairs[k][1]) \o Leaves(e.pairs[k][2])])
      [] e.t = "lambda" -> e.args \o BlockLeaves(e.stmts)
      [] OTHER -> <<>>
StmtLeaves(s) ==
    CASE s.t \in {"expr", "return"} -> Leaves(s.e)
      [] s.t = "import" -> <<s.v>>
      [] s.t = "if" -> FlattenSeq([k \in DOMAIN s.branches |->
                            Leaves(s.branches[k][1]) \o BlockLeaves(s.branches[k][2])])
                       \o (IF s.els = <<>> THEN <<>> ELSE BlockLeaves(s.els[1]))
      [] s.t = "for" -> <<s.v>> \o Leaves(s.iter) \o BlockLeaves(s.stmts)
      [] s.t = "while" -> Leaves(s.cond) \o BlockLeaves(s.stmts)
      [] s.t = "func" -> <<s.v>> \o s.args \o BlockLeaves(s.stmts)

\* Whatever source is accepted, its names and literals are all in the tree in
\* the order of the source, and each operator as often as in the source: the
\* two stacks of the expression parser drop, double and reorder nothing.
SourceKept ==
    Accepted =>
        LET leaves == BlockLeaves(st.val)
            count(s, op) == Len(SelectSeq(s, LAMBDA tok : tok = op))
        IN /\ SelectSeq(leaves, IsValue) = SelectSeq(src, IsValue)
           /\ \A tok \in ToSet(src) : IsOperator(tok) => count(leaves, tok) = count(src, tok)

\* A source written as grammar.md prescribes, operators that associate to the
\* right being parenthesised, is accepted and gives the tree it was written
\* from.
GrammarRespected ==
    pc = "idle" /\ tree # <<None>> => ~ Failed(st) /\ st.val = tree

SameOutcome(s, t) == s.err = t.err /\ (~ Failed(s) => s.val = t.val)

\* What a call gives does not depend on the calls before it, whether they
\* succeeded or were abandoned in the middle of an expression.
Reusable ==
    pc = "idle" /\ src # <<>> =>
        SameOutcome(st, ParseSource(NewParser, src))
=============================================================================
