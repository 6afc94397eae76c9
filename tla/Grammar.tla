------------------------------- MODULE Grammar -------------------------------
(***************************************************************************)
(* How doc/grammar.md writes the parser's trees: the inverse of parsing.   *)
(***************************************************************************)
EXTENDS Parser

\* grammar.md's precedence of the outermost operator.
Level(e) ==
    CASE e.t \in {"bin", "un"} -> Tightness(e.op)
      [] e.t \in {"call", "sub"} -> 2
      [] e.t = "lambda" -> 16
      [] OTHER -> 0

Text(op) == CASE op = "pos" -> "+" [] op = "neg" -> "-" [] OTHER -> op

RECURSIVE Join(_)
Join(seqs) ==
    IF seqs = <<>> THEN <<>>
    ELSE IF Len(seqs) = 1 THEN seqs[1]
    ELSE seqs[1] \o <<",">> \o Join(Tail(seqs))

RECURSIVE Written(_), WrittenStmt(_)
WrittenBlock(stmts) == FlattenSeq([k \in DOMAIN stmts |-> WrittenStmt(stmts[k])])

\* An expression with no parentheses but those it needs when every operator
\* associates to the left; those that grammar.md has associate to the right
\* are written with parentheses.
Written(e) ==
    LET within(x, level) ==
            IF Level(x) <= level THEN Written(x)
            ELSE <<"(">> \o Written(x) \o <<")">>
        list(s) == Join([k \in DOMAIN s |-> within(s[k], 15)])
        p == Level(e)
    IN CASE e.t = "leaf" -> <<e.v>>
         [] e.t = "bin" -> within(e.l, p) \o <<e.op>> \o within(e.r, p - 1)
         [] e.t = "un" -> <<Text(e.op)>> \o within(e.x, p - 1)
         [] e.t = "call" -> within(e.obj, p) \o <<"(">> \o list(e.args) \o <<")">>
         [] e.t = "sub" -> within(e.obj, p) \o <<"[">> \o list(e.args) \o <<"]">>
         [] e.t = "tuple" ->
                <<"(">> \o list(e.elems) \o (IF Len(e.elems) = 1 THEN <<",">> ELSE <<>>) \o <<")">>
         [] e.t = "array" -> <<"[">> \o list(e.elems) \o <<"]">>
         [] e.t = "set" ->
                <<"{">> \o (IF e.elems = <<>> THEN <<",">> ELSE list(e.elems)) \o <<"}">>
         [] e.t = "map" ->
                <<"{">> \o Join([k \in DOMAIN e.pairs |->
                    within(e.pairs[k][1], 15) \o <<"=>">> \o within(e.pairs[k][2], 15)])
                \o <<"}">>
         [] e.t = "lambda" ->
                <<"func", "(">> \o Join([k \in DOMAIN e.args |-> <<e.args[k]>>]) \o <<")">> \o
                (IF Len(e.stmts) = 1 /\ e.stmts[1].t = "return" /\ e.stmts[1].e # None
                 THEN <<"=>">> \o Written(e.stmts[1].e)
                 ELSE <<EOL>> \o WrittenBlock(e.stmts) \o <<"end">>)

WrittenStmt(s) ==
    LET block(b) == WrittenBlock(b)
        expr(e) == Written(e)
        branch(k) == <<IF k = 1 THEN "if" ELSE "elif">> \o expr(s.branches[k][1]) \o <<EOL>>
                     \o block(s.branches[k][2])
        end == <<"end", EOL>>
    IN CASE s.t = "expr" -> expr(s.e) \o <<EOL>>
         [] s.t = "return" ->
                <<"return">> \o (IF s.e = None THEN <<>> ELSE expr(s.e)) \o <<EOL>>
         [] s.t = "import" -> <<"import", s.v, EOL>>
         [] s.t = "if" ->
                FlattenSeq([k \in DOMAIN s.branches |-> branch(k)])
                \o (IF s.els = <<>> THEN <<>> ELSE <<"else", EOL>> \o block(s.els[1])) \o end
         [] s.t = "for" -> <<"for", s.v, "<-">> \o expr(s.iter) \o <<EOL>> \o block(s.stmts) \o end
         [] s.t = "while" -> <<"while">> \o expr(s.cond) \o <<EOL>> \o block(s.stmts) \o end
         [] s.t = "func" ->
                <<"func", s.v, "(">> \o Join([k \in DOMAIN s.args |-> <<s.args[k]>>])
                \o <<")", EOL>> \o block(s.stmts) \o end
=============================================================================
