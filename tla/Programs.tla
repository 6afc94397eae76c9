------------------------------- MODULE Programs -------------------------------
(***************************************************************************)
(* Sources compiled and run one after the other in one module, the way     *)
(* modules/repl.c does it: owiz_make_module() with the flags for strings,  *)
(* incremental compilation and the value of the last expression, then      *)
(* owiz_invoke() of the module.  The parser, the code generator and the    *)
(* interpreter are those of their modules; their result is compared with   *)
(* an evaluation of the tree the source was written from.                  *)
(***************************************************************************)
EXTENDS Machine, Codegen, Grammar

CONSTANTS
    MaxRuns,  \* sources in one session
    Fuel      \* depth of calls and rounds of a loop the evaluation follows

VARIABLES
    cg,     \* the code generator of the last compilation
    phase,  \* of the session: idle, compiled, running
    runs,   \* sources so far
    src,    \* the tree of the last source
    want    \* what evaluating the sources so far gives

vars == <<machineVars, cg, phase, runs, src, want>>

Repl == "repl_top"

-----------------------------------------------------------------------------
\* The meaning of a source: grammar.md's reading of the tree.  An evaluation
\* state holds the variables of the module, the parameters of the function,
\* the value and how things stand: go, ret, exc, undef, fuel, or open when the
\* source uses what the meaning leaves open.  alloc tells that a value has been
\* allocated without the stack being committed.

Start0 == [env |-> <<>>, args |-> <<>>, infunc |-> FALSE, v |-> Nil, st |-> "go", fuel |-> Fuel,
           alloc |-> FALSE]

Going(s) == s.st = "go"
Value(s, v) == [s EXCEPT !.v = v]
Allocating(s, v) == [s EXCEPT !.v = v, !.alloc = TRUE]
Stop(s, st) == IF Going(s) THEN [s EXCEPT !.st = st, !.v = Exc] ELSE s

\* The source uses what the implementation is known to do otherwise than
\* documented; the meaning leaves it open.
Departs(s) == Stop(s, "open")

Closure(args, stmts) == [k |-> "closure", params |-> args, stmts |-> stmts]
WithVar(vars_, name, v) == (name :> v) @@ vars_

LitVal(lit) ==
    CASE lit = "nil" -> Nil
      [] lit \in {"true", "false"} -> Bool(lit = "true")
      [] lit \in DOMAIN IntLit -> SmallInt(IntLit[lit])
      [] lit \in DOMAIN FloatLit -> Float(FloatLit[lit])
      [] lit \in SymbolLit -> Sym(lit)
      [] lit \in StringLit -> Str(lit)

NameVal(s, name) ==
    IF name \in DOMAIN s.args THEN s.args[name]
    ELSE IF name \in DOMAIN s.env THEN s.env[name]
    ELSE IF name \in DOMAIN Natives THEN Native(name) ELSE Nil

RECURSIVE Eval(_, _)

\* The values of a sequence of expressions, from the left.
EvalAll(s, es) ==
    FoldLeft(LAMBDA acc, e : LET r == Eval(acc[1], e) IN <<r, Append(acc[2], r.v)>>,
             <<s, <<>>>>, es)
EvalBlock(s, stmts) == FoldLeft(Eval, s, stmts)

Operate(s, op, x, y) ==
    IF ~ Going(s) THEN s
    ELSE IF x.k # "int" \/ y.k # "int" THEN Stop(s, "exc")
    ELSE IF op \in CompareOps THEN Value(s, Bool(Compare(op, x.i, y.i)))
    ELSE IF Defined(op, x.i, y.i) THEN LET v == IntVal(Arith(op, x.i, y.i))
         IN IF v.k = "int" THEN Value(s, v) ELSE Allocating(s, v)
    ELSE Stop(s, "undef")

\* In a function a name that is neither a parameter nor a variable of the
\* module is a local variable.
Assign(s, name) ==
    IF ~ Going(s) THEN s
    ELSE IF name \in DOMAIN s.args THEN [s EXCEPT !.args = WithVar(@, name, s.v)]
    ELSE IF s.infunc /\ name \notin DOMAIN s.env THEN Departs(s)
    ELSE [s EXCEPT !.env = WithVar(@, name, s.v)]

\* Whether the value decides a condition.
Decided(s) == Going(s) /\ s.v.k = "bool"
Undecided(s) == Stop(s, "exc")

\* A call: the parameters are what the function has of its own.
Returned(s, done) ==
    IF done.st \in {"go", "ret"}
    THEN [s EXCEPT !.env = done.env, !.alloc = done.alloc, !.v = IF done.st = "ret" THEN done.v ELSE Nil]
    ELSE [done EXCEPT !.args = s.args, !.infunc = s.infunc, !.fuel = s.fuel]
EvalCall(s, f, args) ==
    LET frame == [s EXCEPT !.args = [n \in ToSet(f.params) |->
                                args[CHOOSE k \in DOMAIN args : f.params[k] = n]],
                           !.infunc = TRUE, !.fuel = @ - 1]
        spec == Natives[f.name]
    IN IF ~ Going(s) THEN s
       ELSE IF f.k = "closure" /\ Len(args) = Len(f.params)
       THEN IF s.fuel = 0 THEN Stop(s, "fuel") ELSE Returned(s, EvalBlock(frame, f.stmts))
       ELSE IF f.k = "cfunc" /\ Len(args) = spec.argc
       THEN CASE spec.does = "nothing" -> Value(s, Nil)
              [] spec.does = "value" -> Value(s, SmallInt(1))
              [] spec.does = "raise" -> Stop(s, "exc")
              [] spec.does = "apply" -> Eval(s, [t |-> "invoke", f |-> args[1]])
       ELSE Stop(s, "exc")

\* A function that ends in an if whose branch returns runs off its code.
EvalFunc(s, args, stmts) ==
    LET f == Value(s, Closure(args, stmts))
        returns == \E b \in ToSet(Last(stmts).branches) : b[2] # <<>> /\ Last(b[2]).t = "return"
    IN IF stmts # <<>> /\ Last(stmts).t = "if" /\ returns THEN Departs(s) ELSE f

EvalBin(s, e, l, r) ==
    CASE e.op = "=" /\ e.l.t = "leaf" -> Assign(Eval(s, e.r), e.l.v)
      [] e.op = "=" /\ e.l.t # "leaf" -> Departs(s)
      [] e.op \in AssignOps \ {"="} -> Assign(Operate(r, EqlOpcode(e.op), l.v, r.v), e.l.v)
      [] e.op \in {"&&", "||"} ->
            IF ~ Decided(l) THEN Undecided(l) ELSE IF l.v.b = (e.op = "||") THEN l ELSE r
      [] e.op = "." ->
            IF ~ Going(l) \/ l.v.k # "module" THEN Stop(l, "exc")
            ELSE LET v == GlobalY(Library[l.v.name], e.r.v)
                 IN Value(l, IF v = NULL THEN Nil ELSE v)
      [] OTHER -> Operate(r, BinOpcode(e.op), l.v, r.v)

EvalUn(e, x) ==
    CASE e.op = "!" -> Departs(x)
      [] e.op = "neg" -> Operate(x, "Sub", SmallInt(0), x.v)
      [] e.op = "~" -> Operate(x, "Sub", SmallInt(-1), x.v)

EvalMade(e, all) ==
    CASE e.t \in {"array", "tuple"} -> Value(all[1], Made(e.t, all[2]))
      [] e.t = "set" -> Value(all[1], Made("set", Distinct(all[2])))
      [] e.t = "map" -> Departs(all[1])

RECURSIVE EvalWhile(_, _, _)
EvalWhile(c, w, n) ==
    IF ~ Decided(c) THEN Undecided(c)
    ELSE IF ~ c.v.b THEN c
    ELSE IF n = 0 THEN Stop(c, "fuel")
    ELSE EvalWhile(Eval(EvalBlock(c, w.stmts), w.cond), w, n - 1)

\* The branches from the first one whose condition has the value of c.
EvalIf(c, w) ==
    IF ~ Decided(c) THEN Undecided(c)
    ELSE IF c.v.b THEN EvalBlock(c, w.branches[1][2])
    ELSE IF Len(w.branches) > 1 THEN Eval(c, [w EXCEPT !.branches = Tail(@)])
    ELSE IF w.els = <<>> THEN c ELSE EvalBlock(c, w.els[1])

EvalReturn(e) == IF Going(e) THEN [e EXCEPT !.st = "ret"] ELSE e

EvalImport(s, name) ==
    LET bound == Assign(Allocating(s, ModObj(name)), name)
    IN IF name \notin DOMAIN Library THEN Stop(s, "exc")
       ELSE IF GlobalY(Library[name], Anon) = NULL THEN bound ELSE Departs(s)

Eval(s, e) ==
    IF ~ Going(s) THEN s
    ELSE CASE e.t = "leaf" -> IF e.v \in Ident THEN Value(s, NameVal(s, e.v))
                               ELSE IF e.v \in DOMAIN FloatLit /\ FloatLit[e.v] % 2 = 0
                               THEN Allocating(s, LitVal(e.v))
                               ELSE Value(s, LitVal(e.v))
           [] e.t = "bin" -> LET l == Eval(s, e.l) IN EvalBin(s, e, l, Eval(l, e.r))
           [] e.t = "un" -> EvalUn(e, Eval(s, e.x))
           [] e.t \in {"array", "tuple", "set"} -> EvalMade(e, EvalAll(s, e.elems))
           [] e.t = "map" -> EvalMade(e, EvalAll(s, FlattenSeq(e.pairs)))
           [] e.t = "lambda" -> EvalFunc(s, e.args, e.stmts)
           [] e.t = "call" -> LET all == EvalAll(s, <<e.obj>> \o e.args)
                              IN EvalCall(all[1], Head(all[2]), Tail(all[2]))
           [] e.t = "invoke" -> EvalCall(s, e.f, <<>>)
           [] e.t = "sub" -> Stop(s, "exc")
           [] e.t = "expr" -> Eval(s, e.e)
           [] e.t \in {"return", "magic"} ->
                EvalReturn(IF e.e = None THEN Value(s, Nil) ELSE Eval(s, e.e))
           [] e.t = "if" -> EvalIf(Eval(s, e.branches[1][1]), e)
           [] e.t = "while" -> EvalWhile(Eval(s, e.cond), e, Fuel)
           [] e.t = "func" -> Assign(EvalFunc(s, e.args, e.stmts), e.v)
           [] e.t = "import" -> EvalImport(s, e.v)

\* A source after others: the module's variables stay.  The value of the
\* last statement counts if it is an expression.
Outcome(r) == IF r.st = "go" THEN Value(r, Nil) ELSE r
Meaning(s, stmts) ==
    IF s.st = "open" THEN s
    ELSE Outcome(EvalBlock([Start0 EXCEPT !.env = s.env, !.alloc = s.alloc], ReturnLast(stmts)))

\* What values look like from outside: functions do not tell how they work.
RECURSIVE View(_)
View(v) ==
    CASE v.k = "func" -> [k |-> "func", argc |-> v.argc]
      [] v.k = "closure" -> [k |-> "func", argc |-> Len(v.params)]
      [] v.k \in {"array", "tuple", "set"} ->
            [k |-> v.k, elems |-> [i \in DOMAIN v.elems |-> View(v.elems[i])]]
      [] OTHER -> v

\* The value v is what the meaning says, but for references that went stale
\* while something was allocated.
RECURSIVE Agree(_, _)
Agree(v, w) ==
    \/ View(v) = View(w)
    \/ want.alloc /\ v = Junk
    \/ /\ v.k \in {"array", "tuple"} /\ v.k = w.k /\ Len(v.elems) = Len(w.elems)
       /\ \A i \in DOMAIN v.elems : Agree(v.elems[i], w.elems[i])

-----------------------------------------------------------------------------
\* The session.

Init ==
    /\ MachineInit
    /\ globals = (Repl :> <<>>)
    /\ cg = NewCodegen
    /\ phase = "idle" /\ runs = 0 /\ src = <<>>
    /\ want = Start0

\* ow_compiler_compile() of a source: parser, ReturnLast, generator.
Generated(p) ==
    IF Failed(p) THEN [NewCodegen EXCEPT !.err = p.err]
    ELSE Generate(NewCodegen, ReturnLast(p.val), Repl, Names(Repl))
Compiled(toks) == Generated(ParseSource(NewParser, toks))

\* Mutant: the global variables of the last source are not declared again.
InstalledAfresh(c) ==
    [k \in 1 .. Len(TopScope(c).vars) |-> <<TopScope(c).vars[k], Nil>>]

\* _scope_update_module_globals(): the names the source added, nil at first.
Installed(c) ==
    globals[Repl] \o [k \in 1 .. Len(TopScope(c).vars) - Len(globals[Repl]) |->
        <<TopScope(c).vars[Len(globals[Repl]) + k], Nil>>]

\* func_eval(): the module is pushed and compiled into, and stays as it was
\* when that fails.
CompileFails(c) ==
    /\ Failed(c)
    /\ cg' = c
    /\ UNCHANGED <<machineVars, phase, want>>
CompileSucceeds(c, stmts) ==
    /\ ~ Failed(c)
    /\ cg' = Finish(c)
    /\ globals' = [globals EXCEPT ![Repl] = WithGlobal(Installed(c), Anon, Finish(c).val)]
    /\ stk' = [stk EXCEPT ![regs.sp + 1] = ModObj(Repl)]
    /\ regs' = [regs EXCEPT !.sp = @ + 1]
    /\ phase' = "compiled"
    /\ want' = Meaning(want, stmts)
    /\ UNCHANGED <<frames, acts, out>>
Compile(stmts) ==
    /\ phase = "idle" /\ runs < MaxRuns
    /\ \E c \in {Compiled(WrittenBlock(stmts))} :
            CompileFails(c) \/ CompileSucceeds(c, stmts)
    /\ src' = stmts /\ runs' = runs + 1

\* Mutant: the initializer takes the place of the module on the stack.
RunModuleInPlace ==
    /\ phase = "compiled" /\ acts = <<>> /\ out = NULL
    /\ Invoke(stk, regs.sp - 1, regs.fp, GlobalY(globals[Repl], Anon))
    /\ acts' = <<Activation(regs.sp, regs.fp, 0)>>
    /\ phase' = "running"
    /\ UNCHANGED <<globals, out, cg, runs, src, want>>

\* owiz_invoke() of the module: ow_machine_run() up to the initializer's call.
RunModule ==
    /\ phase = "compiled"
    /\ HostInvoke(GlobalY(globals[Repl], Anon))
    /\ phase' = "running"
    /\ UNCHANGED <<cg, runs, src, want>>

\* One step of the interpreter.
Interpret == phase = "running" /\ Step /\ UNCHANGED <<cg, phase, runs, src, want>>

\* The end of ow_machine_run() and of func_eval(), whose frame is left.
Finished ==
    /\ phase = "running" /\ acts = <<>>
    /\ globals' = IF out.ok THEN [globals EXCEPT ![Repl] = WithGlobal(@, Anon, Nil)] ELSE globals
    /\ regs' = [regs EXCEPT !.sp = @ - 1]
    /\ out' = NULL /\ phase' = "idle"
    /\ UNCHANGED <<stk, frames, acts, cg, runs, src, want>>

\* A process that failed is started again.
Restart ==
    /\ phase = "running" /\ acts # <<>>
    /\ Reboot
    /\ globals' = (Repl :> <<>>)
    /\ phase' = "idle" /\ src' = <<>> /\ want' = Start0
    /\ UNCHANGED <<cg, runs>>

-----------------------------------------------------------------------------
\* The sources.

V(tok) == Leaf(tok)
Let(name, e) == ExprStmt(Bin("=", V(name), e))
CallOf(f, args) == Applied("call", f, args)

\* The sources a session may begin with: variables, functions that use them,
\* sources refused in the middle of a function, and failures when running.
Preludes ==
    LET inc == Bin("+", V("x"), V("1"))
        dec == Bin("-", V("x"), V("1"))
        shift == Bin("-", V("x"), Bin("<<", V("a"), V("1")))
        test == Bin("<", V("x"), V("1"))
    IN {<<Let("a", V("1"))>>,
        <<Let("f", Lambda(<<"x">>, <<Return(shift)>>)), Let("a", V("5"))>>,
        <<Func("f", <<"x">>, <<IfElse(<<<<test, <<Return(V("x"))>>>>>>, <<>>),
                               ExprStmt(CallOf(V("print"), <<V("x")>>)),
                               Return(Bin("+", CallOf(V("f"), <<dec>>), V("1")))>>)>>,
        <<Func("f", <<"x">>, <<While(V("true"), <<ExprStmt(Bin("+=", V("x"), V("1"))),
              IfElse(<<<<Bin(">", V("x"), V("5")), <<Return(V("x"))>>>>>>, <<>>)>>)>>)>>,
        <<Func("f", <<"x">>, <<Return(CallOf(V("f"), <<inc>>))>>)>>,
        <<Func("f", <<"x", "a">>, <<Return(CallOf(Lambda(<<"a">>,
              <<Return(Elements("tuple", <<V("x"), V("a")>>))>>), <<V("x")>>))>>), Let("x", V("9"))>>,
        <<Let("a", V("1")), Func("f", <<"x">>, <<For("a", V("x"), <<>>)>>)>>,
        <<Let("a", V("1")), ExprStmt(CallOf(V("boom"), <<>>)), Let("a", V("5"))>>,
        <<Import("sys"), Let("a", Bin(".", V("sys"), V("x")))>>,
        <<Func("f", <<"x">>, <<Let("z", V("x")), Return(V("z"))>>)>>,
        <<Func("f", <<"x">>, <<Let("z", V("x")), Return(Bin("+", V("z"), V("1")))>>)>>,
        <<Func("f", <<"x">>, <<IfElse(<<<<test, <<Return(V("x"))>>>>>>, <<>>)>>)>>}

\* Expressions over a set of operands.
Exprs(A) ==
    {Bin(op, l, r) : op \in {"-", "*", "<", "&&", "||"}, l \in A, r \in A}
    \cup {Bin(op, V("9"), r) : op \in {"/", "%", "<<", ">>", "&", "|", "^", "==", "!=", "<=", ">", ">="},
                               r \in A}
    \cup {CallOf(V("f"), <<l>>) : l \in A}
    \cup {Elements(t, <<l, r>>) : t \in {"array", "tuple", "set"}, l \in A, r \in A}
    \cup {Bin("=", V("a"), l) : l \in A} \cup {Bin("+=", V("a"), l) : l \in A}
    \cup {Un(op, l) : op \in {"neg", "~"}, l \in A}

Atoms == {V("1"), V("a"), V("true"), V("5")}

\* The sources of the session after that.
Sources ==
    LET E1 == Exprs(Atoms)
        some == {V("a"), Bin("<", V("1"), V("a")), Bin("=", V("a"), V("1")),
                 CallOf(V("f"), <<V("1")>>), CallOf(V("apply"), <<V("f")>>),
                 CallOf(V("apply"), <<V("one")>>), CallOf(V("boom"), <<>>)}
        E2 == Exprs(some)
        conds == {Bin("<", V("a"), V("5")), Bin("==", V("a"), V("1")), V("a"), V("false")}
        step == ExprStmt(Bin("+=", V("a"), V("1")))
        blocks == {<<Let("a", V("5"))>>, <<step, ExprStmt(CallOf(V("f"), <<V("a")>>))>>, <<>>}
        ctrl == {IfElse(<<<<c, b>>>>, els) : c \in conds, b \in blocks,
                                             els \in {<<>>, <<<<Let("a", V("9"))>>>>}}
                \cup {IfElse(<<<<c, b>>, <<d, <<step>>>>>>, els) : c \in conds, d \in conds,
                        b \in blocks, els \in {<<>>, <<<<>>>>}}
                \cup {While(c, Append(b, step)) : c \in conds, b \in blocks}
        more == {<<Func("f", <<>>, <<ExprStmt(V("a"))>>), ExprStmt(CallOf(V("apply"), <<V("f")>>))>>,
                 <<ExprStmt(CallOf(V("apply"), <<Lambda(<<>>, <<ExprStmt(CallOf(V("boom"), <<>>))>>)>>))>>,
                 <<ExprStmt(CallOf(V("apply"), <<Lambda(<<>>, <<Return(CallOf(V("f"), <<V("1")>>))>>)>>))>>,
                 <<ExprStmt(CallOf(V("f"), <<V("1"), V("5")>>))>>,
                 <<ExprStmt(Elements("tuple", <<V("2.5"), V("3.0"), V("sym"), V("str"), V("nil")>>))>>,
                 <<ExprStmt(CallOf(Bin(":", V("a"), V("x")), <<>>))>>,
                 <<ExprStmt(Applied("sub", V("a"), <<V("1")>>))>>,
                 <<ExprStmt(Un("!", V("false")))>>, <<ExprStmt(Un("!", V("true")))>>,
                 <<ExprStmt(MapOf(<<<<V("1"), V("5")>>, <<V("5"), V("9")>>>>))>>,
                 <<Import("sys"), ExprStmt(Bin("=", Bin(".", V("sys"), V("x")), V("5")))>>,
                 <<Import("lib"), ExprStmt(V("lib"))>>,
                 <<Let("z", V("1")), For("z", V("a"), <<>>)>>,
                 <<Import("f")>>, <<Import("sys"), ExprStmt(V("sys"))>>, <<>>}
        big == Bin("*", V("9"), V("5"))
        pair(l, r) == Elements("tuple", <<l, r>>)
        held == {<<ExprStmt(pair(V("2.5"), V("3.0")))>>, <<ExprStmt(pair(V("3.0"), V("3.0")))>>,
                 <<ExprStmt(pair(pair(V("3.0"), V("3.0")), big))>>,
                 <<ExprStmt(Elements("array", <<V("str"), big, Un("neg", big)>>))>>,
                 <<ExprStmt(Elements("set", <<V("3.0"), V("3.0")>>))>>,
                 <<ExprStmt(MapOf(<<<<V("3.0"), V("1")>>, <<big, V("3.0")>>>>))>>,
                 <<ExprStmt(Bin("-", V("3.0"), V("3.0")))>>, <<ExprStmt(Bin("<", V("str"), big))>>,
                 <<ExprStmt(CallOf(V("f"), <<V("3.0")>>))>>,
                 <<ExprStmt(CallOf(V("f"), <<CallOf(V("f"), <<big>>)>>))>>,
                 <<Let("a", pair(V("str"), big)), ExprStmt(Bin("+=", V("a"), V("3.0")))>>,
                 <<Func("f", <<"x">>, <<Return(pair(V("x"), V("3.0")))>>),
                   Func("x", <<"z">>, <<Return(pair(V("3.0"), CallOf(V("f"), <<V("z")>>)))>>),
                   ExprStmt(CallOf(V("x"), <<V("a")>>))>>,
                 <<Func("f", <<"sys">>, <<Import("sys"), Return(V("sys"))>>),
                   ExprStmt(Elements("tuple", <<V("3.0"), pair(V("3.0"), V("sym")),
                                                CallOf(V("f"), <<V("str")>>)>>))>>}
    IN {<<ExprStmt(e)>> : e \in E1 \cup E2} \cup {<<s, ExprStmt(V("a"))>> : s \in ctrl} \cup more \cup held

Next ==
    \/ \E stmts \in (IF runs = 0 THEN Preludes ELSE Sources) : Compile(stmts)
    \/ RunModule \/ Interpret \/ Finished \/ Restart

\* The machine has one thread, which goes on as long as it can.
Spec ==
    /\ Init /\ [][Next]_vars
    /\ WF_vars(RunModule) /\ WF_vars(Interpret) /\ WF_vars(Finished) /\ WF_vars(Restart)

-----------------------------------------------------------------------------
\* Properties.

\* When a source has been run the interpreter has what evaluating the tree
\* gives: the value of the last expression, the exception, the values of the
\* module's variables, those of earlier sources included; undefined behaviour
\* only where the source divides by zero or recurs without end.  What goes
\* wrong for want of STACK_COMMIT() is a stale reference in the place of a
\* value, or followed, and that only if the source has numbers or modules
\* allocated, or an exception, and never another value or another outcome.
ResultCorrect ==
    phase = "running" /\ out # NULL =>
        IF out = Lost THEN want.alloc \/ want.st \in {"exc", "open"}
        ELSE /\ CASE want.st \in {"go", "ret"} -> out.ok /\ Agree(out.v, want.v)
                  [] want.st = "exc" -> ~ out.ok /\ out.v = Exc
                  [] want.st \in {"undef", "fuel"} -> out.v = Undef
                  [] want.st = "open" -> TRUE
             /\ out.v # Undef /\ want.st # "open" => \A n \in DOMAIN want.env :
                    LET v == GlobalY(globals[Repl], n)
                    IN v # NULL /\ Agree(v, want.env[n])

\* A function's code, and that of the functions among its constants.
RECURSIVE Verifies(_)
Verifies(f) == Verified(f.code) /\ \A c \in ToSet(f.consts) : c.k = "func" => Verifies(c)

\* Whatever source is compiled, its code verifies.
CodeVerifies == phase = "compiled" /\ want.st # "open" => Verifies(cg.val)

\* The session is a history of the machine of module Machine.
IsMachine == MachineSpec

\* Compiling a source, or failing to, leaves the variables that are there
\* alone: each keeps its index, which compiled functions hold, and its value.
GlobalsKept ==
    [][phase = "idle" => \A k \in DOMAIN globals[Repl] :
        \/ globals'[Repl][k] = globals[Repl][k]
        \/ globals[Repl][k][1] = Anon /\ globals'[Repl][k][1] = Anon]_vars

\* Every source that is run comes to an end.
Terminates == phase = "running" ~> phase = "idle"
=============================================================================
