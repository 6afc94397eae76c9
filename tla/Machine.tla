------------------------------- MODULE Machine -------------------------------
(***************************************************************************)
(* The interpreter of machine/invoke.c with the call stack of              *)
(* machine/stack.c: one action per group of instructions.                  *)
(*                                                                         *)
(* invoke_impl() keeps the stack registers in local variables and writes   *)
(* them to the machine (STACK_COMMIT) before it calls what may collect     *)
(* garbage or push; acts holds the invocations that are under way, each    *)
(* with its registers, and regs what was committed.  No class of the       *)
(* program has a method, so that every method look-up ends in an exception.*)
(* An instruction pointer is a piece of code and a position in it.         *)
(***************************************************************************)
EXTENDS Bytecode

CONSTANTS
    StackSize,  \* callstack.data_end - callstack._data
    SmallMax,   \* OW_SMALLINT_MAX
    Natives,    \* native functions of the base module: a function from their
                \* names to [argc, oarg, does]
    Library     \* what can be imported: a function from names to the global
                \* variables of the module once it is loaded

ASSUME StackAssumption == StackSize \in Nat

VARIABLES
    stk,      \* callstack._data
    regs,     \* callstack.regs: [sp, fp]
    frames,   \* frame_info_list, the current frame last
    acts,     \* invocations of invoke_impl(), the innermost last
    globals,  \* the loaded modules: name to a sequence of <<name, value>>
    out       \* what the last invocation from the host gave, NULL before

machineVars == <<stk, regs, frames, acts, globals, out>>

-----------------------------------------------------------------------------
\* Values.

NULL == [k |-> "NULL"]
Exc == [k |-> "exc"]
Junk == [k |-> "junk"]      \* a reference to an object that was reclaimed or moved
Undef == [k |-> "undefined"]
Lost == [ok |-> FALSE, v |-> Junk]
ModObj(name) == [k |-> "module", name |-> name]
Native(name) == [k |-> "cfunc", name |-> name]
Made(k, elems) == [k |-> k, elems |-> elems]   \* array, tuple, set, map

\* ow_int_obj_or_smallint()
IntVal(i) == IF i \in - SmallMax - 1 .. SmallMax THEN SmallInt(i) ELSE [k |-> "bigint", i |-> i]

Anon == ""                              \* common_symbols->anon

\* Integer operators; the bitwise ones on words of 8 bits.
Quotient(x, y) ==
    LET abs(v) == IF v < 0 THEN - v ELSE v
        q == abs(x) \div abs(y)
    IN IF (x < 0) # (y < 0) THEN - q ELSE q
Bits(x) == {b \in 0 .. 7 : (x % 256) \div 2 ^ b % 2 = 1}
Word(B) == MapThenSumSet(LAMBDA b : 2 ^ b, B)
Signed(x) == IF x > 127 THEN x - 256 ELSE x
Defined(op, x, y) ==
    CASE op \in {"Div", "Rem"} -> y # 0
      [] op \in {"Shl", "Shr"} -> x >= 0 /\ y \in 0 .. 8
      [] OTHER -> TRUE
Arith(op, x, y) ==
    CASE op = "Add" -> x + y
      [] op = "Sub" -> x - y
      [] op = "Mul" -> x * y
      [] op = "Div" -> Quotient(x, y)
      [] op = "Rem" -> x - y * Quotient(x, y)
      [] op = "Shl" -> x * 2 ^ y
      [] op = "Shr" -> x \div 2 ^ y
      [] op = "And" -> Signed(Word(Bits(x) \cap Bits(y)))
      [] op = "Or" -> Signed(Word(Bits(x) \cup Bits(y)))
      [] op = "Xor" -> Signed(Word(SymDiff(Bits(x), Bits(y))))
Compare(op, x, y) ==
    CASE op = "CmpLt" -> x < y [] op = "CmpLe" -> x <= y [] op = "CmpGt" -> x > y
      [] op = "CmpGe" -> x >= y [] op = "CmpEq" -> x = y [] op = "CmpNe" -> x # y

-----------------------------------------------------------------------------
\* Modules: objects/moduleobj.c.

Names(mod) == [k \in DOMAIN globals[mod] |-> globals[mod][k][1]]

\* ow_module_obj_get_global_y(), NULL when there is none
GlobalY(vars, name) ==
    LET at == {k \in DOMAIN vars : vars[k][1] = name}
    IN IF at = {} THEN NULL ELSE vars[CHOOSE k \in at : TRUE][2]

\* ow_module_obj_set_global_y()
WithGlobal(vars, name, v) ==
    LET at == {k \in DOMAIN vars : vars[k][1] = name}
    IN IF at = {} THEN Append(vars, <<name, v>>)
       ELSE [vars EXCEPT ![CHOOSE k \in at : TRUE][2] = v]

-----------------------------------------------------------------------------
\* The current invocation.

\* wait tells what the invocation is doing: it has just been called, it
\* executes instructions, or it waits for a native function or a module.  base
\* and depth tell where the stack and the frames ended before it.
Activation(sp, fp, argc) ==
    [sp |-> sp, fp |-> fp, ip |-> NULL, fn |-> Nil, wait |-> "start", argc |-> argc,
     got |-> NULL, base |-> [sp |-> sp - argc - 1, fp |-> fp], depth |-> Len(frames)]

Top == Last(acts)
Sp == Top.sp
Slot(k) == stk[Sp - k]

\* Below StackSize - 2 every instruction has room; beyond data_end nothing
\* is checked.
Running == acts # <<>> /\ out = NULL /\ Sp < StackSize - 2
Executing == Running /\ Top.wait = "run" /\ Top.ip.at \in DOMAIN Top.ip.code
Fetched == Top.ip.code[Top.ip.at]
At(ops) == Executing /\ Fetched.op \in ops

SetTop(act) == acts' = [acts EXCEPT ![Len(acts)] = act]

\* Another instruction of the function, with a new stack pointer.
Moved(sp, at) == [Top EXCEPT !.sp = sp, !.ip = [Top.ip EXCEPT !.at = at]]
Goto(sp, at) == SetTop(Moved(sp, at)) /\ UNCHANGED <<regs, frames, out>>
Next1 == Top.ip.at + 1
Continue(s, sp) == stk' = s /\ Goto(sp, Next1) /\ UNCHANGED globals
Push(v) == Continue([stk EXCEPT ![Sp + 1] = v], Sp + 1)

\* What the caller of an invocation that ends sees.
Deliver(rest, ok, v) ==
    IF rest = <<>> THEN acts' = <<>> /\ out' = [ok |-> ok, v |-> v]
    ELSE /\ acts' = [rest EXCEPT ![Len(rest)] = [@ EXCEPT !.got = [ok |-> ok, v |-> v]]]
         /\ out' = out

\* Undefined behaviour and failed assertions end the story; that of following
\* a stale reference is told from the others.
Undefine == out' = [ok |-> FALSE, v |-> Undef] /\ UNCHANGED <<stk, regs, frames, acts, globals>>
Stray == out' = Lost /\ UNCHANGED <<stk, regs, frames, acts, globals>>

\* A collection visits and updates the stack up to the committed stack
\* pointer.  Behind sp, in slots that an invocation uses, references to objects
\* that may be reclaimed or moved go stale; nil, true and false stay where they
\* are.  Slots above every stack pointer are not followed.
Unprotected(sp) ==
    {k \in DOMAIN stk : /\ sp < k /\ \E j \in DOMAIN acts : k <= acts[j].sp
                        /\ stk[k].k \notin {"int", "nil", "bool", "junk"}}

\* An allocation with the stack committed up to sp: nothing happens to the
\* slots behind it, or a collection leaves some of them stale.
Allocated(sp) ==
    {[k \in DOMAIN stk |-> IF k \in gone THEN Junk ELSE stk[k]] : gone \in SUBSET Unprotected(sp)}

\* The collection meets a stale reference that has been committed.  Those
\* inside containers are not followed.
MeetsStale(sp) == (\E k \in DOMAIN stk : k <= sp /\ stk[k] = Junk) /\ Stray

\* raise_exc: frames are left up to the one that was entered from C; on the
\* way the function of each frame that is returned to is looked at.
Raise(s, frs) ==
    LET b == CHOOSE k \in DOMAIN frs : frs[k].pip = NULL /\
                 \A j \in k + 1 .. Len(frs) : frs[j].pip # NULL
    IN IF \E j \in b .. Len(frs) - 1 : s[frs[j].argl - 1] = Junk THEN Stray
       ELSE /\ stk' = s
            /\ frames' = SubSeq(frs, 1, b - 1)
            /\ regs' = [sp |-> frs[b].argl - 2, fp |-> frs[b].pfp]
            /\ Deliver(Front(acts), FALSE, Exc)

\* A new exception, with the stack committed up to sp.
RaiseNew(sp, frs) ==
    \/ MeetsStale(sp)
    \/ (\E s \in Allocated(sp) : Raise(s, frs)) /\ UNCHANGED globals
RaiseHere == RaiseNew(regs.sp, frames)

\* v does not have the method: STACK_COMMIT(), a look at v's class, an exception.
NoMethod(v) == IF v = Junk THEN Stray ELSE RaiseNew(Sp, frames)

\* An operand that is an index from 0, and the symbol it stands for.
Operand == Fetched.a + 1
HasSymbol == Operand \in DOMAIN Top.fn.syms
Symbol == Top.fn.syms[Operand]

-----------------------------------------------------------------------------
\* Instructions that only move values.

OpStack ==
    \/ At({"Drop"}) /\ Continue(stk, Sp - 1)
    \/ At({"Dup"}) /\ Push(Slot(0))

OpLoad ==
    \/ At({"LdNil"}) /\ Push(Nil)
    \/ At({"LdBool"}) /\ Push(Bool(Fetched.a = 1))
    \/ At({"LdInt"}) /\ Push(SmallInt(Fetched.a))

OpConstant ==
    \/ /\ At({"LdCnst"})
       /\ IF Operand \in DOMAIN Top.fn.consts THEN Push(Top.fn.consts[Operand]) ELSE RaiseHere
    \/ /\ At({"LdSym"})
       /\ IF HasSymbol THEN Push(Sym(Symbol)) ELSE RaiseHere

\* ow_float_obj_new() without STACK_COMMIT()
OpLdFlt ==
    /\ At({"LdFlt"})
    /\ \/ MeetsStale(regs.sp)
       \/ \E s \in Allocated(regs.sp) : Continue([s EXCEPT ![Sp + 1] = Float(2 * Fetched.a)], Sp + 1)

OpArg ==
    LET p == Last(frames).argl + Fetched.a
    IN \/ /\ At({"LdArg"})
          /\ IF p >= Top.fp THEN RaiseHere ELSE Push(stk[p])
       \/ /\ At({"StArg"})
          /\ IF p >= Top.fp THEN RaiseHere ELSE Continue([stk EXCEPT ![p] = Slot(0)], Sp - 1)

\* No room is kept for local variables: the slot of one is the first above
\* the frame.  A slot at or below the top is refused by LdLoc.
OpLocal ==
    LET p == Top.fp + Fetched.a
    IN \/ /\ At({"LdLoc"})
          /\ IF p <= Sp THEN RaiseHere ELSE Push(stk[p])
       \/ /\ At({"StLoc"})
          /\ IF p < Sp THEN RaiseHere ELSE Continue([stk EXCEPT ![p] = Slot(0)], Sp - 1)

\* What is stored into a module is looked at by the write barrier.
OpGlobal ==
    LET mod == Top.fn.mod
        own == GlobalY(globals[mod], Symbol)
        native == IF Symbol \in DOMAIN Natives THEN Native(Symbol) ELSE Nil
    IN \/ /\ At({"LdGlob"})
          /\ Push(IF Operand \in DOMAIN globals[mod] THEN globals[mod][Operand][2] ELSE Nil)
       \/ /\ At({"LdGlobY"})
          /\ IF HasSymbol THEN Push(IF own # NULL THEN own ELSE native) ELSE RaiseHere
       \/ /\ At({"StGlob"})
          /\ IF Slot(0) = Junk THEN Stray
             ELSE /\ globals' = [globals EXCEPT ![mod][Operand][2] = Slot(0)]
                  /\ Goto(Sp - 1, Next1)
                  /\ UNCHANGED stk

-----------------------------------------------------------------------------
\* Operators.

\* An integer takes the place of values from slot at on.  It is allocated,
\* without STACK_COMMIT(), when it is no small one.
PutInt(at, v) ==
    IF v.k = "int" THEN Continue([stk EXCEPT ![at] = v], at)
    ELSE \/ MeetsStale(regs.sp)
         \/ \E s \in Allocated(regs.sp) : Continue([s EXCEPT ![at] = v], at)

\* IMPL_BIN_OP()
OpArith ==
    /\ At(ArithOps)
    /\ LET x == Slot(1)
           y == Slot(0)
       IN IF x.k = "int" /\ y.k = "int"
          THEN IF Defined(Fetched.op, x.i, y.i)
               THEN PutInt(Sp - 1, IntVal(Arith(Fetched.op, x.i, y.i)))
               ELSE Undefine
          ELSE NoMethod(x)

\* IMPL_CMP_OP()
OpCompare ==
    /\ At(CompareOps)
    /\ IF Slot(0).k = "int" /\ Slot(1).k = "int"
       THEN Continue([stk EXCEPT ![Sp - 1] = Bool(Compare(Fetched.op, Slot(1).i, Slot(0).i))],
                     Sp - 1)
       ELSE NoMethod(Slot(1))

\* IMPL_UN_OP()
OpUnary ==
    /\ At({"Neg", "Inv"})
    /\ IF Slot(0).k = "int"
       THEN PutInt(Sp, IntVal(IF Fetched.op = "Neg" THEN - Slot(0).i ELSE - Slot(0).i - 1))
       ELSE NoMethod(Slot(0))

\* false, and nothing else, is refused.
OpNot ==
    /\ At({"Not"})
    /\ CASE Slot(0) = Bool(TRUE) -> Continue([stk EXCEPT ![Sp] = Bool(FALSE)], Sp)
         [] Slot(0) = Bool(FALSE) -> RaiseHere
         [] OTHER -> Continue([stk EXCEPT ![Sp] = Bool(TRUE)], Sp)

OpJump ==
    \/ At({"Jmp"}) /\ Goto(Sp, Fetched.a) /\ UNCHANGED <<stk, globals>>
    \/ /\ At({"JmpWhen", "JmpUnls"})
       /\ IF Slot(0).k # "bool" THEN RaiseHere
          ELSE /\ Goto(Sp - 1, IF Slot(0).b = (Fetched.op = "JmpWhen") THEN Fetched.a ELSE Next1)
               /\ UNCHANGED <<stk, globals>>

\* Attributes of a module; other objects have none.  StAttrY leaves the value.
OpAttr ==
    LET obj == Slot(0)
        attr == GlobalY(globals[obj.name], Symbol)
    IN \/ /\ At({"LdAttrY"})
          /\ IF ~ HasSymbol THEN RaiseHere
             ELSE IF obj.k # "module" THEN NoMethod(obj)
             ELSE Continue([stk EXCEPT ![Sp] = IF attr = NULL THEN Nil ELSE attr], Sp)
       \/ /\ At({"StAttrY"})
          /\ IF HasSymbol /\ (obj = Junk \/ (obj.k = "module" /\ Slot(1) = Junk)) THEN Stray
             ELSE IF ~ HasSymbol \/ obj.k # "module" THEN RaiseHere
             ELSE /\ globals' = [globals EXCEPT ![obj.name] = WithGlobal(@, Symbol, Slot(1))]
                  /\ Goto(Sp - 1, Next1)
                  /\ UNCHANGED stk

\* The method that is not found.
OpElem == At({"LdElem", "StElem"}) /\ NoMethod(Slot(1))

\* In the place of the method PrepMethY leaves the exception, for -1 passes
\* for true.
OpPrepMeth ==
    /\ At({"PrepMethY"})
    /\ IF ~ HasSymbol THEN RaiseHere
       ELSE IF Slot(0) = Junk THEN Stray
       ELSE \/ MeetsStale(Sp)
            \/ /\ \E s \in Allocated(Sp) : stk' = [s EXCEPT ![Sp] = Exc, ![Sp + 1] = Slot(0)]
               /\ regs' = [sp |-> Sp + 1, fp |-> Top.fp]
               /\ SetTop(Moved(Sp + 1, Next1))
               /\ UNCHANGED <<frames, globals, out>>

\* Keys: a small integer equals an equal one, anything else only itself, as
\* the look-up of a method to compare with fails.  The values of these kinds
\* are one object each.
Same(v, w) == v = w /\ v.k \in {"int", "nil", "bool", "symbol", "module", "cfunc"}
Distinct(s) ==
    FoldLeft(LAMBDA acc, v : IF \E x \in ToSet(acc) : Same(x, v) THEN acc ELSE Append(acc, v),
             <<>>, s)

\* Mutant: one element too many is taken.
OpMakeOneMore ==
    /\ At({"MkArr", "MkTup", "MkSet"})
    /\ LET data == Sp - Fetched.a
       IN /\ stk' = [stk EXCEPT ![data] = Made(Fetched.op, SubSeq(stk, data, Sp))]
          /\ regs' = [sp |-> Sp, fp |-> Top.fp]
          /\ SetTop(Moved(data, Next1))
          /\ UNCHANGED <<frames, globals, out>>

\* The containers, whose keys are looked at.  MkMap takes pairs that overlap:
\* elements 1 and 2, 2 and 3.
OpMake ==
    /\ At({"MkArr", "MkTup", "MkSet", "MkMap"})
    /\ LET n == Fetched.a
           size == IF Fetched.op = "MkMap" THEN 2 * n ELSE n
           data == Sp - size + 1
           elems == [k \in 1 .. size |-> stk[data + k - 1]]
           pairs == [k \in 1 .. n |-> <<elems[k], elems[k + 1]>>]
           keys == CASE Fetched.op = "MkSet" -> ToSet(elems)
                     [] Fetched.op = "MkMap" -> {elems[k] : k \in 1 .. n}
                     [] OTHER -> {}
           last(k) == \A j \in k + 1 .. n : ~ Same(elems[j], elems[k])
           made == CASE Fetched.op = "MkArr" -> Made("array", elems)
                     [] Fetched.op = "MkTup" -> Made("tuple", elems)
                     [] Fetched.op = "MkSet" -> Made("set", Distinct(elems))
                     [] Fetched.op = "MkMap" ->
                            Made("map", [k \in {j \in 1 .. n : last(j)} |-> pairs[k]])
       IN IF data < Top.fp THEN RaiseHere
          ELSE IF Junk \in keys THEN Stray
          ELSE \/ MeetsStale(Sp)
               \/ /\ \E s \in Allocated(Sp) : stk' = [s EXCEPT ![data] = made]
                  /\ regs' = [sp |-> IF Fetched.op \in {"MkSet", "MkMap"} THEN Sp + 1 ELSE Sp,
                              fp |-> Top.fp]
                  /\ SetTop(Moved(data, Next1))
                  /\ UNCHANGED <<frames, globals, out>>

-----------------------------------------------------------------------------
\* Calls.

\* op_Call_1: a frame is entered, then the callee is looked at.  Too few
\* arguments for a native function with optional ones fail an assertion.
Call(argc, noret, ip) ==
    LET callee == stk[Sp - argc]
        frame == [noret |-> noret, argl |-> Sp - argc + 1, pfp |-> Top.fp, pip |-> ip]
        entered == Append(frames, frame)
        spec == Natives[callee.name]
    IN CASE IsFunction(callee) /\ argc = callee.argc ->
                /\ frames' = entered
                /\ SetTop([Top EXCEPT !.fp = Sp + 1, !.fn = callee, !.wait = "run",
                                      !.ip = [code |-> callee.code, at |-> 1]])
                /\ UNCHANGED <<stk, regs, globals, out>>
         [] callee.k = "cfunc" /\ argc = spec.argc ->
                /\ frames' = entered
                /\ regs' = [sp |-> Sp, fp |-> Sp + 1]
                /\ SetTop([Top EXCEPT !.fp = Sp + 1, !.wait = "native", !.ip = ip])
                /\ UNCHANGED <<stk, globals, out>>
         [] callee.k = "cfunc" /\ argc < spec.argc /\ argc + spec.oarg >= spec.argc -> Undefine
         [] OTHER ->
                IF callee = Junk THEN Stray
                ELSE RaiseNew(IF callee.k \in {"func", "cfunc"} THEN regs.sp ELSE Sp, entered)

\* The first call of an invocation: ip is NULL.
Start == Running /\ Top.wait = "start" /\ Call(Top.argc, FALSE, NULL)

OpCall ==
    /\ At({"Call", "CallDrop"})
    /\ Call(Fetched.a, Fetched.op = "CallDrop", [Top.ip EXCEPT !.at = Next1])

\* Mutant: the callee's place is left out, so that the result lands below it.
GoOnBelow(s, frame, v) ==
    LET caller == s[Last(Front(frames)).argl - 1]
    IN IF caller = Junk THEN Stray
       ELSE IF ~ IsFunction(caller) THEN Undefine
       ELSE /\ frames' = Front(frames)
            /\ stk' = IF frame.noret THEN s ELSE [s EXCEPT ![frame.argl - 2] = v]
            /\ SetTop([Top EXCEPT !.sp = frame.argl - 2, !.fp = frame.pfp, !.ip = frame.pip,
                                  !.fn = caller])
            /\ UNCHANGED <<regs, globals, out>>

\* The caller goes on: the function it executes is read from the stack and
\* looked at.
GoOn(s, frame, v) ==
    LET sp == IF frame.noret THEN frame.argl - 2 ELSE frame.argl - 1
        caller == s[Last(Front(frames)).argl - 1]
    IN IF caller = Junk THEN Stray
       ELSE IF ~ IsFunction(caller) THEN Undefine
       ELSE /\ frames' = Front(frames)
            /\ stk' = IF frame.noret THEN s ELSE [s EXCEPT ![sp] = v]
            /\ SetTop([Top EXCEPT !.sp = sp, !.fp = frame.pfp, !.ip = frame.pip, !.fn = caller])
            /\ UNCHANGED <<regs, globals, out>>

\* Mutant: the registers are not written back at the end of an invocation.
LeaveUncommitted(v) ==
    LET frame == Last(frames)
    IN IF frame.pip # NULL THEN GoOn(stk, frame, v)
       ELSE /\ frames' = Front(frames)
            /\ UNCHANGED <<stk, regs, globals>>
            /\ Deliver(Front(acts), TRUE, v)

\* op_Ret_2
Leave(v) ==
    LET frame == Last(frames)
    IN IF frame.pip # NULL THEN GoOn(stk, frame, v)
       ELSE /\ frames' = Front(frames)
            /\ regs' = [sp |-> frame.argl - 2, fp |-> frame.pfp]
            /\ UNCHANGED <<stk, globals>>
            /\ Deliver(Front(acts), TRUE, v)

OpReturn ==
    \/ At({"Ret"}) /\ Leave(Slot(0))
    \/ At({"RetNil"}) /\ Leave(Nil)
    \/ /\ At({"RetLoc"})
       /\ IF Top.fp + Fetched.a > Sp THEN RaiseHere
          ELSE Leave(stk[Top.fp + Fetched.a])

\* A function whose code does not end in a return.
RunOff == Running /\ Top.wait = "run" /\ Top.ip.at \notin DOMAIN Top.ip.code /\ Undefine
Overflow == acts # <<>> /\ out = NULL /\ Sp >= StackSize - 2 /\ Undefine

-----------------------------------------------------------------------------
\* Native functions and imports.

\* The end of a native function that left its stack pointer at sp: status is
\* -1 with an exception on top, 0, or 1 with a value on top.
NativeReturn(s, sp, status) ==
    LET frame == Last(frames)
        v == IF status = 0 THEN Nil ELSE s[sp]
        down == frame.noret \/ frame.pip = NULL
        newsp == IF down THEN frame.argl - 2 ELSE frame.argl - 1
        put == IF down THEN s ELSE [s EXCEPT ![newsp] = v]
    IN IF frame.pip = NULL
       THEN /\ stk' = put /\ frames' = Front(frames)
            /\ regs' = [sp |-> newsp, fp |-> frame.pfp]
            /\ Deliver(Front(acts), status >= 0, v)
       ELSE IF status < 0 THEN Raise([put EXCEPT ![newsp + 1] = v], Front(frames))
       ELSE /\ stk' = put /\ frames' = Front(frames)
            /\ regs' = [regs EXCEPT !.sp = sp]
            /\ SetTop([Top EXCEPT !.sp = newsp, !.fp = frame.pfp, !.wait = "run", !.got = NULL])
            /\ UNCHANGED out

\* The called native function, and what it does.
InNative(does) ==
    /\ Running /\ Top.wait = "native" /\ Top.got = NULL
    /\ Natives[stk[Last(frames).argl - 1].name].does = does

NativeNothing == InNative("nothing") /\ NativeReturn(stk, regs.sp, 0) /\ UNCHANGED globals
NativeValue ==
    /\ InNative("value")
    /\ NativeReturn([stk EXCEPT ![regs.sp + 1] = SmallInt(1)], regs.sp + 1, 1)
    /\ UNCHANGED globals
NativeRaise ==
    /\ InNative("raise")
    /\ \/ MeetsStale(regs.sp)
       \/ /\ \E s \in Allocated(regs.sp) : NativeReturn([s EXCEPT ![regs.sp + 1] = Exc], regs.sp + 1, -1)
          /\ UNCHANGED globals

\* ow_machine_invoke() of v with no arguments, from C.
Invoke(s, sp, fp, v) ==
    /\ stk' = [s EXCEPT ![sp + 1] = v]
    /\ regs' = [sp |-> sp + 1, fp |-> fp]
    /\ UNCHANGED frames

\* A native function that calls its argument with owiz_invoke() and returns
\* what that gives.
NativeApply ==
    /\ InNative("apply")
    /\ Invoke(stk, regs.sp, regs.fp, stk[Last(frames).argl])
    /\ acts' = Append(acts, Activation(regs.sp + 1, regs.fp, 0))
    /\ UNCHANGED <<globals, out>>
NativeApplied ==
    /\ Running /\ Top.wait = "native" /\ Top.got # NULL
    /\ NativeReturn([stk EXCEPT ![regs.sp + 1] = Top.got.v], regs.sp + 1,
                    IF Top.got.ok THEN 1 ELSE -1)
    /\ UNCHANGED globals

\* LdMod: ow_module_manager_load() and ow_machine_run().  The module is pushed
\* in the local registers only, the initializer by the committed ones.
Importing == [Top EXCEPT !.sp = Sp + 1, !.wait = "import"]
OpLdMod ==
    /\ At({"LdMod"})
    /\ LET name == Symbol
           known == name \in DOMAIN globals
           mods == IF known THEN globals ELSE globals @@ (name :> Library[name])
           init == GlobalY(mods[name], Anon)
           pushed(s) == [s EXCEPT ![Sp + 1] = ModObj(name)]
       IN IF ~ HasSymbol \/ name \notin DOMAIN globals \cup DOMAIN Library THEN RaiseHere
          ELSE \/ ~ known /\ MeetsStale(regs.sp)
               \/ /\ globals' = mods
                  /\ \E s \in (IF known THEN {stk} ELSE Allocated(regs.sp)) :
                        IF init \in {NULL, Nil}
                        THEN stk' = pushed(s) /\ Goto(Sp + 1, Next1)
                        ELSE /\ Invoke(pushed(s), regs.sp, regs.fp, init)
                             /\ acts' = Append([acts EXCEPT ![Len(acts)] = Importing],
                                               Activation(regs.sp + 1, regs.fp, 0))
                             /\ out' = out

Imported ==
    /\ Running /\ Top.wait = "import" /\ Top.got # NULL
    /\ IF Top.got.ok
       THEN /\ globals' = [globals EXCEPT ![Symbol] = WithGlobal(@, Anon, Nil)]
            /\ SetTop([Moved(Sp, Next1) EXCEPT !.wait = "run", !.got = NULL])
            /\ UNCHANGED <<stk, regs, frames, out>>
       ELSE Raise(stk, frames) /\ UNCHANGED globals

-----------------------------------------------------------------------------
\* ow_callstack_init()
MachineInit ==
    /\ stk = [k \in 1 .. StackSize |-> Nil]
    /\ regs = [sp |-> 0, fp |-> 1]
    /\ frames = <<>> /\ acts = <<>> /\ out = NULL

Step ==
    \/ OpStack \/ OpLoad \/ OpConstant \/ OpLdFlt \/ OpArg \/ OpLocal \/ OpGlobal
    \/ OpArith \/ OpCompare \/ OpUnary \/ OpNot \/ OpJump \/ OpAttr \/ OpElem \/ OpPrepMeth \/ OpMake
    \/ Start \/ OpCall \/ OpReturn \/ RunOff \/ Overflow
    \/ NativeNothing \/ NativeValue \/ NativeRaise \/ NativeApply \/ NativeApplied
    \/ OpLdMod \/ Imported

\* The host calls what it pushes.
HostInvoke(v) ==
    /\ acts = <<>> /\ out = NULL
    /\ Invoke(stk, regs.sp, regs.fp, v)
    /\ acts' = <<Activation(regs.sp + 1, regs.fp, 0)>>
    /\ UNCHANGED <<globals, out>>

\* Whatever else it does with the stack and the modules while no invocation is
\* under way.
Host ==
    /\ acts = <<>> /\ out' = NULL
    /\ regs' \in [sp : Int, fp : Int]
    /\ UNCHANGED <<frames, acts>>

\* A process that failed is started again.
Reboot ==
    /\ out # NULL
    /\ stk' = [k \in 1 .. StackSize |-> Nil]
    /\ regs' = [sp |-> 0, fp |-> 1]
    /\ frames' = <<>> /\ acts' = <<>> /\ out' = NULL

\* The interpreter under any host and with functions of any code.
MachineNext == Step \/ HostInvoke(stk'[regs.sp + 1]) \/ Host \/ Reboot
MachineSpec == MachineInit /\ [][MachineNext]_machineVars

-----------------------------------------------------------------------------
\* Properties.

\* However an invocation ends, by a return, an exception that unwinds any
\* number of frames, or a native function's failure, the committed registers
\* and the frames are those from before the callee and arguments were pushed.
InvocationRestores ==
    [][out = NULL /\ Len(acts') < Len(acts) =>
        regs' = Top.base /\ Len(frames') = Top.depth]_machineVars

\* At every instruction the part of the stack above the frame is as deep as
\* bytecode.md's stack-change column makes it, and code is left by returning.
StackAsDocumented ==
    Running /\ Top.wait = "run" /\ Documented(Top.ip.code) =>
        /\ Executing
        /\ Sp - Top.fp + 1 \in Depths(Top.ip.code)[Top.ip.at]

\* No instruction, call, return, native function or exception writes below the
\* callee of the current frame, where the values of the callers are; a
\* collection alone may take an object there.  LdMod pushes the module's
\* initializer where the stack ended at the last commit.
CallersKept ==
    [][/\ Running /\ frames # <<>> /\ ~ At({"LdMod"})
       /\ Top.wait = "run" => Documented(Top.ip.code)
       => \A k \in DOMAIN stk : k < Last(frames).argl - 1 => stk'[k] \in {stk[k], Junk}]_machineVars
=============================================================================
