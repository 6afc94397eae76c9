------------------------------- MODULE CApi -------------------------------
(***************************************************************************)
(* The C API: the functions of toplevels/api.c that a host program, or a   *)
(* native function that the machine is running, calls on the machine's     *)
(* call stack (machine/stack.h), down to the registers sp and fp and the   *)
(* frame infos.                                                            *)
(*                                                                         *)
(* A call is identified with its depth: the host has depth 0, frame info   *)
(* number d belongs to depth d.  The client is arbitrary: in every state   *)
(* it may call any function whose assertions hold.  Functions it invokes   *)
(* are native, so that entering one hands control back to the client until *)
(* it returns.                                                             *)
(***************************************************************************)
EXTENDS ApiValues, FiniteSets

CONSTANTS
    StackSize,    \* sysparam stack_size: cells of the call stack
    MaxDepth,     \* bound: nested native calls
    MaxVals,      \* bound: values that a call holds
    MaxCount,     \* bound: counts and indices that the client passes
    MaxElems,     \* bound: elements it asks a container to be made of
    MaxAt,        \* bound: the first cells, which containers are made in
    MaxMade,      \* bound: containers on the stack at a time
    MaxMark,      \* bound: values that a call holds when it saves a jump buffer
    Pushable,     \* the atoms that the client pushes
    Made,         \* bound: the kinds of containers that it makes
    Elems,        \* bound: the atoms that it puts in them
    Storable,     \* bound: the values that it stores in each module variable
    Names,        \* names of module variables
    Main,         \* the name of a module's main function
    InitGlobals,  \* the module's variables at first
    Base,         \* the variables of the base module
    Formats       \* the format strings given to owiz_read_args()

ASSUME StackAssumption == StackSize \in Nat
\* Containers are asked for with counts among those of the other functions.
ASSUME BoundsAssumption ==
    /\ {MaxDepth, MaxVals, MaxCount, MaxElems, MaxAt, MaxMade, MaxMark} \subseteq Nat
    /\ MaxElems <= MaxCount
ASSUME ValuesAssumption ==
    /\ Pushable \subseteq Atoms /\ Elems \subseteq Atoms
    /\ Made \subseteq ContainerKinds
    /\ Main \in Names
    /\ InitGlobals \in [Names -> Value \cup {None}]
    /\ Base \in [Names -> Value \cup {None}]

VARIABLES
    stk,       \* the cells up to sp; sp = Len(stk)
    fp,        \* the cell of the current call's first value
    frames,    \* frame_info_list, innermost last
    jb,        \* a jump buffer of each call; the host saves its own at once
    globals,   \* the variables of the client's module
    ret,       \* what the last finished API call returned or reported
    up         \* FALSE once an assertion has aborted the process

Index == -MaxCount .. MaxCount
Count == 0 .. MaxCount

vars == <<stk, fp, frames, jb, globals, ret, up>>

sp == Len(stk)
Depth == Len(frames)

\* arg_list of the current frame: the cell of the first argument.
arg_list == frames[Depth].argl

NoJmp == [sp |-> 0, fp |-> 0, fi |-> 0]

Init ==
    /\ stk = <<>>
    /\ fp = 1
    /\ frames = <<>>
    /\ jb = <<[sp |-> 0, fp |-> 1, fi |-> 0]>>
    /\ globals = InitGlobals
    /\ ret = 0
    /\ up = TRUE

-----------------------------------------------------------------------------
(* Writing the stack. *)

\* The stack cut to its first n cells, with the cells vs pushed onto them.
Put(n, vs) ==
    [i \in 1 .. n + Len(vs) |-> IF i <= n THEN stk[i] ELSE vs[i - n]]

\* The top popped into cell p.
PopTo(p) == [i \in 1 .. sp - 1 |-> IF i = p THEN stk[sp] ELSE stk[i]]

\* The machine does not check for overflow: the client keeps within the stack.
Room(n) == sp + n <= StackSize /\ sp + n < fp + MaxVals

Returns(r) == ret' = r

\* A call that leaves the current frame in place.
InFrame == UNCHANGED <<fp, frames, jb, up>>

PushAll(vs, r) ==
    /\ Room(Len(vs))
    /\ stk' = Put(sp, vs)
    /\ Returns(r)
    /\ InFrame /\ UNCHANGED globals

Fails(r) == Returns(r) /\ InFrame /\ UNCHANGED <<stk, globals>>

-----------------------------------------------------------------------------
(* Reading the stack. *)

\* Where index i of the current call lies: arguments are numbered -1, -2, ...
\* and values 1, 2, ...
Cell(i) == IF i < 0 THEN arg_list + (-i) - 1 ELSE fp + i - 1

InRange(i) == IF i < 0 THEN Cell(i) < fp ELSE Cell(i) <= sp

\* The assertions of _get_local(): there is a frame, a cell, or a value.
MayGet(i) ==
    /\ i < 0 => Depth > 0
    /\ i = 0 => sp >= 1
    /\ i > 0 => sp >= fp

_get_local(i) ==
    IF i = 0 THEN stk[sp] ELSE IF InRange(i) THEN stk[Cell(i)] ELSE None

HasValue == sp >= fp

Push(v) == PushAll(<<v>>, ret)

\* make_array, make_tuple, make_set, make_map: too large a count is cut down
\* to the values of the frame.
Make(k, count) ==
    LET first == sp - count * Width(k) + 1
        data == IF first < fp THEN fp ELSE first
        n == IF first < fp THEN (sp - data + 1) \div Width(k) ELSE count
        of == [i \in 1 .. n * Width(k) |-> stk[data + i - 1]]
        v == Container(k, of)
    IN  /\ \A i \in DOMAIN of : of[i] \in Elems
        /\ k \in {"set", "map"} => {of[j] : j \in Positions(v)} \subseteq IdentityAtoms
        /\ data <= StackSize /\ data <= MaxAt
        /\ Cardinality({i \in 1 .. sp : IsContainer(stk[i])}) < MaxMade
        /\ stk' = Put(data - 1, <<v>>)
        /\ Returns(ret)
        /\ InFrame /\ UNCHANGED globals

\* owiz_make_exception
MakeException == PushAll(<<Exc>>, 0)

\* owiz_make_module: a module, or the exception of a failed load or compilation,
\* pushed or (incremental) stored in the place of what is on top.
MakeModule(incr, ok) ==
    LET v == IF ok THEN Mod ELSE Exc
    IN  /\ incr => HasValue
        /\ Room(IF incr THEN 0 ELSE 1)
        /\ stk' = Put(IF incr THEN sp - 1 ELSE sp, <<v>>)
        /\ Returns(IF ok THEN 0 ELSE ErrFail)
        /\ InFrame /\ UNCHANGED globals

LoadLocal(i) ==
    /\ i < 0 => Depth > 0
    /\ IF i # 0 /\ InRange(i) THEN PushAll(<<stk[Cell(i)]>>, 0)
                              ELSE Fails(ErrIndex)

\* owiz_load_global: the module of the running function, then the base module.
LoadGlobal(n) ==
    /\ Depth > 0
    /\ \/ globals[n] # None /\ PushAll(<<globals[n]>>, 0)
       \/ globals[n] = None /\ Base[n] # None /\ PushAll(<<Base[n]>>, 0)
       \/ globals[n] = None /\ Base[n] = None /\ Fails(ErrIndex)

\* Only modules have attributes: no builtin class declares one.
LoadAttribute(i) ==
    /\ MayGet(i)
    /\ IF _get_local(i) # Mod
       THEN Fails(ErrIndex)
       ELSE \E n \in Names : IF globals[n] # None
                             THEN PushAll(<<globals[n]>>, 0) ELSE Fails(ErrIndex)

Dup(count) ==
    /\ HasValue
    /\ PushAll([i \in 1 .. count |-> stk[sp]], ret)

Swap ==
    /\ sp > fp
    /\ stk' = Put(sp - 2, <<stk[sp], stk[sp - 1]>>)
    /\ Returns(ret)
    /\ InFrame /\ UNCHANGED globals

-----------------------------------------------------------------------------
(* owiz_read_xxx: look at a value, possibly push what it holds. *)

\* The bytes of a string: what owiz_read_string_to() returns for it.
StrLen == 2

\* The statuses that reading index i as an atom of class k may yield.  A string
\* copied into a buffer reports its length, or that the buffer is too small.
Statuses(i, k) ==
    LET v == _get_local(i)
    IN  CASE v = None -> {ErrIndex}
          [] v # None /\ k = "str_to" ->
                IF v = Str THEN {StrLen, ErrFail} ELSE {ErrType}
          [] OTHER -> IF v.k = k THEN {0} ELSE {ErrType}

ScalarKinds == {"nil", "num", "sym", "str", "str_to"}

ReadScalar ==
    \E r \in UNION {Statuses(i, k) : i \in {j \in Index : MayGet(j)}, k \in ScalarKinds} :
        Fails(r)

\* read_array, read_tuple: element e, the length (e = 0) or everything (e = -1).
ReadElems(i, k) ==
    LET v == _get_local(i)
    IN  /\ MayGet(i)
        /\ CASE v = None -> Fails(ErrIndex)
             [] v # None /\ v.k # k -> Fails(ErrType)
             [] OTHER -> \E e \in -1 .. MaxCount :
                  \/ e \in 1 .. Len(v.of) /\ PushAll(<<v.of[e]>>, 0)
                  \/ e = 0 /\ Fails(Len(v.of))
                  \/ e = -1 /\ PushAll(v.of, Len(v.of))
                  \/ e > Len(v.of) /\ Fails(ErrFail)

\* read_set: the length (op = 0) or everything (op = -1).
ReadSet(i) ==
    LET v == _get_local(i)
    IN  /\ MayGet(i)
        /\ CASE v = None -> Fails(ErrIndex)
             [] v # None /\ v.k # "set" -> Fails(ErrType)
             [] OTHER -> \E op \in -1 .. 1, e \in Orders(v) :
                  \/ op = 0 /\ Fails(Len(e))
                  \/ op = -1 /\ PushAll(Entries(v, e), Len(e))
                  \/ op \notin {0, -1} /\ Fails(ErrArg)

\* read_map: the value under the key at index j, the length or everything.
ReadMap(i) ==
    LET v == _get_local(i)
    IN  /\ MayGet(i)
        /\ CASE v = None -> Fails(ErrIndex)
             [] v # None /\ v.k # "map" -> Fails(ErrType)
             [] OTHER ->
                  \/ \E j \in Index :
                        /\ MayGet(j)
                        /\ \/ \E p \in Latest(v) :
                                 /\ v.of[p] = _get_local(j)
                                 /\ PushAll(<<v.of[p + 1]>>, 0)
                           \/ /\ \A p \in Latest(v) : v.of[p] # _get_local(j)
                              /\ Fails(ErrFail)
                  \/ \E e \in Orders(v) :
                        Fails(Len(e)) \/ PushAll(Entries(v, e), Len(e))

\* read_exception: push the data of the exception (a string), or print it.
ReadException(i) ==
    LET v == _get_local(i)
    IN  /\ MayGet(i)
        /\ CASE v = None -> Fails(ErrIndex)
             [] v # None /\ v.k # "exc" -> Fails(ErrType)
             [] OTHER -> PushAll(<<Str>>, 0) \/ Fails(0)

-----------------------------------------------------------------------------
(* owiz_read_args() *)

\* The arguments that stop the reading: any status but 0 does, also the length
\* that a copied string reports; a nil may be accepted for any class.
Stops(fmt, ignil, st) ==
    {j \in DOMAIN fmt :
        /\ st[j] # 0
        /\ ~ (st[j] = ErrType /\ ignil /\ _get_local(-j) = Nil)}

ReadArgs(fmt, ignil, mkexc) ==
    /\ Depth > 0
    /\ \E st \in [DOMAIN fmt -> {0, StrLen, ErrFail, ErrArg, ErrIndex, ErrType}] :
        /\ \A j \in DOMAIN fmt :
              st[j] \in IF fmt[j] \in ScalarKinds THEN Statuses(-j, fmt[j])
                                                  ELSE {ErrArg}
        /\ \/ Stops(fmt, ignil, st) = {} /\ Fails(0)
           \/ \E j \in Stops(fmt, ignil, st) :
                /\ \A i \in Stops(fmt, ignil, st) : j <= i
                /\ \/ /\ mkexc /\ st[j] = ErrFail
                      /\ PushAll(<<Exc>>, ErrFail)
                   \/ /\ mkexc /\ st[j] = ErrType /\ _get_local(-j) # Num
                      /\ PushAll(<<Exc>>, ErrFail)
                   \/ \* The class of a small integer is asked for.
                      /\ mkexc /\ st[j] = ErrType /\ _get_local(-j) = Num
                      /\ up' = FALSE
                      /\ UNCHANGED <<stk, fp, frames, jb, globals, ret>>
                   \/ /\ ~ mkexc \/ st[j] \notin {ErrFail, ErrType}
                      /\ Fails(st[j])

\* The number of arguments, asked for with a NULL format and reported through a
\* pointer: one less than there are, and -1 (that is, UINT_MAX) when there are
\* none.
ReadArgc == Depth > 0 /\ Fails(fp - 1 - arg_list)

-----------------------------------------------------------------------------
(* owiz_store_xxx and owiz_drop: the client has a value to pop. *)

\* A store below the argument list.
StoreLocalBelow(i) ==
    LET p == IF i < 0 THEN arg_list + i ELSE Cell(i)
    IN  /\ HasValue
        /\ i < 0 => Depth > 0
        /\ IF i = 0 \/ p > sp \/ p < 1
           THEN Fails(ErrIndex)
           ELSE /\ stk' = PopTo(p)
                /\ Returns(0)
                /\ InFrame /\ UNCHANGED globals

\* owiz_store_local: argument -i is looked for one cell further than
\* owiz_load_local() finds it.
StoreLocal(i) ==
    LET p == IF i < 0 THEN arg_list + (-i) ELSE Cell(i)
        exists == i # 0 /\ (IF i < 0 THEN p < fp ELSE p <= sp)
    IN  /\ HasValue
        /\ i < 0 => Depth > 0
        /\ IF exists
           THEN /\ stk' = PopTo(p)
                /\ Returns(0)
                /\ InFrame /\ UNCHANGED globals
           ELSE Fails(ErrIndex)

StoreGlobal(n) ==
    /\ Depth > 0
    /\ HasValue /\ stk[sp] \in Storable[n] /\ Room(1)
    /\ globals' = [globals EXCEPT ![n] = stk[sp]]
    /\ stk' = Put(sp - 1, <<>>)
    /\ Returns(0)
    /\ InFrame

\* owiz_store_attribute: the value is popped even if there is no attribute.
StoreAttribute(i) ==
    LET obj == _get_local(i)
    IN  /\ MayGet(i)
        /\ HasValue /\ Room(1)
        /\ \/ obj = None /\ Fails(ErrIndex)
           \/ /\ obj = Mod
              /\ \E n \in Names :
                    /\ stk[sp] \in Storable[n]
                    /\ globals' = [globals EXCEPT ![n] = stk[sp]]
              /\ stk' = Put(sp - 1, <<>>)
              /\ Returns(0)
              /\ InFrame
           \/ /\ obj \notin {None, Mod}
              /\ stk' = Put(sp - 1, <<>>)
              /\ Returns(ErrIndex)
              /\ InFrame /\ UNCHANGED globals

\* A drop that trusts its count.
DropUnclamped(count) ==
    LET new == IF count < 0 \/ count > sp THEN fp - 1 ELSE sp - count
    IN  /\ stk' = Put(new, <<>>)
        /\ Returns(new - (fp - 1))
        /\ InFrame /\ UNCHANGED globals

\* owiz_drop: a count that is negative or too large empties the frame.
Drop(count) ==
    LET new == IF count < 0 \/ sp - count < fp - 1 THEN fp - 1 ELSE sp - count
    IN  /\ stk' = Put(new, <<>>)
        /\ Returns(new - (fp - 1))
        /\ InFrame /\ UNCHANGED globals

-----------------------------------------------------------------------------
(* owiz_invoke() and the return of a native function. *)

\* The Call of invoke_impl(), with the callee in cell p of the cells s and its
\* arguments above.  A native function of that many arguments gets a frame and
\* the processor; anything else raises an exception, which unwinds the new
\* frame at once and is pushed in the callee's place.
Call(s, p, noret) ==
    IF s[p] = Func(Len(s) - p)
    THEN /\ stk' = s
         /\ fp' = Len(s) + 1
         /\ frames' = Append(frames, [argl |-> p + 1, pfp |-> fp, noret |-> noret])
         /\ jb' = Append(jb, NoJmp)
         /\ UNCHANGED <<ret, up>>
    ELSE /\ stk' = Put(p - 1, <<Exc>>)
         /\ Returns(ErrFail)
         /\ InFrame

\* What owiz_invoke() asserts, and what it needs of the stack.
MayInvoke(argc) == sp >= fp + argc /\ sp < StackSize /\ Depth < MaxDepth

Invoke(argc, noret) ==
    /\ MayInvoke(argc)
    /\ Call(stk, sp - argc, noret)
    /\ UNCHANGED globals

\* OWIZ_IVK_METHOD: no builtin class has methods, so that a method is never
\* found: the exception saying so takes the place of the name, and calling it
\* fails.  A name that is not a symbol is not even popped.
InvokeMethod(argc, noret) ==
    /\ MayInvoke(argc) /\ argc > 0
    /\ IF stk[sp - argc] = Sym
       THEN Call([stk EXCEPT ![sp - argc] = Exc], sp - argc, noret)
       ELSE PushAll(<<Exc>>, ErrFail)
    /\ UNCHANGED globals

\* OWIZ_IVK_MODULE: the module stays on the stack.  Its initializer has run.
InvokeModule(main, noret) ==
    /\ MayInvoke(0)
    /\ CASE stk[sp] # Mod -> PushAll(<<Exc>>, ErrFail)
         [] stk[sp] = Mod /\ main /\ globals[Main] \notin {None, Nil} ->
                /\ Room(2)
                /\ Call(Put(sp, <<globals[Main]>>), sp + 1, noret)
         [] OTHER -> PushAll(IF noret THEN <<>> ELSE <<Nil>>, 0)
    /\ UNCHANGED globals

\* A return that leaves the callee on the stack.
ReturnOnTop(status) ==
    LET v == IF status = 0 THEN Nil ELSE stk[sp]
        f == frames[Depth]
    IN  /\ Depth > 0
        /\ fp' = f.pfp
        /\ stk' = Put(f.argl - 1, IF status < 0 \/ ~ f.noret THEN <<v>> ELSE <<>>)
        /\ frames' = SubSeq(frames, 1, Depth - 1)
        /\ jb' = SubSeq(jb, 1, Depth)
        /\ Returns(IF status < 0 THEN ErrFail ELSE 0)
        /\ UNCHANGED <<globals, up>>

\* A native function returns 1 with a value, 0 for nil, -1 with an exception:
\* invoke_impl() unwinds its frame with the callee and the arguments, and
\* owiz_invoke() pushes the result.
Return(status) ==
    LET v == IF status = 0 THEN Nil ELSE stk[sp]
        f == frames[Depth]
    IN  /\ Depth > 0
        /\ fp' = f.pfp
        /\ stk' = Put(f.argl - 2, IF status < 0 \/ ~ f.noret THEN <<v>> ELSE <<>>)
        /\ frames' = SubSeq(frames, 1, Depth - 1)
        /\ jb' = SubSeq(jb, 1, Depth)
        /\ Returns(IF status < 0 THEN ErrFail ELSE 0)
        /\ UNCHANGED <<globals, up>>

-----------------------------------------------------------------------------
(* owiz_setjmp() and owiz_longjmp(), together with the client's own jump. *)

Setjmp ==
    /\ sp < fp + MaxMark
    /\ jb' = [jb EXCEPT ![Depth + 1] = [sp |-> sp, fp |-> fp, fi |-> Depth]]
    /\ UNCHANGED <<stk, fp, frames, globals, ret, up>>

\* The tests of ow_machine_longjmp().  The host has no frame info: a buffer it
\* saved is never accepted.
Accepts(b) ==
    /\ b.fi # 0
    /\ b.sp <= sp /\ b.fp <= fp /\ b.sp >= b.fp - 1
    /\ b.fi <= Depth

Longjmp(d) ==
    LET b == jb[d + 1]
    IN  /\ b # NoJmp
        /\ IF Accepts(b)
           THEN /\ stk' = Put(b.sp, <<>>)
                /\ fp' = b.fp
                /\ frames' = SubSeq(frames, 1, b.fi)
                /\ jb' = SubSeq(jb, 1, b.fi + 1)
                /\ Returns(0)
                /\ UNCHANGED <<globals, up>>
           ELSE Fails(ErrFail)

-----------------------------------------------------------------------------

ClientPushes ==
    \/ \E v \in Pushable : Push(v)
    \/ \E k \in Made, n \in 0 .. MaxElems : Make(k, n)
    \/ MakeException
    \/ \E incr, ok \in BOOLEAN : MakeModule(incr, ok)
    \/ \E n \in Count : Dup(n)
    \/ Swap
    \/ \E i \in Index : LoadLocal(i)
    \/ \E n \in Names : LoadGlobal(n)
    \/ \E i \in Index : LoadAttribute(i)

ClientReads ==
    \/ ReadScalar
    \/ \E i \in Index, k \in {"array", "tuple"} : ReadElems(i, k)
    \/ \E i \in Index : ReadSet(i)
    \/ \E i \in Index : ReadMap(i)
    \/ \E i \in Index : ReadException(i)
    \/ \E fmt \in Formats, ignil, mkexc \in BOOLEAN : ReadArgs(fmt, ignil, mkexc)
    \/ ReadArgc

ClientStores ==
    \/ \E i \in Index : StoreLocal(i)
    \/ \E n \in Names : StoreGlobal(n)
    \/ \E i \in Index : StoreAttribute(i)
    \/ \E n \in -1 .. MaxCount : Drop(n)

ClientControls ==
    \/ \E argc \in Count, noret \in BOOLEAN : Invoke(argc, noret)
    \/ \E argc \in Count, noret \in BOOLEAN : InvokeMethod(argc, noret)
    \/ \E main, noret \in BOOLEAN : InvokeModule(main, noret)
    \/ \E status \in -1 .. 1 : Return(status)
    \/ Setjmp
    \/ \E d \in 0 .. Depth : Longjmp(d)

Next == up /\ (ClientPushes \/ ClientReads \/ ClientStores \/ ClientControls)

Spec == Init /\ [][Next]_vars

-----------------------------------------------------------------------------
(* Properties. *)

\* The frame base, and the last value, of the call at depth d.
FpOf(d) == IF d = Depth THEN fp ELSE frames[d + 1].pfp
EndOf(d) == IF d = Depth THEN sp ELSE frames[d + 1].argl - 2

TypeOK ==
    /\ stk \in Seq(Value) /\ sp <= StackSize
    /\ fp \in 1 .. sp + 1
    /\ frames \in Seq([argl : 2 .. StackSize + 1, pfp : 1 .. StackSize, noret : BOOLEAN])
    /\ jb \in Seq([sp : 0 .. StackSize, fp : 0 .. StackSize + 1, fi : Nat])
    /\ Len(jb) = Depth + 1
    /\ globals \in [Names -> Value \cup {None}]
    /\ ret \in Int
    /\ up \in BOOLEAN

\* Every call has a callee above the frame base of its caller, then its
\* arguments, then its own frame base.
Nested ==
    /\ FpOf(0) = 1
    /\ \A d \in 1 .. Depth :
          FpOf(d - 1) < frames[d].argl /\ frames[d].argl <= FpOf(d)

\* A saved buffer describes the call that saved it.
BuffersMatch ==
    \A d \in 0 .. Depth :
        \/ jb[d + 1] = NoJmp
        \/ /\ jb[d + 1].fi = d
           /\ jb[d + 1].fp = FpOf(d)
           /\ jb[d + 1].sp >= FpOf(d) - 1

\* The calls on the stack stay properly nested, whatever a client drops, makes
\* into one object, stores, invokes, returns or jumps to: no API function takes
\* sp below the frame base or out of the stack (the clamps of owiz_drop and
\* owiz_make_xxx), and a return or an accepted jump restores a frame base that
\* fits the frame infos that are left.
FramesNested == TypeOK /\ Nested /\ BuffersMatch

\* The first cell of the current call: that of the function it runs.
Own == IF Depth = 0 THEN 1 ELSE arg_list - 1

\* Whatever a native function does with the stack, returning and jumping
\* included (invoke.c, machine.c: ow_machine_longjmp), the cells of the calls
\* further out keep their contents.
CallerKept ==
    [][\A p \in 1 .. sp : p < Own /\ p < Own' => p <= sp' /\ stk'[p] = stk[p]]_vars

\* The call at depth d as the client sees it.
CallAt(d) ==
    [fn |-> IF d = 0 THEN None ELSE stk[frames[d].argl - 1],
     args |-> IF d = 0 THEN <<>> ELSE SubSeq(stk, frames[d].argl, FpOf(d) - 1),
     vals |-> SubSeq(stk, FpOf(d), EndOf(d)),
     mark |-> IF jb[d + 1] = NoJmp THEN -1 ELSE jb[d + 1].sp - jb[d + 1].fp + 1,
     noret |-> d > 0 /\ frames[d].noret]

Cur == CallAt(Depth)
Outer == [d \in 1 .. Depth |-> CallAt(d - 1)]

Abstract == INSTANCE ApiFrames WITH cur <- Cur, outer <- Outer

\* On one shared stack the API implements calls that each have a callee,
\* arguments and values of their own: no API call reads or disturbs those of
\* another, and returning or jumping back finds them as they were left.
IsFrames == Abstract!Spec
=============================================================================
