----------------------------- MODULE ApiFrames -----------------------------
(***************************************************************************)
(* What the C API promises its clients (include/owiz.h), without a shared  *)
(* stack: every call in progress has a callee, arguments and a sequence of *)
(* values of its own, and an API function works on those of the innermost  *)
(* call only.  Which of its values a reading function pushes is left to    *)
(* the detailed specification.                                             *)
(***************************************************************************)
EXTENDS ApiValues

CONSTANTS
    Names, InitGlobals, Base,   \* the variables of the module and of the base module
    Pushable,                   \* the atoms a client pushes
    Index, Count                \* the indices and counts it passes

VARIABLES
    cur,       \* the innermost call: [fn, args, vals, mark, noret]
    outer,     \* the calls that wait for it, outermost first
    globals,   \* the variables of the client's module
    ret,       \* what the last API call returned
    up

vars == <<cur, outer, globals, ret, up>>

\* mark: how many values the call had when it saved a jump buffer, or -1.
Call(fn, args, noret) ==
    [fn |-> fn, args |-> args, vals |-> <<>>, mark |-> -1, noret |-> noret]

Init ==
    /\ cur = [Call(None, <<>>, FALSE) EXCEPT !.mark = 0]
    /\ outer = <<>>
    /\ globals = InitGlobals
    /\ ret = 0
    /\ up = TRUE

Prefix(s, n) == SubSeq(s, 1, n)
Least(m, n) == IF m < n THEN m ELSE n

\* The values of the innermost call become vals.
Becomes(vals) == cur' = [cur EXCEPT !.vals = vals] /\ UNCHANGED outer

-----------------------------------------------------------------------------

\* What the innermost call can get hold of: fresh objects, its arguments and
\* values, what its containers hold, and the variables of the two modules.
Own == {cur.args[i] : i \in DOMAIN cur.args} \cup {cur.vals[i] : i \in DOMAIN cur.vals}
Held == Pushable \cup {Nil, Str, Exc, Mod} \cup Own
        \cup (UNION {{v.of[i] : i \in DOMAIN v.of} : v \in Own})
        \cup {globals[n] : n \in Names} \cup {Base[n] : n \in Names}

\* Pushing, loading and reading: the values so far stay, in their order, and
\* nothing comes from another call.
Pushes ==
    LET vals == cur'.vals
        n == Len(cur.vals)
    IN  /\ Len(vals) > n
        /\ Becomes(cur.vals \o SubSeq(vals, n + 1, Len(vals)))
        /\ \A i \in n + 1 .. Len(vals) : vals[i] \in Held
        /\ UNCHANGED <<globals, up>>

\* Making a container: it takes the place of its elements, of no more values
\* than the call has.
Makes(k, count) ==
    LET n == Least(count * Width(k), Len(cur.vals))
        m == Len(cur.vals) - n
        of == [i \in 1 .. n - (n % Width(k)) |-> cur.vals[m + i]]
    IN  /\ Becomes(Append(Prefix(cur.vals, m), Container(k, of)))
        /\ UNCHANGED <<globals, ret, up>>

\* An incremental owiz_make_module, and owiz_swap: the top is exchanged.
Replaces ==
    /\ cur.vals # <<>>
    /\ \/ \E v \in {Mod, Exc} :
             Becomes([cur.vals EXCEPT ![Len(cur.vals)] = v])
       \/ LET n == Len(cur.vals) IN
             /\ n > 1
             /\ Becomes([cur.vals EXCEPT ![n] = cur.vals[n - 1],
                                         ![n - 1] = cur.vals[n]])
    /\ UNCHANGED <<globals, up>>

\* owiz_store_local pops its value into value i, or into some argument: which
\* one is where the code departs from the header.
Stores(i) ==
    LET n == Len(cur.vals)
        v == cur.vals[n]
    IN  /\ n > 0
        /\ IF i > 0
           THEN i <= n /\ Becomes(Prefix([cur.vals EXCEPT ![i] = v], n - 1))
           ELSE \E j \in DOMAIN cur.args :
                   /\ cur' = [cur EXCEPT !.vals = Prefix(@, n - 1), !.args = [@ EXCEPT ![j] = v]]
                   /\ UNCHANGED outer
        /\ ret' = 0
        /\ UNCHANGED <<globals, up>>

\* owiz_store_global and owiz_store_attribute pop one value, which at most one
\* variable receives.
Assigns ==
    /\ cur.vals # <<>>
    /\ Becomes(Prefix(cur.vals, Len(cur.vals) - 1))
    /\ \/ \E n \in Names :
             /\ globals' = [globals EXCEPT ![n] = cur.vals[Len(cur.vals)]]
             /\ ret' = 0
       \/ globals' = globals /\ ret' = ErrIndex
    /\ UNCHANGED up

\* owiz_drop: of too many values, all; it returns how many are left.
Drops(count) ==
    LET rest == IF count \in 0 .. Len(cur.vals) THEN Len(cur.vals) - count ELSE 0
    IN  /\ Becomes(Prefix(cur.vals, rest))
        /\ ret' = rest
        /\ UNCHANGED <<globals, up>>

-----------------------------------------------------------------------------

\* owiz_invoke: the callee and the arguments leave the values of the caller,
\* whose other values wait; the callee starts with none.
Invokes(argc) ==
    LET n == Len(cur.vals) - argc
    IN  /\ n > 0
        /\ outer' = Append(outer, [cur EXCEPT !.vals = Prefix(@, n - 1)])
        /\ \E noret \in BOOLEAN :
              cur' = Call(cur.vals[n], SubSeq(cur.vals, n + 1, n + argc), noret)
        /\ UNCHANGED <<globals, ret, up>>

\* Running a module: the module stays, its main function is called.
Runs ==
    /\ cur.vals # <<>> /\ cur.vals[Len(cur.vals)] = Mod
    /\ outer' = Append(outer, cur)
    /\ \E noret \in BOOLEAN, n \in Names : cur' = Call(globals[n], <<>>, noret)
    /\ UNCHANGED <<globals, ret, up>>

\* What cannot be called is popped with its arguments, and an exception pushed.
Rejects(argc) ==
    /\ Len(cur.vals) > argc
    /\ Becomes(Append(Prefix(cur.vals, Len(cur.vals) - argc - 1), Exc))
    /\ ret' = ErrFail
    /\ UNCHANGED <<globals, up>>

\* A native function returns: the caller finds its values as they were, and on
\* top of them the result, unless it asked for none and there is no exception.
Returns(status) ==
    LET all == (<<cur.fn>> \o cur.args) \o cur.vals
        v == IF status = 0 THEN Nil ELSE all[Len(all)]
        n == Len(outer)
    IN  /\ n > 0
        /\ outer' = Prefix(outer, n - 1)
        /\ cur' = [outer[n] EXCEPT !.vals = IF status < 0 \/ ~ cur.noret
                                            THEN Append(@, v) ELSE @]
        /\ ret' = IF status < 0 THEN ErrFail ELSE 0
        /\ UNCHANGED <<globals, up>>

\* owiz_setjmp: remember how many values the call has.
Marks ==
    /\ cur' = [cur EXCEPT !.mark = Len(cur.vals)]
    /\ UNCHANGED <<outer, globals, ret, up>>

\* owiz_longjmp: the calls further in are over and the call has as many values
\* as it had, those it did not drop in between unchanged.  What the others are
\* is not promised.
Jumps(d) ==
    LET to == IF d > Len(outer) THEN cur ELSE outer[d]
        vals == cur'.vals
    IN  /\ d > 1 /\ to.mark >= 0
        /\ outer' = Prefix(outer, d - 1)
        /\ cur' = [to EXCEPT !.vals = vals]
        /\ Len(vals) = to.mark
        /\ \A i \in 1 .. Least(Len(vals), Len(to.vals)) : vals[i] = to.vals[i]
        /\ ret' = 0
        /\ UNCHANGED <<globals, up>>

\* A rejected request, or the assertion that a small integer has a class.
Reports == UNCHANGED <<cur, outer, globals, up>>
Aborts == up' = FALSE /\ UNCHANGED <<cur, outer, globals, ret>>

-----------------------------------------------------------------------------
InCall ==
    \/ Reports \/ Pushes \/ Assigns \/ Replaces \/ Marks \/ Aborts
    \/ \E n \in Count \cup {-1} : Drops(n)
    \/ \E i \in Index : Stores(i)
    \/ \E n \in Count : Rejects(n)
    \/ \E k \in ContainerKinds, n \in Count : Makes(k, n)

Next ==
    /\ up
    /\ \/ UNCHANGED outer /\ InCall
       \/ Runs
       \/ \E n \in Count : Invokes(n)
       \/ \E status \in -1 .. 1 : Returns(status)
       \/ \E d \in 1 .. Len(outer) + 1 : Jumps(d)

Spec == Init /\ [][Next]_vars
=============================================================================
