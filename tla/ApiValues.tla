----------------------------- MODULE ApiValues -----------------------------
(***************************************************************************)
(* The objects that the C API (include/owiz.h) moves between a client and  *)
(* the machine, reduced to what the API functions tell apart: the class of *)
(* an object, the number of arguments of a native function, and what a     *)
(* container holds.  Containers hold atoms only (a bound of the model).    *)
(***************************************************************************)
EXTENDS Integers, Sequences

\* The status codes of owiz.h; 0 is success.
ErrFail == -1
ErrArg == -2
ErrIndex == -3
ErrType == -4

Atom(k) == [k |-> k, n |-> 0, of |-> <<>>]

None == Atom("none")          \* a NULL pointer: no object
Nil == Atom("nil")
Num == Atom("num")            \* a small integer: not an object with a class
Str == Atom("str")
Sym == Atom("sym")
Exc == Atom("exc")
Mod == Atom("module")         \* the client's own module

\* A native function of n arguments, none of them optional.
Func(n) == [k |-> "func", n |-> n, of |-> <<>>]

Atoms == {Nil, Num, Str, Sym, Exc, Mod} \cup [k : {"func"}, n : Nat, of : {<<>>}]

ContainerKinds == {"array", "tuple", "set", "map"}

Container(k, of) == [k |-> k, n |-> 0, of |-> of]

Value == Atoms \cup [k : ContainerKinds, n : {0}, of : Seq(Atoms)]

IsContainer(v) == v.k \in ContainerKinds

\* How many cells one element of a container takes when it is built.
Width(k) == IF k = "map" THEN 2 ELSE 1

\* Where in it the keys of a set or a map are.  Keys are equal when they are
\* the same object (no builtin class has a __cmp__ method), and of these
\* classes equal atoms of the model are the same object.
IdentityAtoms == {Nil, Num, Sym, Mod}

Positions(v) ==
    {j \in 1 .. Len(v.of) + 1 - Width(v.k) : (j - 1) % Width(v.k) = 0}

\* Its entries: of equal keys, the one that was set last.
Latest(v) ==
    {j \in Positions(v) : \A i \in Positions(v) : v.of[i] = v.of[j] => i <= j}

\* The orders in which the entries may be visited.
Orders(v) ==
    {e \in UNION {[1 .. n -> Latest(v)] : n \in 0 .. Len(v.of)} :
        /\ {e[i] : i \in DOMAIN e} = Latest(v)
        /\ \A i, j \in DOMAIN e : e[i] = e[j] => i = j}

\* What visiting them in that order yields: the keys, a map's with their values.
Entries(v, e) ==
    IF v.k = "map"
    THEN [i \in 1 .. 2 * Len(e) |->
            IF i % 2 = 1 THEN v.of[e[(i + 1) \div 2]] ELSE v.of[e[i \div 2] + 1]]
    ELSE [i \in 1 .. Len(e) |-> v.of[e[i]]]
=============================================================================
