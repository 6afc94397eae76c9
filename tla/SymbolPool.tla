------------------------------ MODULE SymbolPool ------------------------------
(***************************************************************************)
(* The symbol pool of objects/symbolobj.c: a hash map that holds each      *)
(* symbol weakly, next to a full collection of objects/objmem.c, which     *)
(* drops dead symbols from the pool, finds the living ones new places,     *)
(* updates the references and moves the symbols.  A collection may come    *)
(* between the look-up of a symbol that is not there and its insertion.    *)
(*                                                                         *)
(* An address is a place in the old space or, for symbols too long for it, *)
(* in the big space, where nothing moves.  All symbols are old, so that    *)
(* a fast collection visits the pool without effect.                       *)
(***************************************************************************)
EXTENDS Integers, FiniteSets, SequencesExt, FiniteSetsExt

CONSTANTS
    Strings,
    Long,      \* the strings whose symbols go to the big space
    BucketOf,  \* strings to buckets
    Places     \* places in each space

ASSUME PoolAssumption ==
    /\ Long \subseteq Strings
    /\ Places \in Nat \ {0}
    /\ DOMAIN BucketOf = Strings

Buckets == {BucketOf[s] : s \in Strings}
Small == 1 .. Places
Big == Places + 1 .. 2 * Places
Addr == Small \cup Big

VARIABLES
    heap,     \* address to the string of the symbol there
    pool,     \* bucket to a chain of addresses
    held,     \* addresses the program refers to
    wanted,   \* the string of an ow_symbol_obj_new() under way, if any, in a set
    gc,       \* the step a full collection has reached
    live,     \* marked symbols (MRK)
    fwd       \* new places (PTR)

vars == <<heap, pool, held, wanted, gc, live, fwd>>

Init ==
    /\ heap = <<>>
    /\ pool = [b \in Buckets |-> <<>>]
    /\ held = {} /\ wanted = {} /\ gc = "none" /\ live = {} /\ fwd = <<>>

-----------------------------------------------------------------------------
\* Mutant: only the head of the chain is compared.
FoundHead(s) ==
    LET chain == pool[BucketOf[s]]
    IN {chain[k] : k \in {j \in DOMAIN chain : j = 1 /\ heap[chain[j]] = s}}

\* ow_symbol_pool_find(): the first symbol of the chain with the string, in a
\* set that is empty if there is none.
Found(s) ==
    LET chain == pool[BucketOf[s]]
        at == {k \in DOMAIN chain : heap[chain[k]] = s}
    IN IF at = {} THEN {} ELSE {chain[Min(at)]}

\* ow_symbol_obj_new() of a symbol that is there.
FindSymbol(s) ==
    /\ gc = "none" /\ wanted = {}
    /\ \E a \in Found(s) : held' = held \cup {a}
    /\ UNCHANGED <<heap, pool, wanted, gc, live, fwd>>

\* ow_symbol_obj_new() of one that is not: the allocation may collect.
MissSymbol(s) ==
    /\ gc = "none" /\ wanted = {}
    /\ Found(s) = {}
    /\ wanted' = {s}
    /\ UNCHANGED <<heap, pool, held, gc, live, fwd>>

Free(s) == (IF s \in Long THEN Big ELSE Small) \ DOMAIN heap

\* The rest of ow_symbol_obj_new(): ow_symbol_pool_add() at the end of the
\* chain, without another look.
AddSymbol ==
    /\ gc = "none"
    /\ \E s \in wanted :
        /\ Free(s) # {}
        /\ LET a == Min(Free(s))
           IN /\ heap' = [x \in DOMAIN heap \cup {a} |-> IF x = a THEN s ELSE heap[x]]
              /\ pool' = [pool EXCEPT ![BucketOf[s]] = Append(@, a)]
              /\ held' = held \cup {a}
    /\ wanted' = {}
    /\ UNCHANGED <<gc, live, fwd>>

\* The program forgets a symbol.
Forget(a) ==
    /\ gc = "none" /\ wanted = {}
    /\ held' = held \ {a}
    /\ UNCHANGED <<heap, pool, wanted, gc, live, fwd>>

-----------------------------------------------------------------------------
\* gc_full(), as far as symbols are concerned.

\* 1: reachable symbols are marked.
Mark ==
    /\ gc = "none" /\ DOMAIN heap # {}
    /\ live' = held /\ gc' = "marked"
    /\ UNCHANGED <<heap, pool, held, wanted, fwd>>

Chained == UNION {ToSet(pool[b]) : b \in Buckets}

\* 2: ow_symbol_pool_weak_refs_visitor() with FINI; the unmarked symbols are
\* gathered, then removed one by one: ow_hashmap_remove() takes the symbol out
\* of the chain of its string.
CleanPool ==
    /\ gc = "marked"
    /\ \/ \E a \in Chained \ live :
            LET b == BucketOf[heap[a]]
            IN \E k \in DOMAIN pool[b] :
                /\ pool[b][k] = a
                /\ pool' = [pool EXCEPT ![b] = RemoveAt(@, k)]
                /\ gc' = gc
       \/ Chained \subseteq live /\ gc' = "cleaned" /\ pool' = pool
    /\ UNCHANGED <<heap, held, wanted, live, fwd>>

\* 3: dead symbols go, the small ones that live get places from the start of
\* the old space, in order.
Realloc ==
    /\ gc = "cleaned"
    /\ heap' = [a \in live |-> heap[a]]
    /\ fwd' = [a \in live |-> IF a \in Big THEN a
                              ELSE Cardinality({x \in live \cap Small : x <= a})]
    /\ gc' = "placed"
    /\ UNCHANGED <<pool, held, wanted, live>>

\* Mutant: the pool is not told of the new places.
UpdateRefsNoPool ==
    /\ gc = "placed"
    /\ held' = {fwd[a] : a \in held}
    /\ gc' = "updated"
    /\ UNCHANGED <<heap, pool, wanted, live, fwd>>

\* Mutant: the program is not told of them.
UpdateRefsPoolOnly ==
    /\ gc = "placed"
    /\ pool' = [b \in Buckets |-> [k \in DOMAIN pool[b] |-> fwd[pool[b][k]]]]
    /\ gc' = "updated"
    /\ UNCHANGED <<heap, held, wanted, live, fwd>>

\* 4: the references of the program and, with MOVE, those of the pool.
UpdateRefs ==
    /\ gc = "placed"
    /\ held' = {fwd[a] : a \in held}
    /\ pool' = [b \in Buckets |-> [k \in DOMAIN pool[b] |-> fwd[pool[b][k]]]]
    /\ gc' = "updated"
    /\ UNCHANGED <<heap, wanted, live, fwd>>

\* 5: the symbols move.
MoveSymbols ==
    /\ gc = "updated"
    /\ heap' = [x \in {fwd[a] : a \in live} |-> heap[CHOOSE a \in live : fwd[a] = x]]
    /\ live' = {} /\ fwd' = <<>> /\ gc' = "none"
    /\ UNCHANGED <<pool, held, wanted>>

Next ==
    \/ \E s \in Strings : FindSymbol(s) \/ MissSymbol(s)
    \/ AddSymbol
    \/ \E a \in held : Forget(a)
    \/ Mark \/ CleanPool \/ Realloc \/ UpdateRefs \/ MoveSymbols

Spec == Init /\ [][Next]_vars

-----------------------------------------------------------------------------
\* Properties.

\* Two symbols the program holds are the same object exactly when they are
\* the same string: comparing pointers compares symbols.
SymbolsUnique ==
    gc = "none" => \A a, b \in held : heap[a] = heap[b] => a = b

\* Outside a collection the pool refers to symbols that exist, each once and
\* in the chain of its string, and to every symbol the program holds.
PoolSound ==
    gc = "none" =>
        /\ held \subseteq Chained /\ Chained \subseteq DOMAIN heap
        /\ \A b \in Buckets : IsInjective(pool[b]) /\
            \A k \in DOMAIN pool[b] : BucketOf[heap[pool[b][k]]] = b

\* Through a collection the program's references lead to the same strings, and
\* none is lost.
HeldKept ==
    [][gc = "updated" =>
        held' \subseteq DOMAIN heap' /\ {heap[a] : a \in live} = {heap'[a] : a \in held'}]_vars
=============================================================================
