------------------------------- MODULE HashMap -------------------------------
(***************************************************************************)
(* The hash map of utilities/hashmap.c: an array of buckets, each a chain  *)
(* of nodes.  It holds every name table of the machine (symbols, globals,  *)
(* attributes and methods, the objects of class Map).                      *)
(*                                                                         *)
(* A map is a record [size, buckets]; _bucket_count is Len(buckets).  The  *)
(* functions are pure operators on maps; an action is one call.            *)
(***************************************************************************)
EXTENDS Integers, Sequences, FiniteSetsExt, SequencesExt

CONSTANTS
    Map,          \* maps
    Key, Val,
    NULL,
    Hash,         \* key_hash of each key
    InitCounts,   \* bucket counts asked for in ow_hashmap_init()
    ReserveCounts \* bucket counts asked for in ow_hashmap_reserve()

ASSUME HashAssumption ==
    /\ Hash \in [Key -> Nat]
    /\ NULL \notin Val
    /\ InitCounts \subseteq Nat /\ ReserveCounts \subseteq Nat

VARIABLES
    map,   \* the maps
    call,  \* the last call and its arguments
    ret,   \* what it returned
    fault  \* a hash was reduced modulo zero: the process is killed

vars == <<map, call, ret, fault>>

Node == [key : Key, key_hash : Nat, value : Val]

-----------------------------------------------------------------------------
Count(t) == Len(t.buckets)
BucketOf(t, hash) == (hash % Count(t)) + 1

\* What a walk over the buckets has met after each of them.
Walk(bs) ==
    LET met[b \in 0 .. Len(bs)] == IF b = 0 THEN <<>> ELSE met[b - 1] \o bs[b]
    IN met

\* The nodes in the order of ow_hashmap_foreach() and ow_hashmap_foreach_1().
Nodes(t) == Walk(t.buckets)[Count(t)]

NoNodes(n) == [b \in 1 .. n |-> <<>>]

\* ow_hashmap_init(): a fresh map.
NewMap(n) == [size |-> 0, buckets |-> NoNodes(IF n < 3 THEN 3 ELSE n)]

\* Mutant: the array is resized, the nodes stay in their buckets.
RehashInPlace(t, count) ==
    [t EXCEPT !.buckets =
        [b \in 1 .. count |-> IF b <= Count(t) THEN t.buckets[b] ELSE <<>>]]

\* New buckets after each of the nodes s is appended to the chain of its own.
Moves(s, count) ==
    LET moved[i \in 0 .. Len(s)] ==
            IF i = 0 THEN NoNodes(count)
            ELSE [moved[i - 1] EXCEPT ![(s[i].key_hash % count) + 1] = Append(@, s[i])]
    IN moved

\* ow_hashmap_rehash(): in the order of the walk over the old buckets.
Rehash(t, count) ==
    [t EXCEPT !.buckets = Moves(Nodes(t), count)[Len(Nodes(t))]]

\* Mutant: equal hashes are taken for equal keys.
HitsByHash(chain, k) == {i \in DOMAIN chain : chain[i].key_hash = Hash[k]}

\* Where in a chain the search for a key stops.
Hits(chain, k) ==
    {i \in DOMAIN chain : chain[i].key_hash = Hash[k] /\ chain[i].key = k}

\* A chain with another value in its i-th node.
Assigned(chain, i, v) == [chain EXCEPT ![i] = [@ EXCEPT !.value = v]]

\* ow_hashmap_set(): the array is enlarged before the search.
Enlarged(t) == IF t.size > Count(t) THEN Rehash(t, (t.size - 1) * 2) ELSE t

SetIn(t, k, v) ==
    LET r == Enlarged(t)
        b == BucketOf(r, Hash[k])
        hits == Hits(r.buckets[b], k)
    IN IF hits # {}
       THEN [r EXCEPT !.buckets[b] = Assigned(@, Min(hits), v)]
       ELSE [size |-> r.size + 1,
             buckets |-> [r.buckets EXCEPT
                             ![b] = Append(@, [key |-> k, key_hash |-> Hash[k], value |-> v])]]

\* ow_hashmap_get(), ow_hashmap_remove().
GetFrom(t, k) ==
    LET chain == t.buckets[BucketOf(t, Hash[k])]
        hits == Hits(chain, k)
    IN IF hits = {} THEN NULL ELSE chain[Min(hits)].value

RemoveFrom(t, k) ==
    LET b == BucketOf(t, Hash[k])
        hits == Hits(t.buckets[b], k)
    IN IF hits = {} THEN t
       ELSE [size |-> t.size - 1,
             buckets |-> [t.buckets EXCEPT ![b] = RemoveAt(@, Min(hits))]]

\* ow_hashmap_clear().
Cleared(t) ==
    IF t.size = 0 THEN t
    ELSE [size |-> 0, buckets |-> NoNodes(Count(t))]

\* The map after each of the elements s is set.
Extensions(t, s) ==
    LET set[i \in 0 .. Len(s)] ==
            IF i = 0 THEN t ELSE SetIn(set[i - 1], s[i].key, s[i].value)
    IN set

\* ow_hashmap_extend(): set every element of another map.
ExtendWith(t, other) == Extensions(t, Nodes(other))[Len(Nodes(other))]

-----------------------------------------------------------------------------
Init ==
    /\ map \in [Map -> {NewMap(n) : n \in InitCounts}]
    /\ call = <<"init">>
    /\ ret = NULL
    /\ fault = FALSE

\* `hash % map->_bucket_count` of a map without buckets: in ow_hashmap_set(),
\* _get() and _remove(), and in _extend() with a map that has elements.
DivideByZero(m) ==
    /\ ~fault
    /\ Count(map[m]) = 0
    /\ fault' = TRUE
    /\ UNCHANGED <<map, call, ret>>

HashMapSet(m, k, v) ==
    /\ ~fault
    /\ Count(map[m]) # 0
    /\ call' = <<"set", m, k, v>>
    /\ map' = [map EXCEPT ![m] = SetIn(@, k, v)]
    /\ ret' = NULL
    /\ UNCHANGED fault

HashMapGet(m, k) ==
    /\ ~fault
    /\ Count(map[m]) # 0
    /\ call' = <<"get", m, k>>
    /\ ret' = GetFrom(map[m], k)
    /\ UNCHANGED <<map, fault>>

HashMapRemove(m, k) ==
    /\ ~fault
    /\ Count(map[m]) # 0
    /\ call' = <<"remove", m, k>>
    /\ ret' = (Hits(map[m].buckets[BucketOf(map[m], Hash[k])], k) # {})
    /\ map' = [map EXCEPT ![m] = RemoveFrom(@, k)]
    /\ UNCHANGED fault

HashMapClear(m) ==
    /\ ~fault
    /\ call' = <<"clear", m>>
    /\ map' = [map EXCEPT ![m] = Cleared(@)]
    /\ ret' = NULL
    /\ UNCHANGED fault

HashMapExtend(m, other) ==
    /\ ~fault
    /\ m # other
    /\ Count(map[m]) # 0 \/ map[other].size = 0
    /\ call' = <<"extend", m, other>>
    /\ map' = [map EXCEPT ![m] = ExtendWith(@, map[other])]
    /\ ret' = NULL
    /\ UNCHANGED fault

HashMapReserve(m, count) ==
    /\ ~fault
    /\ call' = <<"resize", m>>
    /\ map' = [map EXCEPT ![m] = IF count <= Count(@) THEN @ ELSE Rehash(@, count)]
    /\ ret' = NULL
    /\ UNCHANGED fault

HashMapShrink(m) ==
    /\ ~fault
    /\ call' = <<"resize", m>>
    /\ map' = [map EXCEPT ![m] = IF @.size > Count(@) THEN @ ELSE Rehash(@, @.size)]
    /\ ret' = NULL
    /\ UNCHANGED fault

\* ow_hashmap_fini(), and ow_hashmap_init() for the next owner.
Renew(m, n) ==
    /\ ~fault
    /\ call' = <<"clear", m>>
    /\ map' = [map EXCEPT ![m] = NewMap(n)]
    /\ ret' = NULL
    /\ UNCHANGED fault

Killed == fault /\ UNCHANGED vars

Next ==
    \/ \E m \in Map, k \in Key, v \in Val : HashMapSet(m, k, v)
    \/ \E m \in Map, k \in Key : HashMapGet(m, k) \/ HashMapRemove(m, k)
    \/ \E m \in Map : HashMapClear(m) \/ HashMapShrink(m) \/ DivideByZero(m)
    \/ \E m, other \in Map : HashMapExtend(m, other)
    \/ \E m \in Map, count \in ReserveCounts : HashMapReserve(m, count)
    \/ \E m \in Map, n \in InitCounts : Renew(m, n)
    \/ Killed

Spec == Init /\ [][Next]_vars

-----------------------------------------------------------------------------
\* Properties.

\* Every map is a well-formed record of chains of nodes.
TypeOK ==
    /\ map \in [Map -> [size : Nat, buckets : Seq(Seq(Node))]]
    /\ ret \in Val \cup BOOLEAN \cup {NULL}
    /\ fault \in BOOLEAN

NodesOf(bs) == UNION {Range(bs[b]) : b \in DOMAIN bs}
NodeSet(t) == NodesOf(t.buckets)

\* Whatever the sequence of insertions, removals and rehashes, each node is
\* in the bucket its hash selects now, no key has two nodes, and _size is the
\* number of nodes: a node left in the bucket of an earlier bucket count
\* could be traversed but neither found nor removed.
NodesInPlace ==
    \A m \in Map :
        LET t == map[m]
        IN /\ t.size = Cardinality(NodeSet(t))
           /\ \A b \in DOMAIN t.buckets : \A i \in DOMAIN t.buckets[b] :
                 /\ b = BucketOf(t, t.buckets[b][i].key_hash)
                 /\ \A c \in DOMAIN t.buckets : \A j \in DOMAIN t.buckets[c] :
                       t.buckets[b][i].key = t.buckets[c][j].key => b = c /\ i = j

\* The hash map is a dictionary: every call has the effect on the elements,
\* and the result, that the interface promises.
ContentOf(t) ==
    [k \in {n.key : n \in NodeSet(t)} |->
        (CHOOSE n \in NodeSet(t) : n.key = k).value]

Contents == [m \in Map |-> ContentOf(map[m])]

D == INSTANCE Dictionary WITH content <- Contents
IsDictionary == D!Spec
=============================================================================
