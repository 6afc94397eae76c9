----------------------------- MODULE Dictionary -----------------------------
(***************************************************************************)
(* What utilities/hashmap.h promises: maps from keys to values, "insert or *)
(* assign", "find element", "delete element", "delete all elements",       *)
(* "insert elements from another map".  Reserving and shrinking storage,   *)
(* rehashing and the order of the elements are invisible.                  *)
(***************************************************************************)
CONSTANTS Map, Key, Val, NULL

VARIABLES
    content,  \* the contents of each map: a function from some of the keys
    call,     \* the last call and its arguments
    ret       \* what it returned

Partial == UNION {[K -> Val] : K \in SUBSET Key}
Empty == [k \in {} |-> NULL]
Lookup(f, k) == IF k \in DOMAIN f THEN f[k] ELSE NULL
Put(f, k, v) == [x \in DOMAIN f \cup {k} |-> IF x = k THEN v ELSE f[x]]
Over(f, g) == [x \in DOMAIN f \cup DOMAIN g |-> IF x \in DOMAIN f THEN f[x] ELSE g[x]]
Without(f, k) == [x \in DOMAIN f \ {k} |-> f[x]]

Init ==
    /\ content = [m \in Map |-> Empty]
    /\ call = <<"init">>
    /\ ret = NULL

Assign(m, k, v) ==
    /\ call' = <<"set", m, k, v>>
    /\ content' = [content EXCEPT ![m] = Put(@, k, v)]
    /\ ret' = NULL

Find(m, k) ==
    /\ call' = <<"get", m, k>>
    /\ ret' = Lookup(content[m], k)
    /\ UNCHANGED content

Delete(m, k) ==
    /\ call' = <<"remove", m, k>>
    /\ ret' = (k \in DOMAIN content[m])
    /\ content' = [content EXCEPT ![m] = Without(@, k)]

DeleteAll(m) ==
    /\ call' = <<"clear", m>>
    /\ content' = [content EXCEPT ![m] = Empty]
    /\ ret' = NULL

Insert(m, other) ==
    /\ call' = <<"extend", m, other>>
    /\ content' = [content EXCEPT ![m] = Over(content[other], @)]
    /\ ret' = NULL

\* A call that only changes the storage.
Rearrange(m) ==
    /\ call' = <<"resize", m>>
    /\ ret' = NULL
    /\ UNCHANGED content

Next ==
    \/ \E m \in Map, k \in Key, v \in Val : Assign(m, k, v)
    \/ \E m \in Map, k \in Key : Find(m, k) \/ Delete(m, k)
    \/ \E m \in Map : DeleteAll(m) \/ Rearrange(m)
    \/ \E m, other \in Map : Insert(m, other)

Spec == Init /\ [][Next]_<<content, call, ret>>
=============================================================================
