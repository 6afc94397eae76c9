--------------------------- MODULE SymbolPoolProofs ---------------------------
(***************************************************************************)
(* Proofs about module SymbolPool, for any set of strings, any assignment  *)
(* of buckets and any number of places.                                    *)
(*                                                                         *)
(* The invariant follows each address to the string it stands for, which   *)
(* between the update of the references and the move of the symbols is the *)
(* string at the address the symbol still has, and says where the pool and *)
(* the program agree at each step of a collection.                         *)
(***************************************************************************)
EXTENDS SymbolPool, FiniteSetTheorems, WellFoundedInduction, SequenceTheorems, TLAPS

-----------------------------------------------------------------------------
(* Numbers and sequences. *)

\* "Less than" as a set of pairs.
LEMMA LessPairs == OpToRel(<, Nat) = {p \in Nat \X Nat : p[1] < p[2]}
  BY Zenon DEF OpToRel

\* A set of natural numbers that is not empty has a least element.
LEMMA LeastElement ==
  ASSUME NEW S \in SUBSET Nat, S # {}
  PROVE  \E x \in S : \A y \in S : x <= y
<1>1. \E x \in S : \A y \in S : ~ (<<y, x>> \in OpToRel(<, Nat))
  BY WFMin, NatLessThanWellFounded, Zenon
<1>2. PICK x \in S : \A y \in S : ~ (<<y, x>> \in {p \in Nat \X Nat : p[1] < p[2]})
  BY <1>1, LessPairs, Zenon
<1>3. ASSUME NEW y \in S PROVE x <= y
  <2>1. <<y, x>> \in Nat \X Nat /\ ~ (<<y, x>> \in {p \in Nat \X Nat : p[1] < p[2]})
    BY <1>2
  <2>2. ~ (y < x)
    BY <2>1
  <2>. QED BY <2>2
<1>. QED BY <1>3

\* Min is it.
LEMMA MinIs ==
  ASSUME NEW S \in SUBSET Nat, S # {}
  PROVE  Min(S) \in S /\ \A y \in S : Min(S) <= y
<1>1. \E x \in S : \A y \in S : x <= y
  BY LeastElement
<1>. QED BY <1>1 DEF Min

\* An element taken out of a sequence leaves the others, in order.
LEMMA RemoveAtIs ==
  ASSUME NEW S, NEW q \in Seq(S), NEW k \in DOMAIN q
  PROVE  /\ RemoveAt(q, k) \in Seq(S)
         /\ DOMAIN RemoveAt(q, k) = 1 .. Len(q) - 1
         /\ \A i \in 1 .. Len(q) - 1 :
               RemoveAt(q, k)[i] = IF i < k THEN q[i] ELSE q[i + 1]
<1> DEFINE u == SubSeq(q, 1, k - 1)
           v == SubSeq(q, k + 1, Len(q))
<1>1. k \in Nat /\ 1 <= k /\ k <= Len(q) /\ Len(q) \in Nat
  OBVIOUS
<1>2. u \in Seq(S) /\ Len(u) = k - 1 /\ \A i \in 1 .. k - 1 : u[i] = q[i]
  BY <1>1
<1>3. v \in Seq(S) /\ Len(v) = Len(q) - k /\ \A i \in 1 .. Len(q) - k : v[i] = q[i + k]
  BY <1>1
<1>4. RemoveAt(q, k) = u \o v
  BY DEF RemoveAt
<1> HIDE DEF u, v
<1>5. u \o v \in Seq(S) /\ Len(u \o v) = Len(q) - 1
  BY <1>1, <1>2, <1>3
<1>6. ASSUME NEW i \in 1 .. Len(q) - 1
      PROVE  (u \o v)[i] = IF i < k THEN q[i] ELSE q[i + 1]
  <2>1. CASE i < k
    <3>1. i \in 1 .. Len(u)
      BY <1>1, <1>2, <2>1
    <3>. QED BY <1>2, <1>3, <2>1, <3>1
  <2>2. CASE ~ (i < k)
    <3>1. i - (k - 1) \in 1 .. Len(q) - k /\ (i - (k - 1)) + k = i + 1
      BY <1>1, <2>2
    <3>2. (u \o v)[i] = v[i - Len(u)]
      BY SMTT(40), <1>1, <1>2, <1>3, <2>2
    <3>3. v[i - (k - 1)] = q[i + 1]
      BY <1>3, <3>1
    <3>. QED BY <1>2, <2>2, <3>2, <3>3
  <2>. QED BY <2>1, <2>2
<1>7. DOMAIN (u \o v) = 1 .. Len(q) - 1
  BY <1>5
<1>. QED BY <1>4, <1>5, <1>6, <1>7

-----------------------------------------------------------------------------
\* The inductive invariant.

Moved == {fwd[a] : a \in live}

\* Address to string, for the addresses that pool and program hold.
Text == IF gc = "updated" THEN [x \in Moved |-> heap[CHOOSE a \in live : fwd[a] = x]]
        ELSE heap

TypeInv ==
    /\ DOMAIN heap \subseteq Addr
    /\ heap \in [DOMAIN heap -> Strings]
    /\ pool \in [Buckets -> Seq(Addr)]
    /\ wanted \subseteq Strings /\ \A s, t \in wanted : s = t
    /\ gc \in {"none", "marked", "cleaned", "placed", "updated"}

\* A chain holds symbols of its bucket, one for a string, and none with the
\* string that is about to be added.
ChainOK(b) ==
    \A i \in DOMAIN pool[b] :
        /\ pool[b][i] \in DOMAIN Text
        /\ BucketOf[Text[pool[b][i]]] = b
        /\ Text[pool[b][i]] \notin wanted
        /\ \A j \in DOMAIN pool[b] : Text[pool[b][i]] = Text[pool[b][j]] => i = j

ChainsOK == \A b \in Buckets : ChainOK(b)

Phases ==
    /\ gc = "none" => held \subseteq Chained
    /\ gc = "marked" => live = held /\ held \subseteq Chained
    /\ gc \in {"cleaned", "placed"} => live = held /\ held = Chained
    /\ gc = "updated" => held = Moved /\ held = Chained
    /\ gc \in {"placed", "updated"} =>
        /\ DOMAIN heap = live
        /\ fwd \in [live -> Addr]
        /\ \A a, c \in live : fwd[a] = fwd[c] => a = c

PoolInv == TypeInv /\ ChainsOK /\ Phases

-----------------------------------------------------------------------------
\* Lemmas.

LEMMA AddrNat == Addr \subseteq Nat /\ Small \subseteq Nat /\ Big \subseteq Nat
  BY PoolAssumption DEF Addr, Small, Big

\* What the chains hold.
LEMMA ChainedIs ==
  \A a : a \in Chained <=> \E b \in Buckets : \E i \in DOMAIN pool[b] : pool[b][i] = a
  BY DEF Chained, ToSet

\* A look-up gives a symbol of a chain.
LEMMA FoundChained ==
  ASSUME PoolInv, NEW s \in Strings
  PROVE  Found(s) \subseteq Chained
<1> DEFINE b == BucketOf[s]
           at == {k \in DOMAIN pool[b] : heap[pool[b][k]] = s}
<1>1. b \in Buckets
  BY DEF Buckets
<1>2. pool[b] \in Seq(Addr)
  BY <1>1 DEF PoolInv, TypeInv
<1>3. at \subseteq Nat
  BY <1>2
<1>4. at # {} => Min(at) \in at
  BY <1>3, MinIs
<1>5. Found(s) = IF at = {} THEN {} ELSE {pool[b][Min(at)]}
  BY DEF Found
<1>. QED BY <1>1, <1>4, <1>5, ChainedIs

\* One that finds nothing has seen every symbol with the string.
LEMMA MissedNew ==
  ASSUME PoolInv, gc = "none", NEW s \in Strings, Found(s) = {}
  PROVE  \A b \in Buckets : \A i \in DOMAIN pool[b] : heap[pool[b][i]] # s
<1> SUFFICES ASSUME NEW b \in Buckets, NEW i \in DOMAIN pool[b], heap[pool[b][i]] = s
             PROVE  FALSE
  OBVIOUS
<1>1. b = BucketOf[s]
  BY DEF PoolInv, ChainsOK, ChainOK, Text
<1>2. i \in {k \in DOMAIN pool[BucketOf[s]] : heap[pool[BucketOf[s]][k]] = s}
  BY <1>1
<1>. QED BY <1>2 DEF Found

\* Places given in order are different places.
LEMMA PlacesDistinct ==
  ASSUME NEW L \in SUBSET Addr
  PROVE  LET n(a) == Cardinality({x \in L \cap Small : x <= a})
         IN /\ \A a \in L \ Big : n(a) \in Small
            /\ \A a, c \in L \ Big : n(a) = n(c) => a = c
<1> DEFINE T(a) == {x \in L \cap Small : x <= a}
           n(a) == Cardinality(T(a))
<1>0. L \ Big \subseteq Small /\ Places \in Nat
  BY PoolAssumption DEF Addr
<1>1. IsFiniteSet(Small) /\ Cardinality(Small) = Places
  BY FS_Interval, PoolAssumption DEF Small
<1>2. ASSUME NEW a \in L \ Big
      PROVE  IsFiniteSet(T(a)) /\ n(a) \in Small
  <2>1. IsFiniteSet(T(a)) /\ Cardinality(T(a)) <= Cardinality(Small)
    BY <1>1, FS_Subset
  <2>2. a \in T(a)
    BY <1>0, AddrNat
  <2>3. Cardinality(T(a)) # 0 /\ Cardinality(T(a)) \in Nat
    BY <2>1, <2>2, FS_EmptySet, FS_CardinalityType
  <2>. QED BY <1>0, <1>1, <2>1, <2>3 DEF Small
<1>3. ASSUME NEW a \in L \ Big, NEW c \in L \ Big, a < c
      PROVE  n(a) < n(c)
  <2>0. a \in Nat /\ c \in Nat /\ c \in Small
    BY <1>0, AddrNat
  <2>1. T(a) \subseteq T(c) /\ c \in T(c) /\ c \notin T(a)
    <3>1. \A x \in Small : x <= a => x <= c
      BY <1>3, <2>0, AddrNat
    <3>2. T(a) \subseteq T(c)
      BY <3>1
    <3>3. c <= c /\ ~ (c <= a)
      BY <1>3, <2>0
    <3>4. c \in T(c) /\ c \notin T(a)
      BY <2>0, <3>3
    <3>. QED BY <3>2, <3>4
  <2>2. IsFiniteSet(T(c))
    BY <1>2
  <2>. QED BY <2>1, <2>2, FS_Subset, FS_CardinalityType
<1>4. ASSUME NEW a \in L \ Big, NEW c \in L \ Big, n(a) = n(c)
      PROVE  a = c
  <2>1. a \in Nat /\ c \in Nat /\ n(a) \in Nat /\ n(c) \in Nat
    BY <1>0, <1>2, AddrNat
  <2>2. ~ (a < c) /\ ~ (c < a)
    BY <1>3, <1>4, <2>1
  <2>. QED BY <2>1, <2>2
<1>. QED BY <1>2, <1>4

-----------------------------------------------------------------------------
\* The initial states and the steps, one lemma each.

LEMMA InitPool == Init => PoolInv
<1> SUFFICES ASSUME Init PROVE PoolInv
  OBVIOUS
<1>1. TypeInv
  BY DEF Init, TypeInv
<1>2. ChainsOK
  BY DEF Init, ChainsOK, ChainOK
<1>3. Phases
  BY DEF Init, Phases
<1>. QED BY <1>1, <1>2, <1>3 DEF PoolInv

LEMMA FindPool ==
  ASSUME PoolInv, NEW s \in Strings, FindSymbol(s)
  PROVE  PoolInv'
<1>1. UNCHANGED <<heap, pool, wanted, gc, live, fwd>> /\ gc = "none"
  BY DEF FindSymbol
<1>2. TypeInv' /\ ChainsOK'
  BY <1>1 DEF PoolInv, TypeInv, ChainsOK, ChainOK, Text, Moved
<1>3. held' \subseteq Chained
  BY FoundChained, <1>1 DEF FindSymbol, PoolInv, Phases
<1>4. Chained' = Chained
  BY <1>1 DEF Chained
<1>5. Phases'
  BY <1>1, <1>3, <1>4 DEF Phases
<1>. QED BY <1>2, <1>5 DEF PoolInv

LEMMA MissPool ==
  ASSUME PoolInv, NEW s \in Strings, MissSymbol(s)
  PROVE  PoolInv'
<1>1. UNCHANGED <<heap, pool, held, gc, live, fwd>> /\ gc = "none" /\ wanted' = {s}
  BY DEF MissSymbol
<1>2. TypeInv'
  BY <1>1 DEF PoolInv, TypeInv
<1>3. \A b \in Buckets : \A i \in DOMAIN pool[b] : heap[pool[b][i]] # s
  BY MissedNew, <1>1 DEF MissSymbol
<1>4. ChainsOK'
  BY <1>1, <1>3 DEF PoolInv, ChainsOK, ChainOK, Text
<1>5. Phases'
  BY <1>1 DEF PoolInv, Phases, Chained
<1>. QED BY <1>2, <1>4, <1>5 DEF PoolInv

LEMMA AddPool ==
  ASSUME PoolInv, AddSymbol
  PROVE  PoolInv'
<1>1. PICK s \in wanted :
        /\ Free(s) # {}
        /\ heap' = [x \in DOMAIN heap \cup {Min(Free(s))} |->
                        IF x = Min(Free(s)) THEN s ELSE heap[x]]
        /\ pool' = [pool EXCEPT ![BucketOf[s]] = Append(@, Min(Free(s)))]
        /\ held' = held \cup {Min(Free(s))}
  BY DEF AddSymbol
<1>2. gc = "none" /\ wanted' = {} /\ UNCHANGED <<gc, live, fwd>>
  BY DEF AddSymbol
<1> DEFINE a == Min(Free(s))
           c == BucketOf[s]
<1>3. s \in Strings /\ c \in Buckets
  BY DEF PoolInv, TypeInv, Buckets
<1>4. a \in Addr /\ a \notin DOMAIN heap
  <2>1. Free(s) \subseteq Addr \ DOMAIN heap
    BY DEF Free, Addr
  <2>2. a \in Free(s)
    BY <1>1, <2>1, MinIs, AddrNat
  <2>. QED BY <2>1, <2>2
<1> HIDE DEF a, c
<1>5. heap' = [x \in DOMAIN heap \cup {a} |-> IF x = a THEN s ELSE heap[x]]
      /\ pool' = [pool EXCEPT ![c] = Append(@, a)] /\ held' = held \cup {a}
  BY <1>1 DEF a, c
<1>6. pool \in [Buckets -> Seq(Addr)]
  BY DEF PoolInv, TypeInv
<1>7. \A b \in Buckets \ {c} : pool'[b] = pool[b]
  BY <1>5, <1>6
<1>8. pool[c] \in Seq(Addr) /\ pool'[c] = Append(pool[c], a)
  BY <1>3, <1>5, <1>6
<1>9. TypeInv'
  <2>1. pool' \in [Buckets -> Seq(Addr)]
    BY <1>3, <1>4, <1>5, <1>6
  <2>2. DOMAIN heap' \subseteq Addr /\ heap' \in [DOMAIN heap' -> Strings]
    BY <1>3, <1>4, <1>5 DEF PoolInv, TypeInv
  <2>. QED BY <1>2, <2>1, <2>2 DEF TypeInv
<1>10. \A x \in DOMAIN heap : x \in DOMAIN heap' /\ heap'[x] = heap[x] /\ x # a
  BY <1>4, <1>5
<1>11. a \in DOMAIN heap' /\ heap'[a] = s
  BY <1>5
<1>12. \A b \in Buckets : \A i \in DOMAIN pool[b] :
         /\ pool[b][i] \in DOMAIN heap
         /\ BucketOf[heap[pool[b][i]]] = b
         /\ heap[pool[b][i]] # s
         /\ \A j \in DOMAIN pool[b] : heap[pool[b][i]] = heap[pool[b][j]] => i = j
  BY <1>1, <1>2 DEF PoolInv, ChainsOK, ChainOK, Text
<1>13. \A b \in Buckets \ {c} : ChainOK(b)'
  BY <1>2, <1>7, <1>10, <1>12 DEF ChainOK, Text
<1>14. ChainOK(c)'
  <2>1. DOMAIN pool'[c] = DOMAIN pool[c] \cup {Len(pool[c]) + 1}
    BY <1>8
  <2>2. \A i \in DOMAIN pool[c] : pool'[c][i] = pool[c][i]
    BY <1>8
  <2>3. pool'[c][Len(pool[c]) + 1] = a
    BY <1>8
  <2>4. \A i \in DOMAIN pool[c] : heap'[pool'[c][i]] = heap[pool[c][i]]
                                  /\ pool'[c][i] \in DOMAIN heap'
    BY <1>3, <1>10, <1>12, <2>2
  <2>5. BucketOf[s] = c
    BY DEF c
  <2>. QED BY <1>2, <1>3, <1>11, <1>12, <2>1, <2>3, <2>4, <2>5 DEF ChainOK, Text
<1>15. ChainsOK'
  BY <1>13, <1>14 DEF ChainsOK, Buckets
<1>16. held' \subseteq Chained'
  <2>1. ASSUME NEW x \in held PROVE x \in Chained'
    <3>1. PICK b \in Buckets : \E i \in DOMAIN pool[b] : pool[b][i] = x
      BY <1>2, ChainedIs DEF PoolInv, Phases
    <3>2. PICK i \in DOMAIN pool[b] : pool[b][i] = x
      BY <3>1
    <3>3. i \in DOMAIN pool'[b] /\ pool'[b][i] = x
      BY <1>7, <1>8, <3>2
    <3>. QED BY <3>3 DEF Chained, ToSet, Buckets
  <2>2. a \in Chained'
    <3>1. Len(pool[c]) + 1 \in DOMAIN pool'[c] /\ pool'[c][Len(pool[c]) + 1] = a
      BY <1>8
    <3>. QED BY <1>3, <3>1 DEF Chained, ToSet, Buckets
  <2>. QED BY <1>5, <2>1, <2>2
<1>17. Phases'
  BY <1>2, <1>16 DEF Phases
<1>. QED BY <1>9, <1>15, <1>17 DEF PoolInv

LEMMA ForgetPool ==
  ASSUME PoolInv, NEW a, Forget(a)
  PROVE  PoolInv'
<1>1. UNCHANGED <<heap, pool, wanted, gc, live, fwd>> /\ gc = "none" /\ held' \subseteq held
  BY DEF Forget
<1>2. TypeInv' /\ ChainsOK'
  BY <1>1 DEF PoolInv, TypeInv, ChainsOK, ChainOK, Text, Moved
<1>3. Phases'
  BY <1>1 DEF PoolInv, Phases, Chained
<1>. QED BY <1>2, <1>3 DEF PoolInv

LEMMA MarkPool ==
  ASSUME PoolInv, Mark
  PROVE  PoolInv'
<1>1. UNCHANGED <<heap, pool, held, wanted, fwd>> /\ gc = "none" /\ gc' = "marked" /\ live' = held
  BY DEF Mark
<1>2. TypeInv' /\ ChainsOK'
  BY <1>1 DEF PoolInv, TypeInv, ChainsOK, ChainOK, Text
<1>3. Phases'
  BY <1>1 DEF PoolInv, Phases, Chained
<1>. QED BY <1>2, <1>3 DEF PoolInv

\* One symbol leaves its chain; the chain held it once, and no other chain did.
LEMMA CleanPoolStep ==
  ASSUME PoolInv, CleanPool
  PROVE  PoolInv'
<1>1. gc = "marked" /\ UNCHANGED <<heap, held, wanted, live, fwd>>
  BY DEF CleanPool
<1>2. live = held /\ held \subseteq Chained
  BY <1>1 DEF PoolInv, Phases
<1>3. CASE Chained \subseteq live /\ gc' = "cleaned" /\ pool' = pool
  <2>1. TypeInv' /\ ChainsOK'
    BY <1>1, <1>3 DEF PoolInv, TypeInv, ChainsOK, ChainOK, Text
  <2>2. Phases'
    BY <1>1, <1>2, <1>3 DEF Phases, Chained
  <2>. QED BY <2>1, <2>2 DEF PoolInv
<1>4. ASSUME NEW a \in Chained \ live, NEW k \in DOMAIN pool[BucketOf[heap[a]]],
             pool[BucketOf[heap[a]]][k] = a,
             pool' = [pool EXCEPT ![BucketOf[heap[a]]] = RemoveAt(@, k)], gc' = gc
      PROVE  PoolInv'
  <2>1. PICK b \in Buckets : \E i \in DOMAIN pool[b] : pool[b][i] = a
    BY <1>4, ChainedIs
  <2>2. ChainsOK /\ pool \in [Buckets -> Seq(Addr)]
    BY DEF PoolInv, TypeInv
  <2>3. BucketOf[heap[a]] = b
    BY <1>1, <2>1, <2>2 DEF ChainsOK, ChainOK, Text
  <2>4. b \in Buckets /\ pool[b] \in Seq(Addr) /\ k \in DOMAIN pool[b] /\ pool[b][k] = a
    BY <1>4, <2>2, <2>3
  <2>5. pool' = [pool EXCEPT ![b] = RemoveAt(@, k)]
    BY <1>4, <2>3
  <2>6. pool'[b] = RemoveAt(pool[b], k) /\ \A d \in Buckets \ {b} : pool'[d] = pool[d]
    BY <2>2, <2>4, <2>5
  <2>7. /\ pool'[b] \in Seq(Addr)
        /\ DOMAIN pool'[b] = 1 .. Len(pool[b]) - 1
        /\ \A i \in 1 .. Len(pool[b]) - 1 :
              pool'[b][i] = IF i < k THEN pool[b][i] ELSE pool[b][i + 1]
    <3>1. LET q == pool[b]
          IN /\ RemoveAt(q, k) \in Seq(Addr)
             /\ DOMAIN RemoveAt(q, k) = 1 .. Len(q) - 1
             /\ \A i \in 1 .. Len(q) - 1 :
                   RemoveAt(q, k)[i] = IF i < k THEN q[i] ELSE q[i + 1]
      BY <2>4, RemoveAtIs, Zenon
    <3>. QED BY <2>6, <3>1
  <2>8. pool' \in [Buckets -> Seq(Addr)]
    BY <2>2, <2>5, <2>6, <2>7
  <2>9. TypeInv'
    BY <1>1, <1>4, <2>8 DEF PoolInv, TypeInv
  <2>10. \A d \in Buckets \ {b} : ChainOK(d)'
    BY <1>1, <1>4, <2>2, <2>6 DEF ChainsOK, ChainOK, Text
  <2>11. ChainOK(b)'
    <3> DEFINE from(i) == IF i < k THEN i ELSE i + 1
    <3>1. ASSUME NEW i \in DOMAIN pool'[b]
          PROVE  from(i) \in DOMAIN pool[b] /\ pool'[b][i] = pool[b][from(i)]
      <4>1. i \in Int /\ 1 <= i /\ i <= Len(pool[b]) - 1 /\ Len(pool[b]) \in Nat
        BY <2>4, <2>7
      <4>2. from(i) \in 1 .. Len(pool[b])
        BY <4>1
      <4>. QED BY <2>4, <2>7, <4>2
    <3>2. ASSUME NEW i \in DOMAIN pool'[b], NEW j \in DOMAIN pool'[b], from(i) = from(j)
          PROVE  i = j
      BY <2>4, <2>7, <3>2
    <3> HIDE DEF from
    <3>3. ChainOK(b)
      BY <2>2, <2>4 DEF ChainsOK
    <3>4. Text' = Text /\ wanted' = wanted
      BY <1>1, <1>4 DEF Text
    <3>. QED BY <3>1, <3>2, <3>3, <3>4 DEF ChainOK
  <2>12. ChainsOK'
    BY <2>10, <2>11 DEF ChainsOK, Buckets
  <2>13. ASSUME NEW x \in held PROVE x \in Chained'
    <3>1. x # a
      BY <1>2, <1>4
    <3>2. PICK d \in Buckets : \E i \in DOMAIN pool[d] : pool[d][i] = x
      BY <1>2, ChainedIs
    <3>3. PICK i \in DOMAIN pool[d] : pool[d][i] = x
      BY <3>2
    <3>4. \E j \in DOMAIN pool'[d] : pool'[d][j] = x
      <4>1. CASE d # b
        BY <2>6, <3>3, <4>1
      <4>2. CASE d = b
        <5>1. i # k /\ i \in Int /\ k \in Int /\ 1 <= i /\ i <= Len(pool[b]) /\ 1 <= k
              /\ k <= Len(pool[b]) /\ Len(pool[b]) \in Nat
          BY <2>4, <3>1, <3>3, <4>2
        <5>2. CASE i < k
          BY <2>7, <3>3, <4>2, <5>1, <5>2
        <5>3. CASE i > k
          <6>1. i - 1 \in 1 .. Len(pool[b]) - 1 /\ ~ (i - 1 < k) /\ (i - 1) + 1 = i
            BY <5>1, <5>3
          <6>2. pool'[b][i - 1] = pool[b][i]
            BY <2>7, <6>1
          <6>. QED BY <2>7, <3>3, <4>2, <6>1, <6>2
        <5>. QED BY <5>1, <5>2, <5>3
      <4>. QED BY <4>1, <4>2
    <3>. QED BY <3>4 DEF Chained, ToSet, Buckets
  <2>14. Phases'
    BY <1>1, <1>2, <1>4, <2>13 DEF Phases
  <2>. QED BY <2>9, <2>12, <2>14 DEF PoolInv
<1>5. CASE \E a \in Chained \ live :
             \E k \in DOMAIN pool[BucketOf[heap[a]]] :
                /\ pool[BucketOf[heap[a]]][k] = a
                /\ pool' = [pool EXCEPT ![BucketOf[heap[a]]] = RemoveAt(@, k)]
                /\ gc' = gc
  BY <1>4, <1>5
<1>. QED BY <1>3, <1>5 DEF CleanPool

\* The symbols that are left have strings, and get places of their own.
LEMMA ReallocPool ==
  ASSUME PoolInv, Realloc
  PROVE  PoolInv'
<1>1. /\ gc = "cleaned" /\ gc' = "placed"
      /\ heap' = [a \in live |-> heap[a]]
      /\ fwd' = [a \in live |-> IF a \in Big THEN a
                                ELSE Cardinality({x \in live \cap Small : x <= a})]
      /\ UNCHANGED <<pool, held, wanted, live>>
  BY DEF Realloc
<1>2. live = held /\ held = Chained
  BY <1>1 DEF PoolInv, Phases
<1>3. live \subseteq DOMAIN heap /\ live \subseteq Addr
  BY <1>1, <1>2, ChainedIs DEF PoolInv, TypeInv, ChainsOK, ChainOK, Text
<1>4. TypeInv'
  BY <1>1, <1>3 DEF PoolInv, TypeInv
<1>5. \A b \in Buckets : \A i \in DOMAIN pool[b] : pool[b][i] \in live
  BY <1>2, ChainedIs
<1>6. ChainsOK'
  <2>1. \A b \in Buckets : ChainOK(b)
    BY DEF PoolInv, ChainsOK
  <2>2. \A b \in Buckets : ChainOK(b)'
    BY <1>1, <1>5, <2>1 DEF ChainOK, Text
  <2>. QED BY <2>2 DEF ChainsOK, Buckets
<1>7. fwd' \in [live -> Addr] /\ \A a, c \in live : fwd'[a] = fwd'[c] => a = c
  <2> DEFINE n(a) == Cardinality({x \in live \cap Small : x <= a})
  <2>1. /\ \A a \in live \ Big : n(a) \in Small
        /\ \A a, c \in live \ Big : n(a) = n(c) => a = c
    BY <1>3, PlacesDistinct
  <2> HIDE DEF n
  <2>2. fwd' = [a \in live |-> IF a \in Big THEN a ELSE n(a)]
    BY <1>1 DEF n
  <2>3. Small \cap Big = {}
    BY PoolAssumption DEF Small, Big
  <2>. QED BY <2>1, <2>2, <2>3 DEF Addr
<1>8. Phases'
  <2>1. DOMAIN heap' = live' /\ Chained' = Chained
    BY <1>1 DEF Chained
  <2>2. fwd' \in [live' -> Addr] /\ \A a, c \in live' : fwd'[a] = fwd'[c] => a = c
    BY <1>1, <1>7
  <2>3. live' = held' /\ held' = Chained'
    BY <1>1, <1>2, <2>1
  <2>. QED BY <1>1, <2>1, <2>2, <2>3 DEF Phases
<1>. QED BY <1>4, <1>6, <1>8 DEF PoolInv

\* Before the symbols move, a new place stands for the string of the symbol
\* that it is for.
LEMMA UpdateRefsPool ==
  ASSUME PoolInv, UpdateRefs
  PROVE  PoolInv'
<1>1. /\ gc = "placed" /\ gc' = "updated"
      /\ held' = {fwd[a] : a \in held}
      /\ pool' = [b \in Buckets |-> [k \in DOMAIN pool[b] |-> fwd[pool[b][k]]]]
      /\ UNCHANGED <<heap, wanted, live, fwd>>
  BY DEF UpdateRefs
<1>2. /\ live = held /\ held = Chained /\ DOMAIN heap = live
      /\ fwd \in [live -> Addr]
      /\ \A a, c \in live : fwd[a] = fwd[c] => a = c
  BY <1>1 DEF PoolInv, Phases
<1>3. \A b \in Buckets : \A i \in DOMAIN pool[b] : pool[b][i] \in live
  BY <1>2, ChainedIs
<1>4. \A b \in Buckets : DOMAIN pool'[b] = DOMAIN pool[b]
         /\ \A i \in DOMAIN pool[b] : pool'[b][i] = fwd[pool[b][i]]
  BY <1>1
<1>5. pool' \in [Buckets -> Seq(Addr)]
  <2>1. ASSUME NEW b \in Buckets
        PROVE  [k \in DOMAIN pool[b] |-> fwd[pool[b][k]]] \in Seq(Addr)
    <3>1. pool[b] \in Seq(Addr)
      BY DEF PoolInv, TypeInv
    <3>2. Len(pool[b]) \in Nat /\ DOMAIN pool[b] = 1 .. Len(pool[b])
      BY <3>1
    <3>3. \A k \in 1 .. Len(pool[b]) : fwd[pool[b][k]] \in Addr
      BY <1>2, <1>3, <3>2
    <3>. QED BY <3>2, <3>3
  <2>. QED BY <1>1, <2>1
<1>6. TypeInv'
  BY <1>1, <1>5 DEF PoolInv, TypeInv
<1>7. Moved' = {fwd[a] : a \in live}
  BY <1>1 DEF Moved
<1>8. Text' = [x \in Moved' |-> heap[CHOOSE a \in live : fwd[a] = x]]
  BY <1>1 DEF Text, Moved
<1>9. ASSUME NEW a \in live PROVE fwd[a] \in DOMAIN Text' /\ Text'[fwd[a]] = heap[a]
  <2>1. (CHOOSE c \in live : fwd[c] = fwd[a]) = a
    BY <1>2
  <2>. QED BY <1>7, <1>8, <2>1
<1>10. ChainsOK'
  <2>1. ASSUME NEW b \in Buckets, NEW i \in DOMAIN pool[b]
        PROVE  /\ pool'[b][i] \in DOMAIN Text'
               /\ Text'[pool'[b][i]] = heap[pool[b][i]]
    BY <1>3, <1>4, <1>9
  <2>2. \A b \in Buckets : ChainOK(b)
    BY DEF PoolInv, ChainsOK
  <2>3. ASSUME NEW b \in Buckets, NEW i \in DOMAIN pool'[b]
        PROVE  /\ pool'[b][i] \in DOMAIN Text'
               /\ BucketOf[Text'[pool'[b][i]]] = b
               /\ Text'[pool'[b][i]] \notin wanted'
               /\ \A j \in DOMAIN pool'[b] :
                     Text'[pool'[b][i]] = Text'[pool'[b][j]] => i = j
    <3>1. Text = heap /\ wanted' = wanted
      BY <1>1 DEF Text
    <3>2. /\ pool[b][i] \in DOMAIN heap
          /\ BucketOf[heap[pool[b][i]]] = b
          /\ heap[pool[b][i]] \notin wanted
          /\ \A j \in DOMAIN pool[b] : heap[pool[b][i]] = heap[pool[b][j]] => i = j
      BY <1>4, <2>2, <3>1 DEF ChainOK
    <3>3. \A j \in DOMAIN pool'[b] : Text'[pool'[b][j]] = heap[pool[b][j]]
      BY <1>4, <2>1
    <3>4. pool'[b][i] \in DOMAIN Text' /\ i \in DOMAIN pool'[b]
      BY <1>4, <2>1
    <3>. QED BY <1>4, <3>1, <3>2, <3>3, <3>4
  <2>. QED BY <2>3 DEF ChainsOK, ChainOK, Buckets
<1>11. Chained' = {fwd[a] : a \in Chained}
  <2>1. \A x : x \in Chained' <=> \E b \in Buckets : \E i \in DOMAIN pool'[b] : pool'[b][i] = x
    BY DEF Chained, ToSet, Buckets
  <2>. QED BY <1>4, <2>1, ChainedIs
<1>12. Phases'
  BY <1>1, <1>2, <1>7, <1>11 DEF Phases
<1>. QED BY <1>6, <1>10, <1>12 DEF PoolInv

LEMMA MovePool ==
  ASSUME PoolInv, MoveSymbols
  PROVE  PoolInv'
<1>1. /\ gc = "updated" /\ gc' = "none" /\ live' = {}
      /\ heap' = Text
      /\ UNCHANGED <<pool, held, wanted>>
  BY DEF MoveSymbols, Text, Moved
<1>2. /\ held = Moved /\ held = Chained /\ DOMAIN heap = live
      /\ fwd \in [live -> Addr]
  BY <1>1 DEF PoolInv, Phases
<1>3. DOMAIN Text = Moved
  BY <1>1 DEF Text
<1>4. Text' = Text
  BY <1>1 DEF Text
<1>5. TypeInv'
  <2>1. Moved \subseteq Addr
    BY <1>2 DEF Moved
  <2>2. Text \in [Moved -> Strings]
    <3>1. ASSUME NEW x \in Moved PROVE Text[x] \in Strings
      <4>1. (CHOOSE a \in live : fwd[a] = x) \in live
        BY DEF Moved
      <4>. QED BY <1>1, <1>2, <4>1 DEF Text, PoolInv, TypeInv
    <3>. QED BY <1>1, <3>1 DEF Text
  <2>. QED BY <1>1, <1>3, <2>1, <2>2 DEF PoolInv, TypeInv
<1>6. ChainsOK'
  BY <1>1, <1>4 DEF PoolInv, ChainsOK, ChainOK
<1>7. Phases'
  BY <1>1, <1>2 DEF Phases, Chained
<1>. QED BY <1>5, <1>6, <1>7 DEF PoolInv

LEMMA StutterPool ==
  ASSUME PoolInv, UNCHANGED vars
  PROVE  PoolInv'
<1>1. UNCHANGED <<heap, pool, held, wanted, gc, live, fwd>>
  BY DEF vars
<1>2. Text' = Text /\ Moved' = Moved /\ Chained' = Chained
  BY <1>1 DEF Text, Moved, Chained
<1>. QED BY <1>1, <1>2 DEF PoolInv, TypeInv, ChainsOK, ChainOK, Phases

-----------------------------------------------------------------------------
\* The theorems.

\* PoolInv holds in every state.
LEMMA PoolAlways == Spec => []PoolInv
<1>1. PoolInv /\ [Next]_vars => PoolInv'
  <2> SUFFICES ASSUME PoolInv, [Next]_vars PROVE PoolInv'
    OBVIOUS
  <2>. QED BY FindPool, MissPool, AddPool, ForgetPool, MarkPool, CleanPoolStep,
              ReallocPool, UpdateRefsPool, MovePool, StutterPool DEF Next
<1>. QED BY InitPool, <1>1, PTL DEF Spec

\* Two symbols of the program with one string are one object: the pool's find
\* and add keep it, whatever a collection does in between.
THEOREM UniqueSymbols == Spec => []SymbolsUnique
<1>1. PoolInv => SymbolsUnique
  <2> SUFFICES ASSUME PoolInv, gc = "none",
                      NEW a \in held, NEW c \in held, heap[a] = heap[c]
               PROVE  a = c
    BY DEF SymbolsUnique
  <2>1. held \subseteq Chained /\ Text = heap /\ ChainsOK
    BY DEF PoolInv, Phases, Text
  <2>2. PICK b \in Buckets : \E i \in DOMAIN pool[b] : pool[b][i] = a
    BY <2>1, ChainedIs
  <2>3. PICK d \in Buckets : \E i \in DOMAIN pool[d] : pool[d][i] = c
    BY <2>1, ChainedIs
  <2>. QED BY <2>1, <2>2, <2>3 DEF ChainsOK, ChainOK
<1>. QED BY PoolAlways, <1>1, PTL

\* Between collections the pool has every symbol of the program, each once, in
\* the chain of its string, and no symbol that is gone: the weak references are
\* cleaned and updated.
THEOREM SoundPool == Spec => []PoolSound
<1>1. PoolInv => PoolSound
  <2> SUFFICES ASSUME PoolInv, gc = "none"
               PROVE  /\ held \subseteq Chained /\ Chained \subseteq DOMAIN heap
                      /\ \A b \in Buckets : IsInjective(pool[b]) /\
                          \A k \in DOMAIN pool[b] : BucketOf[heap[pool[b][k]]] = b
    BY DEF PoolSound
  <2>1. held \subseteq Chained /\ Text = heap /\ ChainsOK
    BY DEF PoolInv, Phases, Text
  <2>2. Chained \subseteq DOMAIN heap
    BY <2>1, ChainedIs DEF ChainsOK, ChainOK
  <2>3. \A b \in Buckets : IsInjective(pool[b])
    BY <2>1 DEF IsInjective, ChainsOK, ChainOK
  <2>. QED BY <2>1, <2>2, <2>3 DEF ChainsOK, ChainOK
<1>. QED BY PoolAlways, <1>1, PTL

\* The step that moves the symbols finds the program's references already at
\* the new places, with the strings they had.
THEOREM KeptSymbols == Spec => HeldKept
<1>1. PoolInv /\ [Next]_vars =>
        [gc = "updated" =>
            held' \subseteq DOMAIN heap' /\ {heap[a] : a \in live} = {heap'[a] : a \in held'}]_vars
  <2> SUFFICES ASSUME PoolInv, Next, gc = "updated"
               PROVE  held' \subseteq DOMAIN heap'
                      /\ {heap[a] : a \in live} = {heap'[a] : a \in held'}
    BY DEF vars
  <2>1. MoveSymbols
    BY DEF Next, FindSymbol, MissSymbol, AddSymbol, Forget, Mark, CleanPool, Realloc,
           UpdateRefs
  <2>2. /\ heap' = [x \in Moved |-> heap[CHOOSE a \in live : fwd[a] = x]]
        /\ held' = Moved
    BY <2>1 DEF MoveSymbols, Moved, PoolInv, Phases
  <2>3. \A a, c \in live : fwd[a] = fwd[c] => a = c
    BY DEF PoolInv, Phases
  <2>4. ASSUME NEW a \in live PROVE fwd[a] \in Moved /\ heap'[fwd[a]] = heap[a]
    <3>1. (CHOOSE c \in live : fwd[c] = fwd[a]) = a
      BY <2>3
    <3>. QED BY <2>2, <3>1 DEF Moved
  <2>5. \A x \in held' : \E a \in live : x = fwd[a]
    BY <2>2 DEF Moved
  <2>. QED BY <2>2, <2>4, <2>5, SMTT(30)
<1>. QED BY PoolAlways, <1>1, PTL DEF Spec, HeldKept
=============================================================================
