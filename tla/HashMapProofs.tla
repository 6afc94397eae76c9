---------------------------- MODULE HashMapProofs ----------------------------
(***************************************************************************)
(* Proofs about HashMap, for all sets of maps, keys and values and every   *)
(* hash function: its maps are sound, and it is a dictionary.              *)
(*                                                                         *)
(* The walks of ow_hashmap_rehash() and ow_hashmap_extend() are recursive  *)
(* functions; what they compute is shown by induction over the steps of    *)
(* the walk.                                                               *)
(***************************************************************************)
EXTENDS HashMap, FiniteSetTheorems, WellFoundedInduction, SequenceTheorems, TLAPS

-----------------------------------------------------------------------------
(* Numbers and sequences.  Induction over the natural numbers is stated with
   sets: the library's theorems take an operator, which the provers cannot
   instantiate, but a set of numbers is a value like any other. *)

\* "Less than" as a set of pairs.
LEMMA LessPairs == OpToRel(<, Nat) = {p \in Nat \X Nat : p[1] < p[2]}
  BY Zenon DEF OpToRel

\* A set of natural numbers that is not empty has a least element.
LEMMA LeastElement ==
  ASSUME NEW S \in SUBSET Nat, S # {}
  PROVE  \E x \in S : \A y \in S : x <= y
<1>1. \E x \in S : \A y \in S : ~ (<<y, x>> \in OpToRel(<, Nat))
  BY WFMin, NatLessThanWellFounded, Zenon
<1>2. PICK x \in S : \A y \in S : ~ (<<y, x>> \in {p \in Nat \X Nat : p[1] < p[2]})
  BY <1>1, LessPairs, Zenon
<1>3. ASSUME NEW y \in S PROVE x <= y
  <2>1. <<y, x>> \in Nat \X Nat /\ ~ (<<y, x>> \in {p \in Nat \X Nat : p[1] < p[2]})
    BY <1>2
  <2>2. ~ (y < x)
    BY <2>1
  <2>. QED BY <2>2
<1>. QED BY <1>3

\* Min is it.
LEMMA MinIs ==
  ASSUME NEW S \in SUBSET Nat, S # {}
  PROVE  Min(S) \in S /\ \A y \in S : Min(S) <= y
<1>1. \E x \in S : \A y \in S : x <= y
  BY LeastElement
<1>. QED BY <1>1 DEF Min

\* A set with 0 and, for each of its elements, the next number has them all.
LEMMA SetInduction ==
  ASSUME NEW S, 0 \in S, \A n \in Nat : n \in S => n + 1 \in S
  PROVE  Nat \subseteq S
<1> SUFFICES ASSUME Nat \ S # {} PROVE FALSE
  OBVIOUS
<1>1. PICK x \in Nat \ S : \A y \in Nat \ S : x <= y
  BY LeastElement
<1>2. x # 0 /\ x - 1 \in Nat
  OBVIOUS
<1>3. x - 1 \in S
  BY <1>1, <1>2
<1>. QED BY <1>2, <1>3

\* Sequences of at most one element.
LEMMA ShortSequences ==
  ASSUME NEW S
  PROVE  /\ <<>> \in Seq(S) /\ Len(<<>>) = 0 /\ DOMAIN <<>> = {}
         /\ \A x \in S : /\ <<x>> \in Seq(S) /\ Len(<<x>>) = 1
                         /\ DOMAIN <<x>> = {1} /\ <<x>>[1] = x
  OBVIOUS

\* An element taken out of a sequence leaves the others, in order.
LEMMA RemoveAtIs ==
  ASSUME NEW S, NEW q \in Seq(S), NEW k \in DOMAIN q
  PROVE  /\ RemoveAt(q, k) \in Seq(S)
         /\ DOMAIN RemoveAt(q, k) = 1 .. Len(q) - 1
         /\ \A i \in 1 .. Len(q) - 1 :
               RemoveAt(q, k)[i] = IF i < k THEN q[i] ELSE q[i + 1]
<1> DEFINE u == SubSeq(q, 1, k - 1)
           v == SubSeq(q, k + 1, Len(q))
<1>1. k \in Nat /\ 1 <= k /\ k <= Len(q) /\ Len(q) \in Nat
  OBVIOUS
<1>2. u \in Seq(S) /\ Len(u) = k - 1 /\ \A i \in 1 .. k - 1 : u[i] = q[i]
  BY <1>1
<1>3. v \in Seq(S) /\ Len(v) = Len(q) - k /\ \A i \in 1 .. Len(q) - k : v[i] = q[i + k]
  BY <1>1
<1>4. RemoveAt(q, k) = u \o v
  BY DEF RemoveAt
<1> HIDE DEF u, v
<1>5. u \o v \in Seq(S) /\ Len(u \o v) = Len(q) - 1
  BY <1>1, <1>2, <1>3
<1>6. ASSUME NEW i \in 1 .. Len(q) - 1
      PROVE  (u \o v)[i] = IF i < k THEN q[i] ELSE q[i + 1]
  <2>1. CASE i < k
    <3>1. i \in 1 .. Len(u)
      BY <1>1, <1>2, <2>1
    <3>. QED BY <1>2, <1>3, <2>1, <3>1
  <2>2. CASE ~ (i < k)
    <3>1. i - (k - 1) \in 1 .. Len(q) - k /\ (i - (k - 1)) + k = i + 1
      BY <1>1, <2>2
    <3>2. (u \o v)[i] = v[i - Len(u)]
      BY SMTT(40), <1>1, <1>2, <1>3, <2>2
    <3>3. v[i - (k - 1)] = q[i + 1]
      BY <1>3, <3>1
    <3>. QED BY <1>2, <2>2, <3>2, <3>3
  <2>. QED BY <2>1, <2>2
<1>7. DOMAIN (u \o v) = 1 .. Len(q) - 1
  BY <1>5
<1>. QED BY <1>4, <1>5, <1>6, <1>7

\* The values that a, an element of T, has after each of n steps.
HasSteps(T, a, n, step) ==
    \E f \in [0 .. n -> T] : f[0] = a /\ \A i \in 1 .. n : f[i] = step[i][f[i - 1]]

LEMMA Iterates ==
  ASSUME NEW T, NEW a \in T, NEW n \in Nat, NEW step \in [1 .. n -> [T -> T]]
  PROVE  HasSteps(T, a, n, step)
<1> DEFINE Done(m) == \E f \in [0 .. m -> T] :
                         f[0] = a /\ \A i \in 1 .. m : f[i] = step[i][f[i - 1]]
           S == {m \in Nat : m <= n => Done(m)}
<1>1. 0 \in S
  <2> DEFINE f == [i \in 0 .. 0 |-> a]
  <2>1. f \in [0 .. 0 -> T] /\ f[0] = a /\ \A i \in 1 .. 0 : f[i] = step[i][f[i - 1]]
    OBVIOUS
  <2>. QED BY <2>1
<1>2. ASSUME NEW m \in Nat, m \in S PROVE m + 1 \in S
  <2>1. SUFFICES ASSUME m + 1 <= n PROVE Done(m + 1)
    OBVIOUS
  <2>2. PICK f \in [0 .. m -> T] : f[0] = a /\ \A i \in 1 .. m : f[i] = step[i][f[i - 1]]
    BY <1>2, <2>1
  <2>3. step[m + 1][f[m]] \in T
    BY <2>1, <2>2
  <2> DEFINE g == [i \in 0 .. m + 1 |-> IF i = m + 1 THEN step[m + 1][f[m]] ELSE f[i]]
  <2>4. g \in [0 .. m + 1 -> T]
    BY <2>2, <2>3
  <2>5. g[m + 1] = step[m + 1][f[m]] /\ \A i \in 0 .. m : g[i] = f[i]
    OBVIOUS
  <2> HIDE DEF g
  <2>6. ASSUME NEW i \in 1 .. m + 1 PROVE g[i] = step[i][g[i - 1]]
    <3>1. CASE i = m + 1
      <4>1. g[i - 1] = f[m]
        BY <2>5, <3>1
      <4>. QED BY <2>5, <3>1, <4>1
    <3>2. CASE i # m + 1
      <4>1. i \in 1 .. m /\ i - 1 \in 0 .. m /\ i \in 0 .. m
        BY <3>2
      <4>. QED BY <2>2, <2>5, <4>1
    <3>. QED BY <3>1, <3>2
  <2>. QED BY <2>2, <2>4, <2>5, <2>6, SMTT(30)
<1>. QED
  <2> HIDE DEF Done
  <2>1. Nat \subseteq S
    BY <1>1, <1>2, SetInduction
  <2>2. Done(n)
    BY <2>1
  <2>. QED BY <2>2 DEF Done, HasSteps

\* A function on 0 .. n whose steps stay in a set.
LEMMA StepsStay ==
  ASSUME NEW T, NEW n \in Nat, NEW h, h = [i \in 0 .. n |-> h[i]], h[0] \in T,
         \A i \in 1 .. n : h[i - 1] \in T => h[i] \in T
  PROVE  h \in [0 .. n -> T]
<1> DEFINE S == {i \in Nat : i <= n => h[i] \in T}
<1>1. 0 \in S
  OBVIOUS
<1>2. ASSUME NEW i \in Nat, i \in S PROVE i + 1 \in S
  <2>1. SUFFICES ASSUME i + 1 <= n PROVE h[i + 1] \in T
    OBVIOUS
  <2>2. i + 1 \in 1 .. n /\ (i + 1) - 1 = i /\ i <= n
    BY <2>1
  <2>3. h[i] \in T
    BY <1>2, <2>2
  <2>. QED BY <2>2, <2>3
<1>3. \A i \in 0 .. n : h[i] \in T
  <2> HIDE DEF S
  <2>1. Nat \subseteq S
    BY <1>1, <1>2, SetInduction
  <2>2. \A i \in 0 .. n : i \in Nat /\ i <= n
    OBVIOUS
  <2>. QED BY <2>1, <2>2 DEF S
<1>. QED BY <1>3

\* Where the elements of two sequences, one after the other, come from.
LEMMA ConcatIs ==
  ASSUME NEW S, NEW s \in Seq(S), NEW u \in Seq(S)
  PROVE  /\ s \o u \in Seq(S) /\ Len(s \o u) = Len(s) + Len(u)
         /\ \A k \in DOMAIN (s \o u) :
               \/ k \in DOMAIN s /\ (s \o u)[k] = s[k]
               \/ \E i \in DOMAIN u : k = Len(s) + i /\ (s \o u)[k] = u[i]
         /\ \A k \in DOMAIN s : k \in DOMAIN (s \o u) /\ (s \o u)[k] = s[k]
         /\ \A i \in DOMAIN u : Len(s) + i \in DOMAIN (s \o u) /\ (s \o u)[Len(s) + i] = u[i]
<1> DEFINE t == s \o u
<1>1. /\ t \in Seq(S) /\ Len(t) = Len(s) + Len(u) /\ DOMAIN t = 1 .. Len(s) + Len(u)
      /\ Len(s) \in Nat /\ Len(u) \in Nat /\ DOMAIN s = 1 .. Len(s) /\ DOMAIN u = 1 .. Len(u)
  OBVIOUS
<1>2. \A k \in 1 .. Len(s) : t[k] = s[k]
  OBVIOUS
<1>3. \A i \in 1 .. Len(u) : t[Len(s) + i] = u[i]
  OBVIOUS
<1> HIDE DEF t
<1>4. ASSUME NEW k \in 1 .. Len(s) + Len(u)
      PROVE  \/ k \in 1 .. Len(s)
             \/ k - Len(s) \in 1 .. Len(u) /\ k = Len(s) + (k - Len(s))
  BY <1>1
<1>5. \A k \in 1 .. Len(s) : k \in 1 .. Len(s) + Len(u)
  BY <1>1
<1>6. \A i \in 1 .. Len(u) : Len(s) + i \in 1 .. Len(s) + Len(u)
  BY <1>1
<1>7. ASSUME NEW k \in DOMAIN t
      PROVE  \/ k \in DOMAIN s /\ t[k] = s[k]
             \/ \E i \in DOMAIN u : k = Len(s) + i /\ t[k] = u[i]
  <2>1. CASE k \in 1 .. Len(s)
    BY <1>1, <1>2, <2>1
  <2>2. CASE k - Len(s) \in 1 .. Len(u) /\ k = Len(s) + (k - Len(s))
    <3>1. t[k] = u[k - Len(s)]
      BY <1>3, <2>2
    <3>. QED BY <1>1, <2>2, <3>1
  <2>. QED BY <1>1, <1>4, <2>1, <2>2
<1>8. /\ \A k \in DOMAIN s : k \in DOMAIN t /\ t[k] = s[k]
      /\ \A i \in DOMAIN u : Len(s) + i \in DOMAIN t /\ t[Len(s) + i] = u[i]
  BY <1>1, <1>2, <1>3, <1>5, <1>6
<1>. QED BY <1>1, <1>7, <1>8 DEF t

-----------------------------------------------------------------------------
\* The inductive invariant.

Buckets == Seq(Seq(Node))

\* Each node is in the bucket of its hash, which is the hash of its key, and
\* no other node of the bucket has the key.
Placed(bs) ==
    \A b \in DOMAIN bs : \A i \in DOMAIN bs[b] :
        /\ bs[b][i].key_hash = Hash[bs[b][i].key]
        /\ b = (bs[b][i].key_hash % Len(bs)) + 1
        /\ \A j \in DOMAIN bs[b] : bs[b][i].key = bs[b][j].key => i = j

Sound(t) ==
    /\ t \in [size : Nat, buckets : Buckets]
    /\ Placed(t.buckets)
    /\ IsFiniteSet(NodeSet(t)) /\ t.size = Cardinality(NodeSet(t))

\* What the last call returned.
Returned == ret \in Val \cup BOOLEAN \cup {NULL} /\ fault \in BOOLEAN

HashMapInv ==
    /\ DOMAIN map = Map /\ map = [m \in Map |-> map[m]]
    /\ \A m \in Map : Sound(map[m])
    /\ Returned

-----------------------------------------------------------------------------
\* Sequences of nodes.

LEMMA InBuckets ==
  ASSUME NEW bs
  PROVE  \A n : n \in NodesOf(bs) <=> \E b \in DOMAIN bs : \E i \in DOMAIN bs[b] : bs[b][i] = n
BY DEF NodesOf, Range

LEMMA WhereIs ==
  ASSUME NEW bs, NEW n, n \in NodesOf(bs)
  PROVE  \E b \in DOMAIN bs : \E i \in DOMAIN bs[b] : bs[b][i] = n
BY InBuckets, Zenon

LEMMA BucketsAre ==
  ASSUME NEW bs \in Buckets
  PROVE  /\ Len(bs) \in Nat /\ DOMAIN bs = 1 .. Len(bs)
         /\ \A b \in 1 .. Len(bs) : bs[b] \in Seq(Node) /\ DOMAIN bs[b] = 1 .. Len(bs[b])
                                    /\ Len(bs[b]) \in Nat
         /\ \A b \in 1 .. Len(bs) : \A i \in 1 .. Len(bs[b]) : bs[b][i] \in Node
<1>1. bs \in Seq(Seq(Node))
  BY DEF Buckets
<1>2. \A b \in 1 .. Len(bs) : bs[b] \in Seq(Node)
  BY <1>1
<1>3. \A s \in Seq(Node) : DOMAIN s = 1 .. Len(s) /\ Len(s) \in Nat
                           /\ \A i \in 1 .. Len(s) : s[i] \in Node
  OBVIOUS
<1>. QED BY <1>1, <1>2, <1>3

LEMMA NodeIs ==
  ASSUME NEW n \in Node
  PROVE  n.key \in Key /\ n.key_hash \in Nat /\ n.value \in Val
BY DEF Node

\* A bucket is one of the buckets.
LEMMA BucketInRange ==
  ASSUME NEW h \in Nat, NEW n \in Nat, n # 0
  PROVE  (h % n) + 1 \in 1 .. n
<1>1. h % n \in 0 .. n - 1
  OBVIOUS
<1>. QED BY <1>1

LEMMA NodesInNode ==
  ASSUME NEW bs \in Buckets
  PROVE  NodesOf(bs) \subseteq Node
BY InBuckets, BucketsAre

\* In placed buckets a key has one node.
LEMMA OneNode ==
  ASSUME NEW bs \in Buckets, Placed(bs), NEW n \in NodesOf(bs), NEW m \in NodesOf(bs), n.key = m.key
  PROVE  n = m
<1>1. PICK b \in DOMAIN bs : \E i \in DOMAIN bs[b] : bs[b][i] = n
  BY InBuckets
<1>2. PICK i \in DOMAIN bs[b] : bs[b][i] = n
  BY <1>1
<1>3. PICK c \in DOMAIN bs : \E j \in DOMAIN bs[c] : bs[c][j] = m
  BY InBuckets
<1>4. PICK j \in DOMAIN bs[c] : bs[c][j] = m
  BY <1>3
<1>5. b = c
  BY <1>2, <1>4 DEF Placed
<1>. QED BY <1>2, <1>4, <1>5 DEF Placed

\* cs has the nodes of bs, each where it was, and the node n at k in bucket b.
Grown(bs, cs, b, k, n) ==
    /\ DOMAIN cs = DOMAIN bs
    /\ b \in DOMAIN cs /\ k \in DOMAIN cs[b] /\ cs[b][k] = n
    /\ \A c \in DOMAIN cs : \A i \in DOMAIN cs[c] :
          (i \in DOMAIN bs[c] /\ cs[c][i] = bs[c][i]) \/ (c = b /\ i = k)
    /\ \A c \in DOMAIN bs : \A i \in DOMAIN bs[c] : i \in DOMAIN cs[c] /\ cs[c][i] = bs[c][i]

\* The bucket of a node, of so many.
Home(n, count) == (n.key_hash % count) + 1

\* A node appended to it.
PutIn(bs, n, count) == [bs EXCEPT ![Home(n, count)] = Append(@, n)]

Fresh(bs, n) == \A m \in NodesOf(bs) : m.key # n.key

LEMMA GrownNodes ==
  ASSUME NEW bs, NEW cs, NEW b, NEW k, NEW n, Grown(bs, cs, b, k, n)
  PROVE  NodesOf(cs) = NodesOf(bs) \cup {n}
<1>1. ASSUME NEW m, m \in NodesOf(cs) PROVE m \in NodesOf(bs) \cup {n}
  <2>1. PICK c \in DOMAIN cs : \E i \in DOMAIN cs[c] : cs[c][i] = m
    BY <1>1, InBuckets, Zenon
  <2>2. PICK i \in DOMAIN cs[c] : cs[c][i] = m
    BY <2>1
  <2>3. c \in DOMAIN bs
    BY DEF Grown
  <2>4. CASE i \in DOMAIN bs[c] /\ cs[c][i] = bs[c][i]
    <3>1. \E d \in DOMAIN bs : \E h \in DOMAIN bs[d] : bs[d][h] = m
      BY <2>2, <2>3, <2>4, Zenon
    <3>. QED BY <3>1, InBuckets, Zenon
  <2>5. CASE c = b /\ i = k
    BY <2>2, <2>5 DEF Grown
  <2>. QED BY <2>4, <2>5 DEF Grown
<1>2. ASSUME NEW m, m \in NodesOf(bs) PROVE m \in NodesOf(cs)
  <2>1. PICK c \in DOMAIN bs : \E i \in DOMAIN bs[c] : bs[c][i] = m
    BY <1>2, InBuckets, Zenon
  <2>2. PICK i \in DOMAIN bs[c] : bs[c][i] = m
    BY <2>1
  <2>3. c \in DOMAIN cs /\ i \in DOMAIN cs[c] /\ cs[c][i] = m
    BY <2>2 DEF Grown
  <2>. QED BY <2>3, InBuckets, Zenon
<1>3. n \in NodesOf(cs)
  <2>1. b \in DOMAIN cs /\ k \in DOMAIN cs[b] /\ cs[b][k] = n
    BY DEF Grown
  <2>. QED BY <2>1, InBuckets, Zenon
<1>. QED BY <1>1, <1>2, <1>3

LEMMA GrownPlaced ==
  ASSUME NEW bs, NEW cs, NEW k, NEW n, Grown(bs, cs, Home(n, Len(bs)), k, n),
         Placed(bs), Fresh(bs, n), Len(cs) = Len(bs), n.key_hash = Hash[n.key]
  PROVE  Placed(cs)
<1> DEFINE b == Home(n, Len(bs))
<1>1. DOMAIN cs = DOMAIN bs /\ cs[b][k] = n
  BY DEF Grown
<1>2. ASSUME NEW c \in DOMAIN cs, NEW i \in DOMAIN cs[c]
      PROVE  /\ cs[c][i].key_hash = Hash[cs[c][i].key]
             /\ c = (cs[c][i].key_hash % Len(cs)) + 1
  <2>1. CASE i \in DOMAIN bs[c] /\ cs[c][i] = bs[c][i]
    <3>1. /\ bs[c][i].key_hash = Hash[bs[c][i].key]
          /\ c = (bs[c][i].key_hash % Len(bs)) + 1
      BY <1>1, <2>1 DEF Placed
    <3>. QED BY <2>1, <3>1
  <2>2. CASE c = b /\ i = k
    BY <1>1, <2>2 DEF Home
  <2>. QED BY <2>1, <2>2 DEF Grown
<1>3. ASSUME NEW c \in DOMAIN cs, NEW i \in DOMAIN cs[c], NEW j \in DOMAIN cs[c],
             cs[c][i].key = cs[c][j].key
      PROVE  i = j
  <2>1. \A h \in DOMAIN bs[c] : bs[c][h].key # n.key
    <3>1. ASSUME NEW h \in DOMAIN bs[c] PROVE bs[c][h].key # n.key
      <4>1. bs[c][h] \in NodesOf(bs)
        BY <1>1, InBuckets, Zenon
      <4>. QED BY <4>1 DEF Fresh
    <3>. QED BY <3>1
  <2>2. /\ (i \in DOMAIN bs[c] /\ cs[c][i] = bs[c][i]) \/ (c = b /\ i = k)
        /\ (j \in DOMAIN bs[c] /\ cs[c][j] = bs[c][j]) \/ (c = b /\ j = k)
    BY DEF Grown
  <2>3. \A x, y \in DOMAIN bs[c] : bs[c][x].key = bs[c][y].key => x = y
    BY <1>1 DEF Placed
  <2>. QED BY <1>1, <1>3, <2>1, <2>2, <2>3
<1>. QED BY <1>2, <1>3 DEF Placed

\* A node appended to the bucket of its hash.
LEMMA AppendedIs ==
  ASSUME NEW bs \in Buckets, Placed(bs), NEW n \in Node, n.key_hash = Hash[n.key],
         Len(bs) # 0, Fresh(bs, n),
         NEW cs, cs = PutIn(bs, n, Len(bs))
  PROVE  /\ cs \in Buckets /\ Len(cs) = Len(bs) /\ Placed(cs)
         /\ NodesOf(cs) = NodesOf(bs) \cup {n}
<1> DEFINE b == Home(n, Len(bs))
<1>1. b \in 1 .. Len(bs) /\ Len(bs) \in Nat /\ DOMAIN bs = 1 .. Len(bs)
  BY BucketInRange, BucketsAre, NodeIs DEF Home
<1>2. bs[b] \in Seq(Node) /\ Len(bs[b]) \in Nat /\ DOMAIN bs[b] = 1 .. Len(bs[b])
  BY <1>1, BucketsAre
<1> DEFINE s == bs[b]
           a == Append(bs[b], n)
<1>3. /\ a \in Seq(Node) /\ Len(a) = Len(s) + 1 /\ DOMAIN a = 1 .. Len(s) + 1
      /\ \A i \in 1 .. Len(s) : a[i] = s[i]
      /\ a[Len(s) + 1] = n
  BY <1>2, AppendProperties
<1>4. cs = [bs EXCEPT ![b] = a]
  BY DEF PutIn
<1> HIDE DEF a, b
<1>5. cs \in Buckets /\ Len(cs) = Len(bs) /\ DOMAIN cs = 1 .. Len(bs)
  BY <1>1, <1>3, <1>4, ExceptSeq DEF Buckets
<1>6. cs[b] = a /\ \A c \in 1 .. Len(bs) : c # b => cs[c] = bs[c]
  BY <1>1, <1>4
<1>7. \A c \in 1 .. Len(bs) : \A i \in DOMAIN cs[c] :
         \/ i \in DOMAIN bs[c] /\ cs[c][i] = bs[c][i]
         \/ c = b /\ i = Len(s) + 1 /\ cs[c][i] = n
  <2>1. \A i \in 1 .. Len(s) + 1 : i \in 1 .. Len(s) \/ i = Len(s) + 1
    BY <1>2
  <2>. QED BY <1>2, <1>3, <1>6, <2>1
<1>8. \A c \in 1 .. Len(bs) : \A i \in DOMAIN bs[c] : i \in DOMAIN cs[c] /\ cs[c][i] = bs[c][i]
  <2>1. \A i \in 1 .. Len(s) : i \in 1 .. Len(s) + 1
    BY <1>2
  <2>. QED BY <1>2, <1>3, <1>6, <2>1
<1>9. b \in DOMAIN cs /\ Len(s) + 1 \in DOMAIN cs[b] /\ cs[b][Len(s) + 1] = n
  <2>1. Len(s) + 1 \in 1 .. Len(s) + 1
    BY <1>2
  <2>. QED BY <1>1, <1>3, <1>5, <1>6, <2>1
<1>10. Grown(bs, cs, b, Len(s) + 1, n)
  <2>1. DOMAIN cs = DOMAIN bs
    BY <1>1, <1>5
  <2>2. \A c \in DOMAIN cs : \A i \in DOMAIN cs[c] :
           (i \in DOMAIN bs[c] /\ cs[c][i] = bs[c][i]) \/ (c = b /\ i = Len(s) + 1)
    BY <1>5, <1>7
  <2>3. \A c \in DOMAIN bs : \A i \in DOMAIN bs[c] : i \in DOMAIN cs[c] /\ cs[c][i] = bs[c][i]
    BY <1>1, <1>8
  <2>. QED BY <1>9, <2>1, <2>2, <2>3 DEF Grown
<1>11. Placed(cs) /\ NodesOf(cs) = NodesOf(bs) \cup {n}
  <2>1. NodesOf(cs) = NodesOf(bs) \cup {n}
    BY <1>10, GrownNodes
  <2>2. Placed(cs)
    BY <1>5, <1>10, GrownPlaced DEF b
  <2>. QED BY <2>1, <2>2
<1>. QED BY <1>5, <1>11

-----------------------------------------------------------------------------
\* The walk over the buckets.

LEMMA WalkIs ==
  ASSUME NEW bs \in Buckets
  PROVE  /\ Walk(bs) \in [0 .. Len(bs) -> Seq(Node)]
         /\ Walk(bs)[0] = <<>>
         /\ \A b \in 1 .. Len(bs) : Walk(bs)[b] = Walk(bs)[b - 1] \o bs[b]
<1> DEFINE N == Len(bs)
           T == Seq(Node)
           none == <<>>
           step == [b \in 1 .. N |-> [x \in T |-> x \o bs[b]]]
<1>1. N \in Nat /\ \A b \in 1 .. N : bs[b] \in Seq(Node)
  BY BucketsAre
<1>2. step \in [1 .. N -> [T -> T]]
  <2>1. \A b \in 1 .. N : \A x \in Seq(Node) : x \o bs[b] \in Seq(Node)
    BY <1>1, ConcatProperties
  <2>. QED BY <2>1
<1>3. none \in T
  OBVIOUS
<1>4. \A b \in 1 .. N : \A x \in T : step[b][x] = x \o bs[b]
  OBVIOUS
<1> HIDE DEF N, T, none, step
<1>5. PICK g \in [0 .. N -> T] :
         g[0] = none /\ \A b \in 1 .. N : g[b] = step[b][g[b - 1]]
  <2>1. N \in Nat
    BY <1>1
  <2>2. HasSteps(T, none, N, step)
    BY <1>2, <1>3, <2>1, Iterates, Zenon
  <2>. QED BY <2>2 DEF HasSteps
<1> DEFINE W(f) == [b \in 0 .. N |-> IF b = 0 THEN <<>> ELSE f[b - 1] \o bs[b]]
           h == CHOOSE f : f = W(f)
<1>6. \A b \in 0 .. N : g[b] = IF b = 0 THEN <<>> ELSE g[b - 1] \o bs[b]
  <2>1. ASSUME NEW b \in 0 .. N, b # 0 PROVE g[b] = g[b - 1] \o bs[b]
    <3>1. b \in 1 .. N /\ b - 1 \in 0 .. N
      BY <1>1, <2>1
    <3>2. g[b - 1] \in T
      BY <1>5, <3>1
    <3>. QED BY <1>4, <1>5, <3>1, <3>2
  <2>. QED BY <1>5, <2>1 DEF none
<1>7. g = W(g)
  BY <1>5, <1>6
<1>8. h = W(h)
  BY <1>7, Zenon
<1>9. h = Walk(bs)
  BY Zenon DEF Walk, N
<1> HIDE DEF h
<1>10. DOMAIN h = 0 .. N /\ \A b \in 0 .. N : h[b] = IF b = 0 THEN <<>> ELSE h[b - 1] \o bs[b]
  BY <1>8
<1>11. \A b \in 1 .. N : h[b] = h[b - 1] \o bs[b]
  <2>1. \A b \in 1 .. N : b \in 0 .. N /\ b # 0
    BY <1>1
  <2>. QED BY <1>10, <2>1
<1>12. h[0] = <<>>
  <2>1. 0 \in 0 .. N
    BY <1>1
  <2>. QED BY <1>10, <2>1
<1>13. ASSUME NEW b \in 1 .. N, h[b - 1] \in T PROVE h[b] \in T
  BY <1>1, <1>11, <1>13, ConcatProperties DEF T
<1>14. h \in [0 .. N -> T]
  <2>1. h = [b \in 0 .. N |-> h[b]]
    BY <1>8
  <2> HIDE DEF W
  <2>2. h[0] \in T
    BY <1>3, <1>12 DEF none
  <2>. QED BY <1>1, <1>13, <2>1, <2>2, StepsStay
<1>. QED BY <1>9, <1>11, <1>12, <1>14 DEF N, T

\* s has the nodes of the first c buckets, and each key once.
Collected(bs, c, s) ==
    /\ \A k \in DOMAIN s : \E d \in 1 .. c : \E i \in DOMAIN bs[d] : s[k] = bs[d][i]
    /\ \A d \in 1 .. c : \A i \in DOMAIN bs[d] : \E k \in DOMAIN s : s[k] = bs[d][i]
    /\ \A j, k \in DOMAIN s : s[j].key = s[k].key => j = k

\* In placed buckets the nodes of a key are one.
LEMMA PlacedOnce ==
  ASSUME NEW bs, Placed(bs), NEW b \in DOMAIN bs, NEW c \in DOMAIN bs,
         NEW i \in DOMAIN bs[b], NEW j \in DOMAIN bs[c], bs[b][i].key = bs[c][j].key
  PROVE  b = c /\ i = j
<1>1. /\ bs[b][i].key_hash = Hash[bs[b][i].key] /\ b = (bs[b][i].key_hash % Len(bs)) + 1
      /\ bs[c][j].key_hash = Hash[bs[c][j].key] /\ c = (bs[c][j].key_hash % Len(bs)) + 1
  BY DEF Placed
<1>2. b = c
  BY <1>1
<1>. QED BY <1>2 DEF Placed

LEMMA CollectedNext ==
  ASSUME NEW bs \in Buckets, Placed(bs), NEW c \in Nat, c + 1 <= Len(bs),
         NEW s \in Seq(Node), Collected(bs, c, s)
  PROVE  Collected(bs, c + 1, s \o bs[c + 1])
<1> DEFINE d == c + 1
           u == bs[c + 1]
           t == s \o bs[c + 1]
<1>1. /\ d \in DOMAIN bs /\ u \in Seq(Node)
      /\ \A e \in 1 .. c : e \in 1 .. d /\ e \in DOMAIN bs /\ e # d
      /\ d \in 1 .. d /\ \A e \in 1 .. d : e \in 1 .. c \/ e = d
  BY BucketsAre
<1>2. /\ \A k \in DOMAIN t : \/ k \in DOMAIN s /\ t[k] = s[k]
                             \/ \E i \in DOMAIN u : k = Len(s) + i /\ t[k] = u[i]
      /\ \A k \in DOMAIN s : k \in DOMAIN t /\ t[k] = s[k]
      /\ \A i \in DOMAIN u : Len(s) + i \in DOMAIN t /\ t[Len(s) + i] = u[i]
  BY <1>1, ConcatIs
<1> HIDE DEF d, t
<1>3. ASSUME NEW k \in DOMAIN t
      PROVE  \E e \in 1 .. d : \E i \in DOMAIN bs[e] : t[k] = bs[e][i]
  <2>1. CASE k \in DOMAIN s /\ t[k] = s[k]
    <3>1. PICK e \in 1 .. c : \E i \in DOMAIN bs[e] : s[k] = bs[e][i]
      BY <2>1 DEF Collected
    <3>. QED BY <1>1, <2>1, <3>1
  <2>2. CASE \E i \in DOMAIN u : k = Len(s) + i /\ t[k] = u[i]
    BY <1>1, <2>2 DEF d
  <2>. QED BY <1>2, <2>1, <2>2
<1>4. ASSUME NEW e \in 1 .. d, NEW i \in DOMAIN bs[e]
      PROVE  \E k \in DOMAIN t : t[k] = bs[e][i]
  <2>1. CASE e \in 1 .. c
    <3>1. PICK k \in DOMAIN s : s[k] = bs[e][i]
      BY <2>1 DEF Collected
    <3>. QED BY <1>2, <3>1
  <2>2. CASE e = d
    <3>1. i \in DOMAIN u /\ bs[e][i] = u[i]
      BY <2>2 DEF d
    <3>. QED BY <1>2, <3>1
  <2>. QED BY <1>1, <2>1, <2>2
<1>5. ASSUME NEW k \in DOMAIN s, NEW i \in DOMAIN u PROVE s[k].key # u[i].key
  <2>1. PICK e \in 1 .. c : \E h \in DOMAIN bs[e] : s[k] = bs[e][h]
    BY DEF Collected
  <2>2. PICK h \in DOMAIN bs[e] : s[k] = bs[e][h]
    BY <2>1
  <2>3. bs[e][h].key # bs[d][i].key
    BY <1>1, PlacedOnce DEF d
  <2>. QED BY <2>2, <2>3 DEF d
<1>6. ASSUME NEW i \in DOMAIN u, NEW j \in DOMAIN u, u[i].key = u[j].key PROVE i = j
  BY <1>1, <1>6, PlacedOnce DEF d
<1>7. ASSUME NEW j \in DOMAIN t, NEW k \in DOMAIN t, t[j].key = t[k].key PROVE j = k
  <2> HIDE DEF u
  <2>1. /\ \/ j \in DOMAIN s /\ t[j] = s[j]
           \/ \E i \in DOMAIN u : j = Len(s) + i /\ t[j] = u[i]
        /\ \/ k \in DOMAIN s /\ t[k] = s[k]
           \/ \E i \in DOMAIN u : k = Len(s) + i /\ t[k] = u[i]
    BY <1>2
  <2>2. \A x, y \in DOMAIN s : s[x].key = s[y].key => x = y
    BY DEF Collected
  <2>. QED BY <1>5, <1>6, <1>7, <2>1, <2>2
<1>8. Collected(bs, d, t)
  BY <1>3, <1>4, <1>7 DEF Collected
<1>. QED BY <1>8 DEF d, t

\* The walk meets every node, and each key once.
LEMMA WalkMeets ==
  ASSUME NEW bs \in Buckets, Placed(bs)
  PROVE  LET s == Walk(bs)[Len(bs)]
         IN /\ s \in Seq(Node)
            /\ \A n : n \in NodesOf(bs) <=> \E k \in DOMAIN s : s[k] = n
            /\ \A j, k \in DOMAIN s : s[j].key = s[k].key => j = k
<1> DEFINE N == Len(bs)
           w == Walk(bs)
<1>1. /\ N \in Nat /\ DOMAIN bs = 1 .. N
      /\ w \in [0 .. N -> Seq(Node)] /\ w[0] = <<>>
      /\ \A b \in 1 .. N : w[b] = w[b - 1] \o bs[b]
  BY BucketsAre, WalkIs
<1> HIDE DEF N, w
<1> DEFINE S == {c \in Nat : c <= N => Collected(bs, c, w[c])}
<1>2. 0 \in S
  <2>1. DOMAIN <<>> = {}
    BY ShortSequences
  <2>2. Collected(bs, 0, <<>>)
    BY <2>1 DEF Collected
  <2>. QED BY <1>1, <2>2
<1>3. ASSUME NEW c \in Nat, c \in S PROVE c + 1 \in S
  <2>1. SUFFICES ASSUME c + 1 <= N PROVE Collected(bs, c + 1, w[c + 1])
    OBVIOUS
  <2>2. c <= N /\ c \in 0 .. N /\ c + 1 \in 1 .. N /\ (c + 1) - 1 = c
    BY <1>1, <2>1
  <2>3. w[c + 1] = w[c] \o bs[c + 1] /\ w[c] \in Seq(Node) /\ Collected(bs, c, w[c])
    BY <1>1, <1>3, <2>2
  <2>. QED BY <2>1, <2>3, CollectedNext DEF N
<1>4. Collected(bs, N, w[N])
  <2> HIDE DEF S
  <2>1. Nat \subseteq S
    BY <1>2, <1>3, SetInduction
  <2>. QED BY <1>1, <2>1 DEF S
<1>5. N \in 0 .. N
  BY <1>1
<1>6. \A n : n \in NodesOf(bs) <=> \E k \in DOMAIN w[N] : w[N][k] = n
  <2>1. DOMAIN bs = 1 .. N
    BY <1>1
  <2>2. ASSUME NEW n, n \in NodesOf(bs) PROVE \E k \in DOMAIN w[N] : w[N][k] = n
    <3>1. PICK b \in DOMAIN bs : \E i \in DOMAIN bs[b] : bs[b][i] = n
      BY <2>2, InBuckets, Zenon
    <3>. QED BY <1>4, <2>1, <3>1 DEF Collected
  <2>3. ASSUME NEW k \in DOMAIN w[N] PROVE w[N][k] \in NodesOf(bs)
    <3>1. PICK b \in 1 .. N : \E i \in DOMAIN bs[b] : w[N][k] = bs[b][i]
      BY <1>4 DEF Collected
    <3>2. \E i \in DOMAIN bs[b] : bs[b][i] = w[N][k]
      BY <3>1
    <3>. QED BY <2>1, <3>2, InBuckets, Zenon
  <2>. QED BY <2>2, <2>3
<1>. QED BY <1>1, <1>4, <1>5, <1>6 DEF N, w, Collected

-----------------------------------------------------------------------------
\* The nodes moved to new buckets.

\* So many buckets.
Array(n) == [1 .. n -> Seq(Node)]

LEMMA ArrayIs ==
  ASSUME NEW n \in Nat, NEW bs \in Array(n)
  PROVE  bs \in Buckets /\ Len(bs) = n
BY IsASeq DEF Array, Buckets

LEMMA NoNodesIs ==
  ASSUME NEW n \in Nat
  PROVE  /\ NoNodes(n) \in Array(n) /\ NoNodes(n) \in Buckets /\ Len(NoNodes(n)) = n
         /\ NodesOf(NoNodes(n)) = {} /\ Placed(NoNodes(n))
<1>1. /\ NoNodes(n) \in Array(n) /\ DOMAIN NoNodes(n) = 1 .. n
      /\ \A b \in 1 .. n : DOMAIN NoNodes(n)[b] = {}
  BY DEF NoNodes, Array
<1>2. NodesOf(NoNodes(n)) = {}
  BY <1>1, InBuckets
<1>3. Placed(NoNodes(n))
  BY <1>1 DEF Placed
<1>. QED BY <1>1, <1>2, <1>3, ArrayIs

LEMMA PutInArray ==
  ASSUME NEW count \in Nat, count # 0, NEW n \in Node, NEW bs \in Array(count)
  PROVE  PutIn(bs, n, count) \in Array(count)
<1>1. Home(n, count) \in 1 .. count
  BY BucketInRange, NodeIs DEF Home
<1>2. Append(bs[Home(n, count)], n) \in Seq(Node)
  BY <1>1, AppendProperties DEF Array
<1>. QED BY <1>1, <1>2 DEF PutIn, Array

LEMMA MovesIs ==
  ASSUME NEW s \in Seq(Node), NEW count \in Nat, count # 0 \/ s = <<>>
  PROVE  /\ Moves(s, count) \in [0 .. Len(s) -> Array(count)]
         /\ Moves(s, count)[0] = NoNodes(count)
         /\ \A i \in 1 .. Len(s) :
               Moves(s, count)[i] = PutIn(Moves(s, count)[i - 1], s[i], count)
<1> DEFINE N == Len(s)
           T == Array(count)
           none == NoNodes(count)
           step == [i \in 1 .. N |-> [x \in T |-> PutIn(x, s[i], count)]]
<1>1. N \in Nat /\ \A i \in 1 .. N : s[i] \in Node /\ count # 0
  BY EmptySeq
<1>2. step \in [1 .. N -> [T -> T]]
  BY <1>1, PutInArray
<1>3. none \in T
  BY NoNodesIs
<1>4. \A i \in 1 .. N : \A x \in T : step[i][x] = PutIn(x, s[i], count)
  OBVIOUS
<1> HIDE DEF N, T, none, step
<1>5. PICK g \in [0 .. N -> T] :
         g[0] = none /\ \A i \in 1 .. N : g[i] = step[i][g[i - 1]]
  <2>1. N \in Nat
    BY <1>1
  <2>2. HasSteps(T, none, N, step)
    BY <1>2, <1>3, <2>1, Iterates, Zenon
  <2>. QED BY <2>2 DEF HasSteps
<1> DEFINE W(f) == [i \in 0 .. N |->
                       IF i = 0 THEN NoNodes(count)
                       ELSE [f[i - 1] EXCEPT ![(s[i].key_hash % count) + 1] = Append(@, s[i])]]
           h == CHOOSE f : f = W(f)
<1>6. \A i \in 1 .. N : g[i] = PutIn(g[i - 1], s[i], count)
  <2>1. ASSUME NEW i \in 1 .. N PROVE g[i] = PutIn(g[i - 1], s[i], count)
    <3>1. i - 1 \in 0 .. N
      BY <1>1
    <3>2. g[i - 1] \in T
      BY <1>5, <3>1
    <3>. QED BY <1>4, <1>5, <3>2
  <2>. QED BY <2>1
<1>7. g = W(g)
  <2>1. ASSUME NEW i \in 0 .. N PROVE g[i] = W(g)[i]
    <3>1. CASE i = 0
      BY <1>5, <3>1 DEF none
    <3>2. CASE i # 0
      <4>1. i \in 1 .. N
        BY <1>1, <3>2
      <4>. QED BY <1>6, <3>2, <4>1 DEF PutIn, Home
    <3>. QED BY <3>1, <3>2
  <2>. QED BY <1>5, <2>1
<1>8. h = W(h)
  BY <1>7, Zenon
<1>9. h = Moves(s, count)
  BY Zenon DEF Moves, N
<1> HIDE DEF h
<1>10. /\ h = [i \in 0 .. N |-> h[i]]
       /\ \A i \in 0 .. N : i # 0 => h[i] = PutIn(h[i - 1], s[i], count)
       /\ 0 \in 0 .. N => h[0] = none
  BY <1>8 DEF PutIn, Home, none
<1> HIDE DEF W
<1>11. h[0] = none /\ \A i \in 1 .. N : h[i] = PutIn(h[i - 1], s[i], count)
  <2>1. 0 \in 0 .. N /\ \A i \in 1 .. N : i \in 0 .. N /\ i # 0
    BY <1>1
  <2>. QED BY <1>10, <2>1
<1>12. ASSUME NEW i \in 1 .. N, h[i - 1] \in T PROVE h[i] \in T
  BY <1>1, <1>11, <1>12, PutInArray DEF T
<1>13. h \in [0 .. N -> T]
  <2>1. h[0] \in T
    BY <1>3, <1>11
  <2>2. h = [i \in 0 .. N |-> h[i]]
    BY <1>10
  <2>. QED BY <1>1, <1>12, <2>1, <2>2, StepsStay
<1>. QED BY <1>9, <1>11, <1>13 DEF N, T, none

\* Nodes of different keys all find their place.
LEMMA MovesPlaced ==
  ASSUME NEW s \in Seq(Node), NEW count \in Nat, count # 0 \/ s = <<>>,
         \A i \in DOMAIN s : s[i].key_hash = Hash[s[i].key],
         \A i, j \in DOMAIN s : s[i].key = s[j].key => i = j
  PROVE  LET bs == Moves(s, count)[Len(s)]
         IN /\ bs \in Buckets /\ Len(bs) = count /\ Placed(bs)
            /\ \A n : n \in NodesOf(bs) <=> \E k \in DOMAIN s : s[k] = n
<1> DEFINE N == Len(s)
           h == Moves(s, count)
           Good(i) == Placed(h[i]) /\ NodesOf(h[i]) = {s[k] : k \in 1 .. i}
<1>1. N \in Nat /\ DOMAIN s = 1 .. N /\ \A i \in 1 .. N : s[i] \in Node /\ count # 0
  BY EmptySeq
<1>2. /\ \A i \in 0 .. N : h[i] \in Array(count)
      /\ h[0] = NoNodes(count)
      /\ \A i \in 1 .. N : h[i] = PutIn(h[i - 1], s[i], count)
  <2>1. h \in [0 .. N -> Array(count)] /\ h[0] = NoNodes(count)
    BY MovesIs
  <2>2. \A i \in 1 .. N : h[i] = PutIn(h[i - 1], s[i], count)
    BY MovesIs
  <2>. QED BY <2>1, <2>2
<1>3. \A i \in 0 .. N : h[i] \in Buckets /\ Len(h[i]) = count
  BY <1>2, ArrayIs
<1> DEFINE S == {i \in Nat : i <= N => Good(i)}
<1> HIDE DEF N, h
<1>4. 0 \in S
  BY <1>2, NoNodesIs
<1>5. ASSUME NEW i \in Nat, i \in S PROVE i + 1 \in S
  <2>1. SUFFICES ASSUME i + 1 <= N PROVE Good(i + 1)
    OBVIOUS
  <2> DEFINE n == s[i + 1]
             bs == h[i]
             cs == h[i + 1]
  <2>2. i <= N /\ i \in 0 .. N /\ i + 1 \in 1 .. N /\ (i + 1) - 1 = i
    BY <1>1, <2>1
  <2>3. n \in Node /\ n.key_hash = Hash[n.key] /\ count # 0
    BY <1>1, <2>2
  <2>4. /\ bs \in Buckets /\ Len(bs) = count /\ Placed(bs)
        /\ NodesOf(bs) = {s[k] : k \in 1 .. i}
    BY <1>3, <1>5, <2>2
  <2>5. cs = PutIn(bs, n, count)
    BY <1>2, <2>2
  <2>6. Fresh(bs, n)
    <3>1. \A k \in 1 .. i : k \in 1 .. N /\ k # i + 1
      BY <1>1, <2>2
    <3>2. \A k \in 1 .. i : s[k].key # n.key
      BY <1>1, <2>2, <3>1
    <3>. QED BY <2>4, <3>2 DEF Fresh
  <2> HIDE DEF n, bs, cs
  <2>7. Placed(cs) /\ NodesOf(cs) = NodesOf(bs) \cup {n}
    BY <2>3, <2>4, <2>5, <2>6, AppendedIs
  <2>8. \A k : k \in 1 .. i + 1 <=> k \in 1 .. i \/ k = i + 1
    OBVIOUS
  <2>9. {s[k] : k \in 1 .. i + 1} = {s[k] : k \in 1 .. i} \cup {s[i + 1]}
    BY <2>8
  <2>. QED BY <2>4, <2>7, <2>9 DEF cs, n
<1>6. Good(N)
  <2> HIDE DEF S, Good
  <2>1. Nat \subseteq S
    BY <1>4, <1>5, SetInduction
  <2>. QED BY <1>1, <2>1 DEF S
<1>7. N \in 0 .. N
  BY <1>1
<1>. QED BY <1>1, <1>3, <1>6, <1>7 DEF N, h

-----------------------------------------------------------------------------
\* Rehashing.

LEMMA SoundIs ==
  ASSUME NEW t, Sound(t)
  PROVE  /\ t = [size |-> t.size, buckets |-> t.buckets]
         /\ t.size \in Nat /\ t.buckets \in Buckets /\ Placed(t.buckets)
         /\ Count(t) = Len(t.buckets) /\ Count(t) \in Nat
         /\ NodeSet(t) = NodesOf(t.buckets) /\ NodeSet(t) \subseteq Node
         /\ IsFiniteSet(NodeSet(t)) /\ t.size = Cardinality(NodeSet(t))
<1>1. t \in [size : Nat, buckets : Buckets]
  BY DEF Sound
<1>2. t = [size |-> t.size, buckets |-> t.buckets] /\ t.size \in Nat /\ t.buckets \in Buckets
  BY <1>1
<1>. QED BY <1>2, BucketsAre, NodesInNode DEF Sound, Count, NodeSet

LEMMA MakeSound ==
  ASSUME NEW n \in Nat, NEW bs \in Buckets, Placed(bs),
         IsFiniteSet(NodesOf(bs)), n = Cardinality(NodesOf(bs))
  PROVE  Sound([size |-> n, buckets |-> bs])
BY DEF Sound, NodeSet

\* The nodes of a sound map know the hash of their keys.
LEMMA SoundNodes ==
  ASSUME NEW t, Sound(t), NEW n \in NodeSet(t)
  PROVE  n \in Node /\ n.key_hash = Hash[n.key]
<1>1. t.buckets \in Buckets /\ Placed(t.buckets) /\ n \in NodesOf(t.buckets) /\ n \in Node
  BY SoundIs
<1>2. PICK b \in DOMAIN t.buckets : \E i \in DOMAIN t.buckets[b] : t.buckets[b][i] = n
  BY <1>1, InBuckets, Zenon
<1>. QED BY <1>1, <1>2 DEF Placed

LEMMA NoneIsEmpty ==
  ASSUME NEW t, Sound(t), t.size = 0
  PROVE  NodeSet(t) = {}
BY SoundIs, FS_EmptySet

\* The walk over a sound map.
LEMMA NodesAre ==
  ASSUME NEW t, Sound(t)
  PROVE  /\ Nodes(t) \in Seq(Node)
         /\ \A n : n \in NodeSet(t) <=> \E k \in DOMAIN Nodes(t) : Nodes(t)[k] = n
         /\ \A j, k \in DOMAIN Nodes(t) : Nodes(t)[j].key = Nodes(t)[k].key => j = k
<1>1. t.buckets \in Buckets /\ Placed(t.buckets) /\ Nodes(t) = Walk(t.buckets)[Len(t.buckets)]
  BY SoundIs DEF Nodes, Count
<1>2. NodeSet(t) = NodesOf(t.buckets)
  BY DEF NodeSet
<1>. QED BY <1>1, <1>2, WalkMeets

LEMMA RehashIs ==
  ASSUME NEW t, Sound(t), NEW count \in Nat, count # 0 \/ t.size = 0
  PROVE  /\ Sound(Rehash(t, count)) /\ Count(Rehash(t, count)) = count
         /\ NodeSet(Rehash(t, count)) = NodeSet(t) /\ Rehash(t, count).size = t.size
<1> DEFINE s == Nodes(t)
           bs == Moves(s, count)[Len(s)]
<1>1. /\ s \in Seq(Node)
      /\ \A n : n \in NodeSet(t) <=> \E k \in DOMAIN s : s[k] = n
      /\ \A j, k \in DOMAIN s : s[j].key = s[k].key => j = k
  BY NodesAre
<1>2. Rehash(t, count) = [size |-> t.size, buckets |-> bs]
  BY SoundIs DEF Rehash
<1> HIDE DEF s
<1>3. \A k \in DOMAIN s : s[k].key_hash = Hash[s[k].key]
  BY <1>1, SoundNodes
<1>4. count # 0 \/ s = <<>>
  <2>1. CASE t.size = 0
    <3>1. DOMAIN s = {}
      BY <1>1, <2>1, NoneIsEmpty
    <3>. QED BY <1>1, <3>1, EmptySeq
  <2>. QED BY <2>1
<1>5. /\ bs \in Buckets /\ Len(bs) = count /\ Placed(bs)
      /\ \A n : n \in NodesOf(bs) <=> \E k \in DOMAIN s : s[k] = n
  BY <1>1, <1>3, <1>4, MovesPlaced
<1> HIDE DEF bs
<1>6. NodesOf(bs) = NodeSet(t)
  BY <1>1, <1>5
<1>7. t.size \in Nat /\ IsFiniteSet(NodesOf(bs)) /\ t.size = Cardinality(NodesOf(bs))
  BY <1>6, SoundIs
<1>8. Sound(Rehash(t, count))
  BY <1>2, <1>5, <1>7, MakeSound
<1>. QED BY <1>2, <1>5, <1>6, <1>8 DEF Count, NodeSet

-----------------------------------------------------------------------------
\* Searching, setting and removing.

LEMMA SearchIs ==
  ASSUME NEW t, Sound(t), Count(t) # 0, NEW k \in Key,
         NEW b, b = BucketOf(t, Hash[k]), NEW hits, hits = Hits(t.buckets[b], k)
  PROVE  /\ b \in DOMAIN t.buckets
         /\ hits = {} => \A n \in NodeSet(t) : n.key # k
         /\ hits # {} => /\ Min(hits) \in DOMAIN t.buckets[b]
                         /\ t.buckets[b][Min(hits)].key = k
                         /\ t.buckets[b][Min(hits)] \in NodeSet(t)
<1> DEFINE bs == t.buckets
<1>1. /\ bs \in Buckets /\ Placed(bs) /\ Len(bs) \in Nat /\ Len(bs) # 0 /\ DOMAIN bs = 1 .. Len(bs)
      /\ b = (Hash[k] % Len(bs)) + 1
  BY SoundIs, BucketsAre DEF BucketOf, Count
<1>2. b \in DOMAIN bs
  BY <1>1, BucketInRange, HashAssumption
<1>3. /\ DOMAIN bs[b] \subseteq Nat
      /\ hits = {i \in DOMAIN bs[b] : bs[b][i].key_hash = Hash[k] /\ bs[b][i].key = k}
  BY <1>1, <1>2, BucketsAre DEF Hits
<1>4. ASSUME hits = {}, NEW n \in NodeSet(t) PROVE n.key # k
  <2>1. PICK c \in DOMAIN bs : \E i \in DOMAIN bs[c] : bs[c][i] = n
    BY <1>4, InBuckets, Zenon DEF NodeSet
  <2>2. PICK i \in DOMAIN bs[c] : bs[c][i] = n
    BY <2>1
  <2>3. n.key_hash = Hash[n.key] /\ c = (n.key_hash % Len(bs)) + 1
    BY <1>1, <2>2 DEF Placed
  <2>. QED BY <1>1, <1>3, <1>4, <2>2, <2>3
<1>5. ASSUME hits # {}
      PROVE  /\ Min(hits) \in DOMAIN bs[b] /\ bs[b][Min(hits)].key = k
             /\ bs[b][Min(hits)] \in NodeSet(t)
  <2>1. Min(hits) \in hits
    BY <1>3, <1>5, MinIs
  <2>2. Min(hits) \in DOMAIN bs[b] /\ bs[b][Min(hits)].key = k
    BY <1>3, <2>1
  <2>. QED BY <1>2, <2>2, InBuckets, Zenon DEF NodeSet
<1>. QED BY <1>2, <1>4, <1>5

\* cs has the node n in the place of the i-th of bucket b, which has its key.
Swapped(bs, cs, b, i, n) ==
    /\ DOMAIN cs = DOMAIN bs /\ b \in DOMAIN bs /\ i \in DOMAIN bs[b] /\ cs[b][i] = n
    /\ n.key = bs[b][i].key /\ n.key_hash = bs[b][i].key_hash
    /\ \A c \in DOMAIN bs : DOMAIN cs[c] = DOMAIN bs[c]
    /\ \A c \in DOMAIN bs : \A j \in DOMAIN bs[c] : cs[c][j] = bs[c][j] \/ (c = b /\ j = i)

LEMMA SwappedNodes ==
  ASSUME NEW bs, NEW cs, NEW b, NEW i, NEW n, Swapped(bs, cs, b, i, n), Placed(bs)
  PROVE  NodesOf(cs) = (NodesOf(bs) \ {bs[b][i]}) \cup {n}
<1>1. DOMAIN cs = DOMAIN bs /\ b \in DOMAIN bs /\ i \in DOMAIN bs[b] /\ cs[b][i] = n
  BY DEF Swapped
<1>2. ASSUME NEW c \in DOMAIN bs, NEW j \in DOMAIN bs[c]
      PROVE  /\ bs[c][j] = bs[b][i] => c = b /\ j = i
             /\ j \in DOMAIN cs[c] /\ (cs[c][j] = bs[c][j] \/ (c = b /\ j = i))
  <2>1. bs[c][j] = bs[b][i] => c = b /\ j = i
    BY <1>1, PlacedOnce
  <2>. QED BY <2>1 DEF Swapped
<1>3. ASSUME NEW m, m \in NodesOf(cs) PROVE m = n \/ (m \in NodesOf(bs) /\ m # bs[b][i])
  <2>1. PICK c \in DOMAIN cs : \E j \in DOMAIN cs[c] : cs[c][j] = m
    BY <1>3, WhereIs
  <2>2. PICK j \in DOMAIN cs[c] : cs[c][j] = m
    BY <2>1
  <2>3. c \in DOMAIN bs /\ j \in DOMAIN bs[c]
    BY DEF Swapped
  <2>4. CASE c = b /\ j = i
    BY <1>1, <2>2, <2>4
  <2>5. CASE ~ (c = b /\ j = i)
    <3>1. bs[c][j] = m /\ m # bs[b][i]
      BY <1>2, <2>2, <2>3, <2>5
    <3>. QED BY <2>3, <3>1, InBuckets, Zenon
  <2>. QED BY <2>4, <2>5
<1>4. ASSUME NEW m, m \in NodesOf(bs), m # bs[b][i] PROVE m \in NodesOf(cs)
  <2>1. PICK c \in DOMAIN bs : \E j \in DOMAIN bs[c] : bs[c][j] = m
    BY <1>4, WhereIs
  <2>2. PICK j \in DOMAIN bs[c] : bs[c][j] = m
    BY <2>1
  <2>3. c \in DOMAIN cs /\ j \in DOMAIN cs[c] /\ cs[c][j] = m
    BY <1>1, <1>2, <1>4, <2>2
  <2>. QED BY <2>3, InBuckets, Zenon
<1>5. n \in NodesOf(cs)
  <2>1. b \in DOMAIN cs /\ i \in DOMAIN cs[b]
    BY DEF Swapped
  <2>. QED BY <1>1, <2>1, InBuckets, Zenon
<1>. QED BY <1>3, <1>4, <1>5

LEMMA SwappedPlaced ==
  ASSUME NEW bs, NEW cs, NEW b, NEW i, NEW n, Swapped(bs, cs, b, i, n), Placed(bs),
         Len(cs) = Len(bs)
  PROVE  Placed(cs)
<1>1. ASSUME NEW c \in DOMAIN cs, NEW j \in DOMAIN cs[c]
      PROVE  /\ c \in DOMAIN bs /\ j \in DOMAIN bs[c]
             /\ cs[c][j].key = bs[c][j].key /\ cs[c][j].key_hash = bs[c][j].key_hash
  <2>1. c \in DOMAIN bs /\ j \in DOMAIN bs[c]
    BY DEF Swapped
  <2>2. cs[c][j] = bs[c][j] \/ (c = b /\ j = i)
    BY <2>1 DEF Swapped
  <2>3. cs[b][i] = n /\ n.key = bs[b][i].key /\ n.key_hash = bs[b][i].key_hash
    BY DEF Swapped
  <2>. QED BY <2>1, <2>2, <2>3
<1>2. ASSUME NEW c \in DOMAIN cs, NEW j \in DOMAIN cs[c]
      PROVE  /\ cs[c][j].key_hash = Hash[cs[c][j].key]
             /\ c = (cs[c][j].key_hash % Len(cs)) + 1
             /\ \A h \in DOMAIN cs[c] : cs[c][j].key = cs[c][h].key => j = h
  <2>1. /\ bs[c][j].key_hash = Hash[bs[c][j].key]
        /\ c = (bs[c][j].key_hash % Len(bs)) + 1
        /\ \A h \in DOMAIN bs[c] : bs[c][j].key = bs[c][h].key => j = h
    BY <1>1 DEF Placed
  <2>. QED BY <1>1, <2>1
<1>. QED BY <1>2 DEF Placed

LEMMA AssignedIs ==
  ASSUME NEW s \in Seq(Node), NEW i \in DOMAIN s, NEW v \in Val,
         NEW n, n = [s[i] EXCEPT !.value = v]
  PROVE  /\ n \in Node /\ n.key = s[i].key /\ n.key_hash = s[i].key_hash /\ n.value = v
         /\ Assigned(s, i, v) \in Seq(Node) /\ Len(Assigned(s, i, v)) = Len(s)
         /\ DOMAIN Assigned(s, i, v) = DOMAIN s /\ Assigned(s, i, v)[i] = n
         /\ \A j \in DOMAIN s : j # i => Assigned(s, i, v)[j] = s[j]
<1>1. s[i] \in Node /\ i \in 1 .. Len(s)
  OBVIOUS
<1>2. n \in Node /\ n.key = s[i].key /\ n.key_hash = s[i].key_hash /\ n.value = v
  BY <1>1 DEF Node
<1>3. Assigned(s, i, v) = [s EXCEPT ![i] = n]
  BY DEF Assigned
<1>. QED BY <1>1, <1>2, <1>3, ExceptSeq

\* In cs the i-th node of bucket b has the value v: it is n now.
Replaced(bs, cs, b, i, v, n) ==
    n = [bs[b][i] EXCEPT !.value = v] /\ cs = [bs EXCEPT ![b] = Assigned(@, i, v)]

LEMMA ReplacedSwaps ==
  ASSUME NEW bs \in Buckets, NEW b \in DOMAIN bs, NEW i \in DOMAIN bs[b],
         NEW v \in Val, NEW n, NEW cs, Replaced(bs, cs, b, i, v, n)
  PROVE  /\ cs \in Buckets /\ Len(cs) = Len(bs)
         /\ n \in Node /\ n.key = bs[b][i].key /\ n.value = v
         /\ Swapped(bs, cs, b, i, n)
<1> DEFINE m == bs[b][i]
           u == Assigned(bs[b], i, v)
<1>1. /\ b \in 1 .. Len(bs) /\ Len(bs) \in Nat /\ DOMAIN bs = 1 .. Len(bs)
      /\ bs[b] \in Seq(Node)
  BY BucketsAre
<1>2. n \in Node /\ n.key = m.key /\ n.key_hash = m.key_hash /\ n.value = v
  BY <1>1, AssignedIs DEF Replaced
<1>3. cs = [bs EXCEPT ![b] = u]
  BY DEF Replaced
<1>4. u \in Seq(Node) /\ DOMAIN u = DOMAIN bs[b]
      /\ u[i] = n /\ \A j \in DOMAIN bs[b] : j # i => u[j] = bs[b][j]
  BY <1>1, AssignedIs DEF Replaced
<1> HIDE DEF u
<1>5. cs \in Buckets /\ Len(cs) = Len(bs) /\ DOMAIN cs = DOMAIN bs
  BY <1>1, <1>3, <1>4, ExceptSeq DEF Buckets
<1>6. cs[b] = u /\ \A c \in DOMAIN bs : c # b => cs[c] = bs[c]
  BY <1>1, <1>3
<1>7. Swapped(bs, cs, b, i, n)
  <2>1. \A c \in DOMAIN bs : DOMAIN cs[c] = DOMAIN bs[c]
    BY <1>4, <1>6
  <2>2. \A c \in DOMAIN bs : \A j \in DOMAIN bs[c] : cs[c][j] = bs[c][j] \/ (c = b /\ j = i)
    BY <1>4, <1>6
  <2>3. cs[b][i] = n
    BY <1>4, <1>6
  <2>. QED BY <1>2, <1>5, <2>1, <2>2, <2>3 DEF Swapped
<1>. QED BY <1>2, <1>5, <1>7

LEMMA ReplacedIs ==
  ASSUME NEW bs \in Buckets, Placed(bs), NEW b \in DOMAIN bs, NEW i \in DOMAIN bs[b],
         NEW v \in Val, NEW n, NEW cs, Replaced(bs, cs, b, i, v, n)
  PROVE  /\ cs \in Buckets /\ Len(cs) = Len(bs) /\ Placed(cs)
         /\ n \in Node /\ n.key = bs[b][i].key /\ n.value = v
         /\ NodesOf(cs) = (NodesOf(bs) \ {bs[b][i]}) \cup {n}
<1>1. /\ cs \in Buckets /\ Len(cs) = Len(bs)
      /\ n \in Node /\ n.key = bs[b][i].key /\ n.value = v
  BY ReplacedSwaps
<1>2. Swapped(bs, cs, b, i, n)
  BY ReplacedSwaps
<1>3. NodesOf(cs) = (NodesOf(bs) \ {bs[b][i]}) \cup {n}
  BY <1>2, SwappedNodes
<1>4. Placed(cs)
  BY <1>1, <1>2, SwappedPlaced
<1>. QED BY <1>1, <1>3, <1>4

\* Where the j-th node of bucket c was before the i-th of bucket b was removed.
From(b, i, c, j) == IF c = b /\ ~ (j < i) THEN j + 1 ELSE j

\* cs has the nodes of bs but the i-th of bucket b.
Dropped(bs, cs, b, i) ==
    /\ DOMAIN cs = DOMAIN bs /\ b \in DOMAIN bs /\ i \in DOMAIN bs[b]
    /\ \A c \in DOMAIN cs : \A j \in DOMAIN cs[c] :
          /\ From(b, i, c, j) \in DOMAIN bs[c]
          /\ cs[c][j] = bs[c][From(b, i, c, j)]
          /\ ~ (c = b /\ From(b, i, c, j) = i)
          /\ \A h \in DOMAIN cs[c] : From(b, i, c, j) = From(b, i, c, h) => j = h
    /\ \A c \in DOMAIN bs : \A j \in DOMAIN bs[c] :
          (c = b /\ j = i) \/ \E h \in DOMAIN cs[c] : cs[c][h] = bs[c][j]

LEMMA DroppedNodes ==
  ASSUME NEW bs, NEW cs, NEW b, NEW i, Dropped(bs, cs, b, i), Placed(bs)
  PROVE  NodesOf(cs) = NodesOf(bs) \ {bs[b][i]}
<1>1. DOMAIN cs = DOMAIN bs /\ b \in DOMAIN bs /\ i \in DOMAIN bs[b]
  BY DEF Dropped
<1>2. ASSUME NEW m, m \in NodesOf(cs) PROVE m \in NodesOf(bs) /\ m # bs[b][i]
  <2>1. PICK c \in DOMAIN cs : \E j \in DOMAIN cs[c] : cs[c][j] = m
    BY <1>2, WhereIs
  <2>2. PICK j \in DOMAIN cs[c] : cs[c][j] = m
    BY <2>1
  <2>3. PICK h \in DOMAIN bs[c] : bs[c][h] = m /\ ~ (c = b /\ h = i)
    BY <2>2 DEF Dropped
  <2>4. m # bs[b][i]
    BY <1>1, <2>3, PlacedOnce
  <2>. QED BY <1>1, <2>3, <2>4, InBuckets, Zenon
<1>3. ASSUME NEW m, m \in NodesOf(bs), m # bs[b][i] PROVE m \in NodesOf(cs)
  <2>1. PICK c \in DOMAIN bs : \E j \in DOMAIN bs[c] : bs[c][j] = m
    BY <1>3, WhereIs
  <2>2. PICK j \in DOMAIN bs[c] : bs[c][j] = m
    BY <2>1
  <2>3. PICK h \in DOMAIN cs[c] : cs[c][h] = m
    BY <1>3, <2>2 DEF Dropped
  <2>. QED BY <1>1, <2>3, InBuckets, Zenon
<1>. QED BY <1>2, <1>3

LEMMA DroppedPlaced ==
  ASSUME NEW bs, NEW cs, NEW b, NEW i, Dropped(bs, cs, b, i), Placed(bs), Len(cs) = Len(bs)
  PROVE  Placed(cs)
<1>1. ASSUME NEW c \in DOMAIN cs, NEW j \in DOMAIN cs[c]
      PROVE  /\ c \in DOMAIN bs /\ From(b, i, c, j) \in DOMAIN bs[c]
             /\ cs[c][j] = bs[c][From(b, i, c, j)]
             /\ \A h \in DOMAIN cs[c] : From(b, i, c, j) = From(b, i, c, h) => j = h
  BY DEF Dropped
<1>2. ASSUME NEW c \in DOMAIN cs, NEW j \in DOMAIN cs[c]
      PROVE  /\ cs[c][j].key_hash = Hash[cs[c][j].key]
             /\ c = (cs[c][j].key_hash % Len(cs)) + 1
  BY <1>1 DEF Placed
<1>3. ASSUME NEW c \in DOMAIN cs, NEW j \in DOMAIN cs[c], NEW h \in DOMAIN cs[c],
             cs[c][j].key = cs[c][h].key
      PROVE  j = h
  <2>1. \A x, y \in DOMAIN bs[c] : bs[c][x].key = bs[c][y].key => x = y
    BY <1>1 DEF Placed
  <2>. QED BY <1>1, <1>3, <2>1
<1>. QED BY <1>2, <1>3 DEF Placed

\* In cs the i-th node of bucket b is gone.
Removed(bs, cs, b, i) == cs = [bs EXCEPT ![b] = RemoveAt(@, i)]

LEMMA RemovedDrops ==
  ASSUME NEW bs \in Buckets, NEW b \in DOMAIN bs, NEW i \in DOMAIN bs[b],
         NEW cs, Removed(bs, cs, b, i)
  PROVE  cs \in Buckets /\ Len(cs) = Len(bs) /\ Dropped(bs, cs, b, i)
<1> DEFINE s == bs[b]
           u == RemoveAt(bs[b], i)
           n == Len(bs[b])
<1>1. /\ b \in 1 .. Len(bs) /\ Len(bs) \in Nat /\ DOMAIN bs = 1 .. Len(bs)
      /\ s \in Seq(Node) /\ n \in Nat /\ DOMAIN s = 1 .. n /\ i \in 1 .. n
      /\ \A c \in DOMAIN bs : DOMAIN bs[c] = 1 .. Len(bs[c])
  BY BucketsAre
<1>2. /\ u \in Seq(Node) /\ DOMAIN u = 1 .. n - 1
      /\ \A j \in 1 .. n - 1 : u[j] = IF j < i THEN s[j] ELSE s[j + 1]
  BY <1>1, RemoveAtIs
<1>3. cs = [bs EXCEPT ![b] = u]
  BY DEF Removed
<1> HIDE DEF u, n
<1>4. cs \in Buckets /\ Len(cs) = Len(bs) /\ DOMAIN cs = DOMAIN bs
  BY <1>1, <1>2, <1>3, ExceptSeq DEF Buckets
<1>5. cs[b] = u /\ \A c \in DOMAIN bs : c # b => cs[c] = bs[c]
  BY <1>1, <1>3
<1>6. ASSUME NEW j \in DOMAIN u
      PROVE  /\ From(b, i, b, j) \in DOMAIN s /\ u[j] = s[From(b, i, b, j)]
             /\ From(b, i, b, j) # i
             /\ \A h \in DOMAIN u : From(b, i, b, j) = From(b, i, b, h) => j = h
  <2>1. From(b, i, b, j) \in 1 .. n /\ From(b, i, b, j) # i
    BY <1>1, <1>2 DEF From
  <2>2. u[j] = s[From(b, i, b, j)]
    BY <1>2 DEF From
  <2>3. ASSUME NEW h \in DOMAIN u, From(b, i, b, j) = From(b, i, b, h) PROVE j = h
    <3>1. j \in Int /\ h \in Int /\ i \in Int
      BY <1>1, <1>2
    <3>. QED BY <2>3, <3>1 DEF From
  <2>. QED BY <1>1, <2>1, <2>2, <2>3
<1>7. ASSUME NEW j \in DOMAIN s, j # i PROVE \E h \in DOMAIN u : u[h] = s[j]
  <2>1. CASE j < i
    <3>1. j \in 1 .. n - 1
      BY <1>1, <2>1
    <3>. QED BY <1>2, <2>1, <3>1
  <2>2. CASE ~ (j < i)
    <3>1. j - 1 \in 1 .. n - 1 /\ ~ (j - 1 < i) /\ (j - 1) + 1 = j
      BY <1>1, <1>7, <2>2
    <3>. QED BY <1>2, <3>1
  <2>. QED BY <2>1, <2>2
<1>8. ASSUME NEW c \in DOMAIN cs, NEW j \in DOMAIN cs[c]
      PROVE  /\ From(b, i, c, j) \in DOMAIN bs[c]
             /\ cs[c][j] = bs[c][From(b, i, c, j)]
             /\ ~ (c = b /\ From(b, i, c, j) = i)
             /\ \A h \in DOMAIN cs[c] : From(b, i, c, j) = From(b, i, c, h) => j = h
  <2>1. CASE c = b
    BY <1>5, <1>6, <2>1
  <2>2. CASE c # b
    <3>1. \A h : From(b, i, c, h) = h
      BY <2>2 DEF From
    <3>. QED BY <1>4, <1>5, <2>2, <3>1
  <2>. QED BY <2>1, <2>2
<1>9. ASSUME NEW c \in DOMAIN bs, NEW j \in DOMAIN bs[c]
      PROVE  (c = b /\ j = i) \/ \E h \in DOMAIN cs[c] : cs[c][h] = bs[c][j]
  <2>1. CASE c = b
    BY <1>5, <1>7, <2>1
  <2>2. CASE c # b
    BY <1>5, <2>2
  <2>. QED BY <2>1, <2>2
<1>10. Dropped(bs, cs, b, i)
  BY <1>4, <1>8, <1>9 DEF Dropped
<1>. QED BY <1>4, <1>10

LEMMA RemovedIs ==
  ASSUME NEW bs \in Buckets, Placed(bs), NEW b \in DOMAIN bs, NEW i \in DOMAIN bs[b],
         NEW cs, Removed(bs, cs, b, i)
  PROVE  /\ cs \in Buckets /\ Len(cs) = Len(bs) /\ Placed(cs)
         /\ NodesOf(cs) = NodesOf(bs) \ {bs[b][i]}
<1>1. cs \in Buckets /\ Len(cs) = Len(bs) /\ Dropped(bs, cs, b, i)
  BY RemovedDrops
<1>2. NodesOf(cs) = NodesOf(bs) \ {bs[b][i]}
  BY <1>1, DroppedNodes
<1>3. Placed(cs)
  BY <1>1, DroppedPlaced
<1>. QED BY <1>1, <1>2, <1>3

-----------------------------------------------------------------------------
\* The contents of a map.

\* The function f from keys to values says what the nodes S say.
Reads(S, f) ==
    /\ f = [k \in DOMAIN f |-> f[k]]
    /\ \A n \in S : n.key \in DOMAIN f /\ f[n.key] = n.value
    /\ \A k \in DOMAIN f : \E n \in S : n.key = k

LEMMA OneOfAKey ==
  ASSUME NEW t, Sound(t), NEW n \in NodeSet(t), NEW m \in NodeSet(t), n.key = m.key
  PROVE  n = m
<1>1. t.buckets \in Buckets /\ Placed(t.buckets) /\ NodeSet(t) = NodesOf(t.buckets)
  BY SoundIs
<1>. QED BY <1>1, OneNode

LEMMA ContentReads ==
  ASSUME NEW t, Sound(t)
  PROVE  Reads(NodeSet(t), ContentOf(t))
<1> DEFINE S == NodeSet(t)
           f == ContentOf(t)
<1>1. f = [k \in {n.key : n \in S} |-> (CHOOSE n \in S : n.key = k).value]
  BY DEF ContentOf
<1>2. ASSUME NEW n \in S PROVE (CHOOSE m \in S : m.key = n.key) = n
  BY OneOfAKey
<1> HIDE DEF S, f
<1>3. DOMAIN f = {n.key : n \in S} /\ f = [k \in DOMAIN f |-> f[k]]
  BY <1>1
<1>4. ASSUME NEW n \in S PROVE n.key \in DOMAIN f /\ f[n.key] = n.value
  BY <1>1, <1>2
<1>. QED BY <1>3, <1>4 DEF Reads, S, f

LEMMA ReadsContent ==
  ASSUME NEW t, Sound(t), NEW f, Reads(NodeSet(t), f)
  PROVE  ContentOf(t) = f
<1> DEFINE S == NodeSet(t)
           g == ContentOf(t)
<1>1. Reads(S, g) /\ Reads(S, f)
  BY ContentReads
<1> HIDE DEF S, g
<1>2. DOMAIN g = DOMAIN f
  BY <1>1 DEF Reads
<1>3. \A k \in DOMAIN f : g[k] = f[k]
  <2>1. ASSUME NEW k \in DOMAIN f PROVE g[k] = f[k]
    <3>1. PICK n \in S : n.key = k
      BY <1>1 DEF Reads
    <3>. QED BY <1>1, <3>1 DEF Reads
  <2>. QED BY <2>1
<1>4. g = [k \in DOMAIN g |-> g[k]] /\ f = [k \in DOMAIN f |-> f[k]]
  BY <1>1 DEF Reads
<1>5. g = f
  BY <1>2, <1>3, <1>4
<1>. QED BY <1>5 DEF g

\* The nodes S2 are those of S with the value v at the key k.
Assigns(S, S2, k, v) ==
    /\ \A n \in S2 : (n.key = k /\ n.value = v) \/ (n \in S /\ n.key # k)
    /\ \A n \in S : n.key # k => n \in S2
    /\ \E n \in S2 : n.key = k

LEMMA PutReads ==
  ASSUME NEW S, NEW S2, NEW k, NEW v, NEW f, Reads(S, f), Assigns(S, S2, k, v)
  PROVE  Reads(S2, D!Put(f, k, v))
<1> DEFINE g == D!Put(f, k, v)
<1>1. /\ DOMAIN g = DOMAIN f \cup {k} /\ g = [x \in DOMAIN g |-> g[x]]
      /\ g[k] = v /\ \A x \in DOMAIN f : x # k => g[x] = f[x]
  BY DEF D!Put
<1> HIDE DEF g
<1>2. ASSUME NEW n \in S2 PROVE n.key \in DOMAIN g /\ g[n.key] = n.value
  <2>1. CASE n.key = k /\ n.value = v
    BY <1>1, <2>1
  <2>2. CASE n \in S /\ n.key # k
    <3>1. n.key \in DOMAIN f /\ f[n.key] = n.value
      BY <2>2 DEF Reads
    <3>. QED BY <1>1, <2>2, <3>1
  <2>. QED BY <2>1, <2>2 DEF Assigns
<1>3. ASSUME NEW x \in DOMAIN g PROVE \E n \in S2 : n.key = x
  <2>1. CASE x = k
    BY <2>1 DEF Assigns
  <2>2. CASE x \in DOMAIN f /\ x # k
    <3>1. PICK n \in S : n.key = x
      BY <2>2 DEF Reads
    <3>2. n \in S2
      BY <2>2, <3>1 DEF Assigns
    <3>. QED BY <3>1, <3>2
  <2>. QED BY <1>1, <2>1, <2>2
<1>4. Reads(S2, g)
  BY <1>1, <1>2, <1>3 DEF Reads
<1>. QED BY <1>4 DEF g

\* Rearranged nodes have the same contents.
LEMMA SameNodes ==
  ASSUME NEW t, NEW u, Sound(t), Sound(u), NodeSet(u) = NodeSet(t)
  PROVE  ContentOf(u) = ContentOf(t)
BY DEF ContentOf

-----------------------------------------------------------------------------
\* What the calls do.

LEMMA EnlargedIs ==
  ASSUME NEW t, Sound(t), Count(t) # 0
  PROVE  /\ Sound(Enlarged(t)) /\ Count(Enlarged(t)) # 0
         /\ NodeSet(Enlarged(t)) = NodeSet(t) /\ Enlarged(t).size = t.size
<1>1. t.size \in Nat /\ Count(t) \in Nat
  BY SoundIs
<1>2. CASE t.size > Count(t)
  <2>1. (t.size - 1) * 2 \in Nat /\ (t.size - 1) * 2 # 0
    BY <1>1, <1>2
  <2> DEFINE n == (t.size - 1) * 2
  <2>2. Enlarged(t) = Rehash(t, n)
    BY <1>2 DEF Enlarged
  <2>3. n \in Nat /\ n # 0
    BY <2>1
  <2> HIDE DEF n
  <2>. QED BY <2>2, <2>3, RehashIs
<1>3. CASE ~ (t.size > Count(t))
  BY <1>3 DEF Enlarged
<1>. QED BY <1>2, <1>3

\* A map with a node more, at the end of its chain.
Inserted(t, k, v) ==
    [size |-> t.size + 1,
     buckets |-> [t.buckets EXCEPT
                     ![BucketOf(t, Hash[k])] =
                        Append(@, [key |-> k, key_hash |-> Hash[k], value |-> v])]]

\* A key found: its node gets the value.
LEMMA AssignFound ==
  ASSUME NEW t, Sound(t), NEW b \in DOMAIN t.buckets, NEW i \in DOMAIN t.buckets[b],
         NEW k, t.buckets[b][i].key = k, NEW v \in Val
  PROVE  LET u == [t EXCEPT !.buckets[b] = Assigned(@, i, v)]
         IN Sound(u) /\ Count(u) = Count(t) /\ Assigns(NodeSet(t), NodeSet(u), k, v)
<1> DEFINE bs == t.buckets
           cs == [bs EXCEPT ![b] = Assigned(@, i, v)]
           m == bs[b][i]
           n == [m EXCEPT !.value = v]
           u == [t EXCEPT !.buckets[b] = Assigned(@, i, v)]
<1>1. /\ t = [size |-> t.size, buckets |-> bs] /\ t.size \in Nat
      /\ bs \in Buckets /\ Placed(bs) /\ NodeSet(t) = NodesOf(bs)
      /\ IsFiniteSet(NodesOf(bs)) /\ t.size = Cardinality(NodesOf(bs)) /\ Count(t) = Len(bs)
  BY SoundIs
<1>2. u = [size |-> t.size, buckets |-> cs]
  BY <1>1
<1>3. Replaced(bs, cs, b, i, v, n)
  BY DEF Replaced
<1>4. m \in NodesOf(bs) /\ m.key = k
  <2>1. m \in NodesOf(bs)
    BY InBuckets, Zenon
  <2>. QED BY <2>1
<1> HIDE DEF bs, cs, m, n, u
<1>5. /\ cs \in Buckets /\ Len(cs) = Len(bs) /\ Placed(cs)
      /\ n \in Node /\ n.key = m.key /\ n.value = v
      /\ NodesOf(cs) = (NodesOf(bs) \ {m}) \cup {n}
  BY <1>1, <1>3, ReplacedIs DEF bs, m
<1>6. \A x \in NodesOf(bs) : x.key = k => x = m
  BY <1>1, <1>4, OneNode
<1>7. IsFiniteSet(NodesOf(cs)) /\ t.size = Cardinality(NodesOf(cs))
  <2> DEFINE R == NodesOf(bs) \ {m}
  <2>1. IsFiniteSet(R) /\ Cardinality(R) = t.size - 1
    BY <1>1, <1>4, FS_RemoveElement
  <2>2. n \notin R
    BY <1>4, <1>5, <1>6
  <2> HIDE DEF R
  <2>3. IsFiniteSet(R \cup {n}) /\ Cardinality(R \cup {n}) = (t.size - 1) + 1
    BY <2>1, <2>2, FS_AddElement
  <2>4. t.size = (t.size - 1) + 1
    BY <1>1
  <2>. QED BY <1>5, <2>3, <2>4 DEF R
<1>8. Sound(u)
  BY <1>1, <1>2, <1>5, <1>7, MakeSound
<1>9. Count(u) = Count(t) /\ NodeSet(u) = NodesOf(cs)
  BY <1>1, <1>2, <1>5 DEF Count, NodeSet
<1>10. Assigns(NodesOf(bs), NodesOf(cs), k, v)
  BY <1>4, <1>5, <1>6 DEF Assigns
<1>. QED BY <1>1, <1>8, <1>9, <1>10 DEF u

\* A new key: its node is appended.
LEMMA AssignNew ==
  ASSUME NEW t, Sound(t), Count(t) # 0, NEW k \in Key, NEW v \in Val,
         \A n \in NodeSet(t) : n.key # k
  PROVE  /\ Sound(Inserted(t, k, v)) /\ Count(Inserted(t, k, v)) = Count(t)
         /\ Assigns(NodeSet(t), NodeSet(Inserted(t, k, v)), k, v)
<1> DEFINE bs == t.buckets
           n == [key |-> k, key_hash |-> Hash[k], value |-> v]
           cs == [bs EXCEPT ![BucketOf(t, Hash[k])] = Append(@, n)]
           u == Inserted(t, k, v)
<1>1. /\ t = [size |-> t.size, buckets |-> bs] /\ t.size \in Nat
      /\ bs \in Buckets /\ Placed(bs) /\ NodeSet(t) = NodesOf(bs)
      /\ IsFiniteSet(NodesOf(bs)) /\ t.size = Cardinality(NodesOf(bs)) /\ Count(t) = Len(bs)
  BY SoundIs
<1>2. u = [size |-> t.size + 1, buckets |-> cs]
  BY DEF Inserted
<1>3. n \in Node /\ n.key = k /\ n.value = v /\ n.key_hash = Hash[n.key]
  BY HashAssumption DEF Node
<1>5. Fresh(bs, n) /\ Len(bs) # 0
  BY <1>1, <1>3 DEF Fresh
<1>6. cs = PutIn(bs, n, Len(bs))
  BY DEF BucketOf, Home, Count, PutIn
<1> HIDE DEF bs, cs, n, u
<1>7. /\ cs \in Buckets /\ Len(cs) = Len(bs) /\ Placed(cs)
      /\ NodesOf(cs) = NodesOf(bs) \cup {n}
  BY <1>1, <1>3, <1>5, <1>6, AppendedIs
<1>8. IsFiniteSet(NodesOf(cs)) /\ t.size + 1 = Cardinality(NodesOf(cs))
  <2>1. n \notin NodesOf(bs)
    BY <1>5 DEF Fresh
  <2> DEFINE S == NodesOf(bs)
  <2>2. n \notin S /\ IsFiniteSet(S) /\ t.size = Cardinality(S)
    BY <1>1, <2>1
  <2> HIDE DEF S
  <2>3. IsFiniteSet(S \cup {n}) /\ Cardinality(S \cup {n}) = t.size + 1
    BY <2>2, FS_AddElement
  <2>. QED BY <1>7, <2>3 DEF S
<1>9. t.size + 1 \in Nat
  BY <1>1
<1>10. Sound(u)
  BY <1>2, <1>7, <1>8, <1>9, MakeSound
<1>11. Count(u) = Count(t) /\ NodeSet(u) = NodesOf(cs)
  BY <1>1, <1>2, <1>7 DEF Count, NodeSet
<1>12. Assigns(NodesOf(bs), NodesOf(cs), k, v)
  BY <1>1, <1>3, <1>7 DEF Assigns
<1>. QED BY <1>1, <1>10, <1>11, <1>12 DEF u

LEMMA SetIs ==
  ASSUME NEW t, Sound(t), Count(t) # 0, NEW k \in Key, NEW v \in Val
  PROVE  /\ Sound(SetIn(t, k, v)) /\ Count(SetIn(t, k, v)) # 0
         /\ Assigns(NodeSet(t), NodeSet(SetIn(t, k, v)), k, v)
<1> DEFINE r == Enlarged(t)
           b == BucketOf(r, Hash[k])
           hits == Hits(r.buckets[b], k)
<1>1. Sound(r) /\ Count(r) # 0 /\ NodeSet(r) = NodeSet(t)
  BY EnlargedIs
<1> HIDE DEF r
<1>2. /\ b \in DOMAIN r.buckets
      /\ hits = {} => \A n \in NodeSet(r) : n.key # k
      /\ hits # {} => /\ Min(hits) \in DOMAIN r.buckets[b]
                      /\ r.buckets[b][Min(hits)].key = k
  BY <1>1, SearchIs
<1>3. CASE hits # {}
  <2>1. SetIn(t, k, v) = [r EXCEPT !.buckets[b] = Assigned(@, Min(hits), v)]
    BY <1>3, Zenon DEF SetIn, r
  <2>. QED BY <1>1, <1>2, <1>3, <2>1, AssignFound
<1>4. CASE hits = {}
  <2>1. SetIn(t, k, v) = Inserted(r, k, v)
    BY <1>4, Zenon DEF SetIn, Inserted, r
  <2> HIDE DEF hits, b
  <2>. QED BY <1>1, <1>2, <1>4, <2>1, AssignNew
<1>. QED BY <1>3, <1>4

\* Whether a search finds the key, and what.
LEMMA FoundIs ==
  ASSUME NEW t, Sound(t), Count(t) # 0, NEW k \in Key,
         NEW hits, hits = Hits(t.buckets[BucketOf(t, Hash[k])], k)
  PROVE  hits # {} <=> k \in DOMAIN ContentOf(t)
<1> DEFINE b == BucketOf(t, Hash[k])
<1>1. /\ hits = {} => \A n \in NodeSet(t) : n.key # k
      /\ hits # {} => /\ t.buckets[b][Min(hits)].key = k
                      /\ t.buckets[b][Min(hits)] \in NodeSet(t)
  BY SearchIs
<1>2. Reads(NodeSet(t), ContentOf(t))
  BY ContentReads
<1>3. hits # {} => \E n \in NodeSet(t) : n.key = k
  BY <1>1
<1>. QED BY <1>1, <1>2, <1>3 DEF Reads

LEMMA GetIs ==
  ASSUME NEW t, Sound(t), Count(t) # 0, NEW k \in Key
  PROVE  GetFrom(t, k) = D!Lookup(ContentOf(t), k) /\ GetFrom(t, k) \in Val \cup {NULL}
<1> DEFINE chain == t.buckets[BucketOf(t, Hash[k])]
           hits == Hits(chain, k)
           n == chain[Min(hits)]
<1>1. GetFrom(t, k) = IF hits = {} THEN NULL ELSE n.value
  BY DEF GetFrom
<1>2. hits # {} => n.key = k /\ n \in NodeSet(t)
  BY SearchIs
<1>3. hits # {} <=> k \in DOMAIN ContentOf(t)
  BY FoundIs
<1>4. Reads(NodeSet(t), ContentOf(t))
  BY ContentReads
<1> HIDE DEF hits, n
<1>5. CASE hits = {}
  BY <1>1, <1>3, <1>5 DEF D!Lookup
<1>6. CASE hits # {}
  <2>1. n \in Node /\ n.value \in Val
    BY <1>2, <1>6, SoundNodes, NodeIs
  <2>2. ContentOf(t)[k] = n.value
    BY <1>2, <1>4, <1>6 DEF Reads
  <2>. QED BY <1>1, <1>3, <1>6, <2>1, <2>2 DEF D!Lookup
<1>. QED BY <1>5, <1>6

\* A map without the i-th node of bucket b.
Cut(t, b, i) ==
    [size |-> t.size - 1, buckets |-> [t.buckets EXCEPT ![b] = RemoveAt(@, i)]]

LEMMA CutIs ==
  ASSUME NEW t, Sound(t), NEW b \in DOMAIN t.buckets, NEW i \in DOMAIN t.buckets[b]
  PROVE  /\ Sound(Cut(t, b, i)) /\ Count(Cut(t, b, i)) = Count(t)
         /\ NodeSet(Cut(t, b, i)) = {n \in NodeSet(t) : n.key # t.buckets[b][i].key}
<1> DEFINE bs == t.buckets
           cs == [bs EXCEPT ![b] = RemoveAt(@, i)]
           m == bs[b][i]
           u == Cut(t, b, i)
           S == NodesOf(bs)
<1>1. /\ t.size \in Nat
      /\ bs \in Buckets /\ Placed(bs) /\ NodeSet(t) = S
      /\ IsFiniteSet(S) /\ t.size = Cardinality(S) /\ Count(t) = Len(bs)
  BY SoundIs
<1>2. u = [size |-> t.size - 1, buckets |-> cs]
  BY DEF Cut
<1>3. Removed(bs, cs, b, i)
  BY DEF Removed
<1>4. m \in S
  BY InBuckets, Zenon
<1> HIDE DEF cs, u
<1>5. cs \in Buckets /\ Len(cs) = Len(bs) /\ Placed(cs) /\ NodesOf(cs) = S \ {m}
  BY <1>1, <1>3, RemovedIs
<1>6. \A n \in S : n.key = m.key => n = m
  BY <1>1, <1>4, OneNode
<1> HIDE DEF bs, m, S
<1>7. IsFiniteSet(S \ {m}) /\ Cardinality(S \ {m}) = t.size - 1
  BY <1>1, <1>4, FS_RemoveElement
<1>8. t.size - 1 \in Nat
  <2>1. Cardinality(S) # 0
    BY <1>1, <1>4, FS_EmptySet
  <2>. QED BY <1>1, <2>1
<1>9. Sound(u)
  BY <1>2, <1>5, <1>7, <1>8, MakeSound
<1>10. S \ {m} = {n \in S : n.key # m.key}
  BY <1>6
<1>. QED BY <1>1, <1>2, <1>5, <1>9, <1>10 DEF Count, NodeSet, u, m, bs

LEMMA WithoutReads ==
  ASSUME NEW S, NEW k, NEW f, Reads(S, f)
  PROVE  Reads({n \in S : n.key # k}, D!Without(f, k))
<1> DEFINE g == D!Without(f, k)
<1>1. /\ DOMAIN g = DOMAIN f \ {k} /\ g = [x \in DOMAIN g |-> g[x]]
      /\ \A x \in DOMAIN f : x # k => g[x] = f[x]
  BY DEF D!Without
<1> HIDE DEF g
<1>2. Reads({n \in S : n.key # k}, g)
  BY <1>1 DEF Reads
<1>. QED BY <1>2 DEF g

LEMMA RemoveIs ==
  ASSUME NEW t, Sound(t), Count(t) # 0, NEW k \in Key
  PROVE  /\ Sound(RemoveFrom(t, k)) /\ Count(RemoveFrom(t, k)) = Count(t)
         /\ ContentOf(RemoveFrom(t, k)) = D!Without(ContentOf(t), k)
<1> DEFINE b == BucketOf(t, Hash[k])
           hits == Hits(t.buckets[b], k)
           u == RemoveFrom(t, k)
<1>1. /\ b \in DOMAIN t.buckets
      /\ hits = {} => \A n \in NodeSet(t) : n.key # k
      /\ hits # {} => Min(hits) \in DOMAIN t.buckets[b] /\ t.buckets[b][Min(hits)].key = k
  BY SearchIs
<1>2. u = IF hits = {} THEN t ELSE Cut(t, b, Min(hits))
  BY Zenon DEF RemoveFrom, Cut
<1> HIDE DEF b, hits, u
<1>3. Sound(u) /\ Count(u) = Count(t) /\ NodeSet(u) = {n \in NodeSet(t) : n.key # k}
  <2>1. CASE hits = {}
    BY <1>1, <1>2, <2>1
  <2>2. CASE hits # {}
    BY <1>1, <1>2, <2>2, CutIs
  <2>. QED BY <2>1, <2>2
<1>4. Reads(NodeSet(u), D!Without(ContentOf(t), k))
  BY <1>3, ContentReads, WithoutReads
<1>. QED BY <1>3, <1>4, ReadsContent DEF u

\* A map without nodes.
LEMMA EmptyIs ==
  ASSUME NEW n \in Nat
  PROVE  LET t == [size |-> 0, buckets |-> NoNodes(n)]
         IN Sound(t) /\ Count(t) = n /\ ContentOf(t) = D!Empty
<1> DEFINE t == [size |-> 0, buckets |-> NoNodes(n)]
<1>1. /\ NoNodes(n) \in Buckets /\ Placed(NoNodes(n)) /\ Len(NoNodes(n)) = n
      /\ NodesOf(NoNodes(n)) = {}
  BY NoNodesIs
<1>2. Sound(t)
  <2> DEFINE bs == NoNodes(n)
  <2>1. IsFiniteSet(NodesOf(bs)) /\ 0 = Cardinality(NodesOf(bs))
    BY <1>1, FS_EmptySet
  <2>2. bs \in Buckets /\ Placed(bs) /\ 0 \in Nat
    BY <1>1
  <2> HIDE DEF bs
  <2>3. Sound([size |-> 0, buckets |-> bs])
    BY <2>1, <2>2, MakeSound
  <2>. QED BY <2>3 DEF bs
<1>3. Count(t) = n /\ NodeSet(t) = {}
  BY <1>1 DEF Count, NodeSet
<1> HIDE DEF t
<1>4. ContentOf(t) = D!Empty
  BY <1>3 DEF ContentOf, D!Empty
<1>. QED BY <1>2, <1>3, <1>4 DEF t

LEMMA NewMapIs ==
  ASSUME NEW n \in Nat
  PROVE  Sound(NewMap(n)) /\ Count(NewMap(n)) # 0 /\ ContentOf(NewMap(n)) = D!Empty
<1> DEFINE c == IF n < 3 THEN 3 ELSE n
<1>1. c \in Nat /\ c # 0 /\ NewMap(n) = [size |-> 0, buckets |-> NoNodes(c)]
  BY DEF NewMap
<1> HIDE DEF c
<1>. QED BY <1>1, EmptyIs

LEMMA ClearedIs ==
  ASSUME NEW t, Sound(t)
  PROVE  Sound(Cleared(t)) /\ ContentOf(Cleared(t)) = D!Empty
<1>1. Count(t) \in Nat
  BY SoundIs
<1>2. CASE t.size = 0
  <2>1. NodeSet(t) = {}
    BY <1>2, NoneIsEmpty
  <2>2. ContentOf(t) = D!Empty
    BY <2>1 DEF ContentOf, D!Empty
  <2>. QED BY <1>2, <2>2 DEF Cleared
<1>3. CASE t.size # 0
  BY <1>1, <1>3, EmptyIs DEF Cleared
<1>. QED BY <1>2, <1>3

-----------------------------------------------------------------------------
\* The elements of another map set one by one.

\* Maps that elements can be set in, s being those to set.
Ready(s) == {t \in [size : Nat, buckets : Buckets] : Sound(t) /\ (Count(t) # 0 \/ s = <<>>)}

LEMMA SetInReady ==
  ASSUME NEW s \in Seq(Node), s # <<>>, NEW t \in Ready(s), NEW n \in Node
  PROVE  /\ SetIn(t, n.key, n.value) \in Ready(s)
         /\ Assigns(NodeSet(t), NodeSet(SetIn(t, n.key, n.value)), n.key, n.value)
<1>1. Sound(t) /\ Count(t) # 0
  BY DEF Ready
<1>2. n.key \in Key /\ n.value \in Val
  BY NodeIs
<1> DEFINE u == SetIn(t, n.key, n.value)
<1>3. Sound(u) /\ Count(u) # 0 /\ Assigns(NodeSet(t), NodeSet(u), n.key, n.value)
  BY <1>1, <1>2, SetIs
<1> HIDE DEF u
<1>4. u \in Ready(s)
  BY <1>3 DEF Ready, Sound
<1>. QED BY <1>3, <1>4 DEF u

LEMMA ExtensionsAre ==
  ASSUME NEW s \in Seq(Node), NEW t \in Ready(s)
  PROVE  /\ Extensions(t, s) \in [0 .. Len(s) -> Ready(s)]
         /\ Extensions(t, s)[0] = t
         /\ \A i \in 1 .. Len(s) :
               Extensions(t, s)[i] = SetIn(Extensions(t, s)[i - 1], s[i].key, s[i].value)
<1> DEFINE N == Len(s)
           T == Ready(s)
           step == [i \in 1 .. N |-> [x \in T |-> SetIn(x, s[i].key, s[i].value)]]
<1>1. N \in Nat /\ \A i \in 1 .. N : s[i] \in Node /\ s # <<>>
  BY EmptySeq
<1>2. step \in [1 .. N -> [T -> T]]
  BY <1>1, SetInReady
<1>3. t \in T
  OBVIOUS
<1>4. \A i \in 1 .. N : \A x \in T : step[i][x] = SetIn(x, s[i].key, s[i].value)
  OBVIOUS
<1> HIDE DEF N, T, step
<1>5. PICK g \in [0 .. N -> T] :
         g[0] = t /\ \A i \in 1 .. N : g[i] = step[i][g[i - 1]]
  <2>1. N \in Nat
    BY <1>1
  <2>2. HasSteps(T, t, N, step)
    BY <1>2, <1>3, <2>1, Iterates, Zenon
  <2>. QED BY <2>2 DEF HasSteps
<1> DEFINE W(f) == [i \in 0 .. N |->
                       IF i = 0 THEN t ELSE SetIn(f[i - 1], s[i].key, s[i].value)]
           h == CHOOSE f : f = W(f)
<1>6. \A i \in 1 .. N : g[i] = SetIn(g[i - 1], s[i].key, s[i].value)
  <2>1. ASSUME NEW i \in 1 .. N PROVE g[i] = SetIn(g[i - 1], s[i].key, s[i].value)
    <3>1. i - 1 \in 0 .. N
      BY <1>1
    <3>2. g[i - 1] \in T
      BY <1>5, <3>1
    <3>. QED BY <1>4, <1>5, <3>2
  <2>. QED BY <2>1
<1>7. g = W(g)
  <2>1. ASSUME NEW i \in 0 .. N PROVE g[i] = W(g)[i]
    <3>1. CASE i = 0
      BY <1>5, <3>1
    <3>2. CASE i # 0
      <4>1. i \in 1 .. N
        BY <1>1, <3>2
      <4>. QED BY <1>6, <3>2, <4>1
    <3>. QED BY <3>1, <3>2
  <2>. QED BY <1>5, <2>1
<1>8. h = W(h)
  BY <1>7, Zenon
<1>9. h = Extensions(t, s)
  BY Zenon DEF Extensions, N
<1> HIDE DEF h
<1>10. /\ h = [i \in 0 .. N |-> h[i]]
       /\ \A i \in 0 .. N : i # 0 => h[i] = SetIn(h[i - 1], s[i].key, s[i].value)
       /\ 0 \in 0 .. N => h[0] = t
  BY <1>8
<1> HIDE DEF W
<1>11. h[0] = t /\ \A i \in 1 .. N : h[i] = SetIn(h[i - 1], s[i].key, s[i].value)
  <2>1. 0 \in 0 .. N /\ \A i \in 1 .. N : i \in 0 .. N /\ i # 0
    BY <1>1
  <2>. QED BY <1>10, <2>1
<1>12. ASSUME NEW i \in 1 .. N, h[i - 1] \in T PROVE h[i] \in T
  BY <1>1, <1>11, <1>12, SetInReady DEF T
<1>13. h \in [0 .. N -> T]
  <2>1. h[0] \in T
    BY <1>3, <1>11
  <2>2. h = [i \in 0 .. N |-> h[i]]
    BY <1>10
  <2>. QED BY <1>1, <1>12, <2>1, <2>2, StepsStay
<1>. QED BY <1>9, <1>11, <1>13 DEF N, T

\* f with the values that g has at the keys of the first i elements of s.
Partly(f, g, s, i) ==
    [x \in DOMAIN f \cup {s[j].key : j \in 1 .. i} |->
        IF \E j \in 1 .. i : s[j].key = x THEN g[x] ELSE f[x]]

LEMMA PartlyNone ==
  ASSUME NEW f, f = [x \in DOMAIN f |-> f[x]], NEW g, NEW s
  PROVE  Partly(f, g, s, 0) = f
BY DEF Partly

LEMMA PartlyNext ==
  ASSUME NEW f, NEW g, NEW s, NEW i \in Nat
  PROVE  Partly(f, g, s, i + 1) = D!Put(Partly(f, g, s, i), s[i + 1].key, g[s[i + 1].key])
<1> DEFINE K(n) == {s[j].key : j \in 1 .. n}
           k == s[i + 1].key
<1>1. \A n, x : (\E j \in 1 .. n : s[j].key = x) <=> x \in K(n)
  OBVIOUS
<1>2. K(i + 1) = K(i) \cup {k}
  <2>1. \A j : j \in 1 .. i + 1 <=> j \in 1 .. i \/ j = i + 1
    OBVIOUS
  <2>. QED BY <2>1
<1>3. \A n : Partly(f, g, s, n) = [x \in DOMAIN f \cup K(n) |-> IF x \in K(n) THEN g[x] ELSE f[x]]
  BY <1>1 DEF Partly
<1> HIDE DEF K
<1> DEFINE p == Partly(f, g, s, i)
           q == Partly(f, g, s, i + 1)
<1>4. /\ DOMAIN p = DOMAIN f \cup K(i)
      /\ \A x \in DOMAIN p : p[x] = IF x \in K(i) THEN g[x] ELSE f[x]
  <2>1. p = [x \in DOMAIN f \cup K(i) |-> IF x \in K(i) THEN g[x] ELSE f[x]]
    BY <1>3
  <2> HIDE DEF p
  <2>. QED BY <2>1
<1>5. /\ DOMAIN q = DOMAIN f \cup K(i) \cup {k} /\ q = [x \in DOMAIN q |-> q[x]]
      /\ \A x \in DOMAIN q : q[x] = IF x \in K(i) \cup {k} THEN g[x] ELSE f[x]
  <2>1. q = [x \in DOMAIN f \cup K(i + 1) |-> IF x \in K(i + 1) THEN g[x] ELSE f[x]]
    BY <1>3
  <2> HIDE DEF q, k
  <2>2. q = [x \in DOMAIN f \cup (K(i) \cup {k}) |-> IF x \in K(i) \cup {k} THEN g[x] ELSE f[x]]
    BY <1>2, <2>1
  <2>. QED BY <2>2
<1> HIDE DEF p, q, k
<1>6. \A x \in DOMAIN q : q[x] = IF x = k THEN g[k] ELSE p[x]
  BY <1>4, <1>5
<1>7. q = [x \in DOMAIN p \cup {k} |-> IF x = k THEN g[k] ELSE p[x]]
  BY <1>4, <1>5, <1>6
<1>. QED BY <1>7 DEF D!Put, p, q, k

LEMMA PartlyAll ==
  ASSUME NEW f, NEW g, NEW s \in Seq(Node), NEW S, Reads(S, g),
         \A n : n \in S <=> \E j \in DOMAIN s : s[j] = n
  PROVE  Partly(f, g, s, Len(s)) = D!Over(g, f)
<1>1. \A x : (\E j \in 1 .. Len(s) : s[j].key = x) <=> x \in DOMAIN g
  <2>1. \A j \in 1 .. Len(s) : s[j].key \in DOMAIN g
    BY DEF Reads
  <2>2. ASSUME NEW x \in DOMAIN g PROVE \E j \in 1 .. Len(s) : s[j].key = x
    <3>1. PICK n \in S : n.key = x
      BY DEF Reads
    <3>. QED BY <3>1
  <2>. QED BY <2>1, <2>2
<1>2. {s[j].key : j \in 1 .. Len(s)} = DOMAIN g
  BY <1>1
<1>. QED BY <1>1, <1>2 DEF Partly, D!Over

LEMMA ExtendIs ==
  ASSUME NEW t, Sound(t), NEW o, Sound(o), Count(t) # 0 \/ o.size = 0
  PROVE  /\ Sound(ExtendWith(t, o))
         /\ ContentOf(ExtendWith(t, o)) = D!Over(ContentOf(o), ContentOf(t))
<1> DEFINE s == Nodes(o)
           N == Len(s)
           h == Extensions(t, s)
           f == ContentOf(t)
           g == ContentOf(o)
<1>1. /\ s \in Seq(Node) /\ N \in Nat /\ DOMAIN s = 1 .. N
      /\ \A n : n \in NodeSet(o) <=> \E k \in DOMAIN s : s[k] = n
  BY NodesAre
<1>2. Reads(NodeSet(t), f) /\ Reads(NodeSet(o), g)
  BY ContentReads
<1> HIDE DEF s
<1>3. t \in Ready(s)
  <2>1. Count(t) # 0 \/ s = <<>>
    <3>1. CASE o.size = 0
      <4>1. DOMAIN s = {}
        BY <1>1, <3>1, NoneIsEmpty
      <4>. QED BY <1>1, <4>1, EmptySeq
    <3>. QED BY <3>1
  <2>. QED BY <2>1 DEF Ready, Sound
<1>4. /\ h \in [0 .. N -> Ready(s)] /\ h[0] = t
      /\ \A i \in 1 .. N : h[i] = SetIn(h[i - 1], s[i].key, s[i].value)
  BY <1>1, <1>3, ExtensionsAre
<1>5. ExtendWith(t, o) = h[N]
  BY DEF ExtendWith, s
<1> HIDE DEF h, N, f, g
<1> DEFINE S == {i \in Nat : i <= N => Reads(NodeSet(h[i]), Partly(f, g, s, i))}
<1>6. 0 \in S
  BY <1>2, <1>4, PartlyNone DEF Reads
<1>7. ASSUME NEW i \in Nat, i \in S PROVE i + 1 \in S
  <2>1. SUFFICES ASSUME i + 1 <= N PROVE Reads(NodeSet(h[i + 1]), Partly(f, g, s, i + 1))
    OBVIOUS
  <2>2. i <= N /\ i \in 0 .. N /\ i + 1 \in 1 .. N /\ (i + 1) - 1 = i
    BY <1>1, <2>1
  <2> DEFINE n == s[i + 1]
  <2>3. n \in Node /\ s # <<>> /\ n \in NodeSet(o)
    BY <1>1, <2>2, EmptySeq
  <2>4. h[i] \in Ready(s) /\ h[i + 1] = SetIn(h[i], n.key, n.value)
    BY <1>4, <2>2
  <2> HIDE DEF n
  <2>5. Assigns(NodeSet(h[i]), NodeSet(h[i + 1]), n.key, n.value)
    BY <1>1, <2>3, <2>4, SetInReady
  <2>6. g[n.key] = n.value
    BY <1>2, <2>3 DEF Reads
  <2>7. Reads(NodeSet(h[i]), Partly(f, g, s, i))
    BY <1>7, <2>2
  <2>8. Reads(NodeSet(h[i + 1]), D!Put(Partly(f, g, s, i), n.key, n.value))
    BY <2>5, <2>7, PutReads
  <2>. QED BY <2>6, <2>8, PartlyNext DEF n
<1>8. Reads(NodeSet(h[N]), Partly(f, g, s, N))
  <2> HIDE DEF S
  <2>1. Nat \subseteq S
    BY <1>6, <1>7, SetInduction
  <2>. QED BY <1>1, <2>1 DEF S
<1>9. Partly(f, g, s, N) = D!Over(g, f)
  BY <1>1, <1>2, PartlyAll DEF N
<1>10. Sound(h[N])
  <2>1. N \in 0 .. N
    BY <1>1
  <2>. QED BY <1>4, <2>1 DEF Ready
<1>11. ContentOf(h[N]) = D!Over(g, f)
  BY <1>8, <1>9, <1>10, ReadsContent
<1>. QED BY <1>5, <1>10, <1>11 DEF f, g

-----------------------------------------------------------------------------
\* The invariant.

LEMMA MapsAre ==
  ASSUME HashMapInv
  PROVE  DOMAIN map = Map /\ \A m \in Map : Sound(map[m])
BY DEF HashMapInv

\* One map changed.
LEMMA ChangedIs ==
  ASSUME HashMapInv, NEW m \in Map, NEW u, Sound(u), map' = [map EXCEPT ![m] = u]
  PROVE  /\ DOMAIN map' = Map /\ map' = [x \in Map |-> map'[x]]
         /\ \A x \in Map : Sound(map'[x])
         /\ Contents' = [Contents EXCEPT ![m] = ContentOf(u)]
<1>1. DOMAIN map = Map /\ \A x \in Map : Sound(map[x])
  BY MapsAre
<1>2. /\ DOMAIN map' = Map /\ map' = [x \in Map |-> map'[x]]
      /\ \A x \in Map : map'[x] = IF x = m THEN u ELSE map[x]
  BY <1>1
<1>3. Contents' = [x \in Map |-> ContentOf(map'[x])]
  BY DEF Contents
<1>4. \A x \in Map : ContentOf(map'[x]) = IF x = m THEN ContentOf(u) ELSE ContentOf(map[x])
  BY <1>2
<1>5. Contents' = [x \in Map |-> IF x = m THEN ContentOf(u) ELSE ContentOf(map[x])]
  BY <1>3, <1>4
<1>6. [Contents EXCEPT ![m] = ContentOf(u)]
         = [x \in Map |-> IF x = m THEN ContentOf(u) ELSE ContentOf(map[x])]
  BY DEF Contents
<1>7. \A x \in Map : Sound(map'[x])
  BY <1>1, <1>2
<1>. QED BY <1>2, <1>5, <1>6, <1>7

\* Each call keeps the maps sound, and has the effect that is promised.
LEMMA SetStep ==
  ASSUME HashMapInv, NEW m \in Map, NEW k \in Key, NEW v \in Val, HashMapSet(m, k, v)
  PROVE  HashMapInv' /\ D!Assign(m, k, v)
<1> DEFINE t == map[m]
           u == SetIn(t, k, v)
<1>1. Sound(t) /\ Count(t) # 0
  BY MapsAre DEF HashMapSet
<1>2. Sound(u) /\ Assigns(NodeSet(t), NodeSet(u), k, v)
  BY <1>1, SetIs
<1>3. ContentOf(u) = D!Put(ContentOf(t), k, v)
  <2> HIDE DEF t, u
  <2>1. Reads(NodeSet(t), ContentOf(t))
    BY <1>1, ContentReads
  <2>2. Reads(NodeSet(u), D!Put(ContentOf(t), k, v))
    BY <1>2, <2>1, PutReads
  <2>. QED BY <1>2, <2>2, ReadsContent
<1>4. map' = [map EXCEPT ![m] = u] /\ call' = <<"set", m, k, v>> /\ ret' = NULL /\ fault' = fault
  BY DEF HashMapSet
<1> HIDE DEF u
<1>5. /\ DOMAIN map' = Map /\ map' = [x \in Map |-> map'[x]] /\ \A x \in Map : Sound(map'[x])
      /\ Contents' = [Contents EXCEPT ![m] = ContentOf(u)]
  BY <1>2, <1>4, ChangedIs
<1>6. HashMapInv'
  BY <1>4, <1>5 DEF HashMapInv, Returned
<1>7. Contents' = [Contents EXCEPT ![m] = D!Put(Contents[m], k, v)]
  BY <1>3, <1>5 DEF Contents
<1>8. D!Assign(m, k, v)
  BY <1>4, <1>7 DEF D!Assign
<1>. QED BY <1>6, <1>8

LEMMA GetStep ==
  ASSUME HashMapInv, NEW m \in Map, NEW k \in Key, HashMapGet(m, k)
  PROVE  HashMapInv' /\ D!Find(m, k)
<1> DEFINE t == map[m]
<1>1. Sound(t) /\ Count(t) # 0
  BY MapsAre DEF HashMapGet
<1>2. GetFrom(t, k) = D!Lookup(ContentOf(t), k) /\ GetFrom(t, k) \in Val \cup {NULL}
  BY <1>1, GetIs
<1>3. /\ map' = map /\ call' = <<"get", m, k>> /\ ret' = GetFrom(t, k) /\ fault' = fault
  BY DEF HashMapGet
<1>4. HashMapInv'
  BY <1>2, <1>3 DEF HashMapInv, Returned
<1>5. Contents' = Contents /\ Contents[m] = ContentOf(t)
  BY <1>3 DEF Contents
<1>6. ret' = D!Lookup(Contents[m], k)
  BY <1>2, <1>3, <1>5
<1>7. D!Find(m, k)
  BY <1>3, <1>5, <1>6 DEF D!Find
<1>. QED BY <1>4, <1>7

LEMMA RemoveStep ==
  ASSUME HashMapInv, NEW m \in Map, NEW k \in Key, HashMapRemove(m, k)
  PROVE  HashMapInv' /\ D!Delete(m, k)
<1> DEFINE t == map[m]
           u == RemoveFrom(t, k)
           hits == Hits(t.buckets[BucketOf(t, Hash[k])], k)
<1>1. Sound(t) /\ Count(t) # 0
  BY MapsAre DEF HashMapRemove
<1>2. Sound(u) /\ ContentOf(u) = D!Without(ContentOf(t), k)
  BY <1>1, RemoveIs
<1>3. hits # {} <=> k \in DOMAIN ContentOf(t)
  BY <1>1, FoundIs
<1>4. /\ map' = [map EXCEPT ![m] = u] /\ call' = <<"remove", m, k>>
      /\ ret' = (hits # {}) /\ fault' = fault
  BY DEF HashMapRemove
<1> HIDE DEF u, hits
<1>5. /\ DOMAIN map' = Map /\ map' = [x \in Map |-> map'[x]] /\ \A x \in Map : Sound(map'[x])
      /\ Contents' = [Contents EXCEPT ![m] = ContentOf(u)]
  BY <1>2, <1>4, ChangedIs
<1>6. HashMapInv'
  <2>1. ret' \in BOOLEAN
    BY <1>4
  <2>. QED BY <1>4, <1>5, <2>1 DEF HashMapInv, Returned
<1>7. Contents[m] = ContentOf(t)
  BY DEF Contents
<1>8. Contents' = [Contents EXCEPT ![m] = D!Without(Contents[m], k)]
  BY <1>2, <1>5, <1>7
<1>9. ret' = (k \in DOMAIN Contents[m])
  BY <1>3, <1>4, <1>7
<1>10. D!Delete(m, k)
  BY <1>4, <1>8, <1>9 DEF D!Delete
<1>. QED BY <1>6, <1>10

\* Emptying a map.
LEMMA EmptiedStep ==
  ASSUME HashMapInv, NEW m \in Map, NEW u, Sound(u), ContentOf(u) = D!Empty,
         map' = [map EXCEPT ![m] = u], call' = <<"clear", m>>, ret' = NULL, fault' = fault
  PROVE  HashMapInv' /\ D!DeleteAll(m)
<1>1. /\ DOMAIN map' = Map /\ map' = [x \in Map |-> map'[x]] /\ \A x \in Map : Sound(map'[x])
      /\ Contents' = [Contents EXCEPT ![m] = D!Empty]
  BY ChangedIs
<1>2. HashMapInv'
  BY <1>1 DEF HashMapInv, Returned
<1>3. D!DeleteAll(m)
  BY <1>1 DEF D!DeleteAll
<1>. QED BY <1>2, <1>3

LEMMA ClearStep ==
  ASSUME HashMapInv, NEW m \in Map, HashMapClear(m)
  PROVE  HashMapInv' /\ D!DeleteAll(m)
<1>1. Sound(Cleared(map[m])) /\ ContentOf(Cleared(map[m])) = D!Empty
  BY MapsAre, ClearedIs
<1>2. /\ map' = [map EXCEPT ![m] = Cleared(map[m])] /\ call' = <<"clear", m>>
      /\ ret' = NULL /\ fault' = fault
  BY DEF HashMapClear
<1>. QED BY <1>1, <1>2, EmptiedStep

LEMMA RenewStep ==
  ASSUME HashMapInv, NEW m \in Map, NEW n \in InitCounts, Renew(m, n)
  PROVE  HashMapInv' /\ D!DeleteAll(m)
<1>1. n \in Nat
  BY HashAssumption
<1>2. Sound(NewMap(n)) /\ ContentOf(NewMap(n)) = D!Empty
  BY <1>1, NewMapIs
<1>3. /\ map' = [map EXCEPT ![m] = NewMap(n)] /\ call' = <<"clear", m>>
      /\ ret' = NULL /\ fault' = fault
  BY DEF Renew
<1>. QED BY <1>2, <1>3, EmptiedStep

LEMMA ExtendStep ==
  ASSUME HashMapInv, NEW m \in Map, NEW other \in Map, HashMapExtend(m, other)
  PROVE  HashMapInv' /\ D!Insert(m, other)
<1> DEFINE t == map[m]
           o == map[other]
           u == ExtendWith(t, o)
<1>1. Sound(t) /\ Sound(o) /\ (Count(t) # 0 \/ o.size = 0)
  BY MapsAre DEF HashMapExtend
<1>2. Sound(u) /\ ContentOf(u) = D!Over(ContentOf(o), ContentOf(t))
  BY <1>1, ExtendIs
<1>3. /\ map' = [map EXCEPT ![m] = u] /\ call' = <<"extend", m, other>>
      /\ ret' = NULL /\ fault' = fault
  BY DEF HashMapExtend
<1> HIDE DEF u
<1>4. /\ DOMAIN map' = Map /\ map' = [x \in Map |-> map'[x]] /\ \A x \in Map : Sound(map'[x])
      /\ Contents' = [Contents EXCEPT ![m] = ContentOf(u)]
  BY <1>2, <1>3, ChangedIs
<1>5. HashMapInv'
  BY <1>3, <1>4 DEF HashMapInv, Returned
<1>6. Contents[m] = ContentOf(t) /\ Contents[other] = ContentOf(o)
  BY DEF Contents
<1>7. Contents' = [Contents EXCEPT ![m] = D!Over(Contents[other], Contents[m])]
  BY <1>2, <1>4, <1>6
<1>8. D!Insert(m, other)
  BY <1>3, <1>7 DEF D!Insert
<1>. QED BY <1>5, <1>8

\* Storage rearranged.
LEMMA RearrangedStep ==
  ASSUME HashMapInv, NEW m \in Map, NEW u, Sound(u), NodeSet(u) = NodeSet(map[m]),
         map' = [map EXCEPT ![m] = u], call' = <<"resize", m>>, ret' = NULL, fault' = fault
  PROVE  HashMapInv' /\ D!Rearrange(m)
<1>1. /\ DOMAIN map' = Map /\ map' = [x \in Map |-> map'[x]] /\ \A x \in Map : Sound(map'[x])
      /\ Contents' = [Contents EXCEPT ![m] = ContentOf(u)]
  BY ChangedIs
<1>2. HashMapInv'
  BY <1>1 DEF HashMapInv, Returned
<1>3. ContentOf(u) = ContentOf(map[m])
  BY MapsAre, SameNodes
<1>4. Contents' = Contents
  BY <1>1, <1>3 DEF Contents
<1>5. D!Rearrange(m)
  BY <1>4 DEF D!Rearrange
<1>. QED BY <1>2, <1>5

LEMMA ReserveStep ==
  ASSUME HashMapInv, NEW m \in Map, NEW count \in ReserveCounts, HashMapReserve(m, count)
  PROVE  HashMapInv' /\ D!Rearrange(m)
<1> DEFINE t == map[m]
           u == IF count <= Count(t) THEN t ELSE Rehash(t, count)
<1>1. Sound(t) /\ Count(t) \in Nat /\ count \in Nat
  BY MapsAre, SoundIs, HashAssumption
<1>2. Sound(u) /\ NodeSet(u) = NodeSet(t)
  <2>1. CASE count <= Count(t)
    BY <1>1, <2>1
  <2>2. CASE ~ (count <= Count(t))
    <3>1. count # 0
      BY <1>1, <2>2
    <3>. QED BY <1>1, <2>2, <3>1, RehashIs
  <2>. QED BY <2>1, <2>2
<1>3. /\ map' = [map EXCEPT ![m] = u] /\ call' = <<"resize", m>> /\ ret' = NULL /\ fault' = fault
  BY DEF HashMapReserve
<1> HIDE DEF u
<1>. QED BY <1>2, <1>3, RearrangedStep

LEMMA ShrinkStep ==
  ASSUME HashMapInv, NEW m \in Map, HashMapShrink(m)
  PROVE  HashMapInv' /\ D!Rearrange(m)
<1> DEFINE t == map[m]
           u == IF t.size > Count(t) THEN t ELSE Rehash(t, t.size)
<1>1. Sound(t) /\ t.size \in Nat
  BY MapsAre, SoundIs
<1>2. Sound(u) /\ NodeSet(u) = NodeSet(t)
  BY <1>1, RehashIs
<1>3. /\ map' = [map EXCEPT ![m] = u] /\ call' = <<"resize", m>> /\ ret' = NULL /\ fault' = fault
  BY DEF HashMapShrink
<1> HIDE DEF u
<1>. QED BY <1>2, <1>3, RearrangedStep

\* Steps that change no map and are no calls.
LEMMA IdleStep ==
  ASSUME HashMapInv, map' = map, call' = call, ret' = ret, fault' \in BOOLEAN
  PROVE  HashMapInv' /\ UNCHANGED <<Contents, call, ret>>
<1>1. HashMapInv'
  BY DEF HashMapInv, Returned
<1>2. Contents' = Contents
  BY DEF Contents
<1>. QED BY <1>1, <1>2

LEMMA InitMaps ==
  ASSUME Init
  PROVE  HashMapInv /\ D!Init
<1>1. /\ DOMAIN map = Map /\ map = [m \in Map |-> map[m]]
      /\ \A m \in Map : \E n \in InitCounts : map[m] = NewMap(n)
      /\ call = <<"init">> /\ ret = NULL /\ fault = FALSE
  BY DEF Init
<1>2. ASSUME NEW m \in Map PROVE Sound(map[m]) /\ ContentOf(map[m]) = D!Empty
  <2>1. PICK n \in InitCounts : map[m] = NewMap(n)
    BY <1>1
  <2>2. n \in Nat
    BY HashAssumption
  <2>. QED BY <2>1, <2>2, NewMapIs
<1>3. HashMapInv
  BY <1>1, <1>2 DEF HashMapInv, Returned
<1>4. Contents = [m \in Map |-> D!Empty]
  BY <1>2 DEF Contents
<1>5. D!Init
  BY <1>1, <1>4 DEF D!Init
<1>. QED BY <1>3, <1>5

LEMMA NextMaps ==
  ASSUME HashMapInv, [Next]_vars
  PROVE  HashMapInv' /\ [D!Next]_<<Contents, call, ret>>
<1>1. ASSUME NEW m \in Map, NEW k \in Key, NEW v \in Val, HashMapSet(m, k, v)
      PROVE  HashMapInv' /\ D!Next
  BY <1>1, SetStep DEF D!Next
<1>2. ASSUME NEW m \in Map, NEW k \in Key, HashMapGet(m, k)
      PROVE  HashMapInv' /\ D!Next
  BY <1>2, GetStep DEF D!Next
<1>3. ASSUME NEW m \in Map, NEW k \in Key, HashMapRemove(m, k)
      PROVE  HashMapInv' /\ D!Next
  BY <1>3, RemoveStep DEF D!Next
<1>4. ASSUME NEW m \in Map, HashMapClear(m) PROVE HashMapInv' /\ D!Next
  BY <1>4, ClearStep DEF D!Next
<1>5. ASSUME NEW m \in Map, HashMapShrink(m) PROVE HashMapInv' /\ D!Next
  BY <1>5, ShrinkStep DEF D!Next
<1>6. ASSUME NEW m \in Map, DivideByZero(m)
      PROVE  HashMapInv' /\ UNCHANGED <<Contents, call, ret>>
  BY <1>6, IdleStep DEF DivideByZero
<1>7. ASSUME NEW m \in Map, NEW other \in Map, HashMapExtend(m, other)
      PROVE  HashMapInv' /\ D!Next
  BY <1>7, ExtendStep DEF D!Next
<1>8. ASSUME NEW m \in Map, NEW count \in ReserveCounts, HashMapReserve(m, count)
      PROVE  HashMapInv' /\ D!Next
  BY <1>8, ReserveStep DEF D!Next
<1>9. ASSUME NEW m \in Map, NEW n \in InitCounts, Renew(m, n) PROVE HashMapInv' /\ D!Next
  BY <1>9, RenewStep DEF D!Next
<1>10. CASE Killed \/ UNCHANGED vars
  BY <1>10, IdleStep DEF Killed, vars, HashMapInv, Returned
<1>11. CASE Next
  BY <1>1, <1>2, <1>3, <1>4, <1>5, <1>6, <1>7, <1>8, <1>9, <1>10, <1>11 DEF Next
<1>. QED BY <1>10, <1>11

LEMMA Invariance == Spec => []HashMapInv
<1>1. Init => HashMapInv
  BY InitMaps
<1>2. HashMapInv /\ [Next]_vars => HashMapInv'
  BY NextMaps
<1>. QED BY <1>1, <1>2, PTL DEF Spec

\* Every map is a well-formed record of chains of nodes, after any calls of
\* hashmap.c.
THEOREM HashMapTypes == Spec => []TypeOK
<1>1. HashMapInv => TypeOK
  <2>1. SUFFICES ASSUME HashMapInv PROVE TypeOK
    OBVIOUS
  <2>2. \A m \in Map : map[m] \in [size : Nat, buckets : Seq(Seq(Node))]
    BY <2>1 DEF HashMapInv, Sound, Buckets
  <2>3. map \in [Map -> [size : Nat, buckets : Seq(Seq(Node))]]
    BY <2>1, <2>2 DEF HashMapInv
  <2>. QED BY <2>1, <2>3 DEF HashMapInv, Returned, TypeOK
<1>. QED BY <1>1, Invariance, PTL

\* Whatever is set, removed, cleared, extended, reserved and shrunk, each node
\* is in the bucket its hash selects now, no key has two nodes, and _size is
\* the number of nodes.
THEOREM InPlace == Spec => []NodesInPlace
<1>1. HashMapInv => NodesInPlace
  <2>1. SUFFICES ASSUME HashMapInv, NEW m \in Map
                 PROVE  LET t == map[m]
                        IN /\ t.size = Cardinality(NodeSet(t))
                           /\ \A b \in DOMAIN t.buckets : \A i \in DOMAIN t.buckets[b] :
                                 /\ b = BucketOf(t, t.buckets[b][i].key_hash)
                                 /\ \A c \in DOMAIN t.buckets : \A j \in DOMAIN t.buckets[c] :
                                       t.buckets[b][i].key = t.buckets[c][j].key => b = c /\ i = j
    BY DEF NodesInPlace
  <2> DEFINE t == map[m]
             bs == t.buckets
  <2>2. Sound(t)
    BY <2>1, MapsAre
  <2>3. t.size = Cardinality(NodeSet(t)) /\ Placed(bs) /\ Count(t) = Len(bs)
    BY <2>2, SoundIs
  <2> HIDE DEF t
  <2>4. ASSUME NEW b \in DOMAIN bs, NEW i \in DOMAIN bs[b]
        PROVE  b = BucketOf(t, bs[b][i].key_hash)
    BY <2>3 DEF Placed, BucketOf
  <2>5. ASSUME NEW b \in DOMAIN bs, NEW i \in DOMAIN bs[b],
               NEW c \in DOMAIN bs, NEW j \in DOMAIN bs[c], bs[b][i].key = bs[c][j].key
        PROVE  b = c /\ i = j
    BY <2>3, <2>5, PlacedOnce
  <2>. QED BY <2>3, <2>4, <2>5 DEF t
<1>. QED BY <1>1, Invariance, PTL

\* The hash map is a dictionary: what every call returns, and what it does to
\* the elements, is what hashmap.h promises of it.
THEOREM Implements == Spec => IsDictionary
<1>1. Init => D!Init
  BY InitMaps
<1>2. HashMapInv /\ [Next]_vars => [D!Next]_<<Contents, call, ret>>
  BY NextMaps
<1>. QED BY <1>1, <1>2, Invariance, PTL DEF Spec, D!Spec, IsDictionary
=============================================================================
