----------------------------- MODULE CApiProofs -----------------------------
(***************************************************************************)
(* Proofs about the C API, for every stack size and every client: the      *)
(* calls on the stack stay nested (FramesNested, which is inductive as it  *)
(* stands), the cells of outer calls are kept (CallerKept), and the shared *)
(* stack implements calls that have values of their own (IsFrames).        *)
(*                                                                         *)
(* The refinement needs one more invariant, Callees: what lies below the   *)
(* arguments of a call is a function.  owiz_load_attribute(0) and its like *)
(* may look at that cell when a call has no arguments and no values, and   *)
(* nothing may be read out of it.                                          *)
(***************************************************************************)
EXTENDS CApi, WellFoundedInduction, SequenceTheorems, TLAPS

-----------------------------------------------------------------------------
(* Numbers and sequences.  Induction over the natural numbers is stated with
   sets: the library's theorems take an operator, which the provers cannot
   instantiate, but a set of numbers is a value like any other. *)

\* "Less than" as a set of pairs.
LEMMA LessPairs == OpToRel(<, Nat) = {p \in Nat \X Nat : p[1] < p[2]}
  BY Zenon DEF OpToRel

\* A set of natural numbers that is not empty has a least element.
LEMMA LeastElement ==
  ASSUME NEW S \in SUBSET Nat, S # {}
  PROVE  \E x \in S : \A y \in S : x <= y
<1>1. \E x \in S : \A y \in S : ~ (<<y, x>> \in OpToRel(<, Nat))
  BY WFMin, NatLessThanWellFounded, Zenon
<1>2. PICK x \in S : \A y \in S : ~ (<<y, x>> \in {p \in Nat \X Nat : p[1] < p[2]})
  BY <1>1, LessPairs, Zenon
<1>3. ASSUME NEW y \in S PROVE x <= y
  <2>1. <<y, x>> \in Nat \X Nat /\ ~ (<<y, x>> \in {p \in Nat \X Nat : p[1] < p[2]})
    BY <1>2
  <2>2. ~ (y < x)
    BY <2>1
  <2>. QED BY <2>2
<1>. QED BY <1>3

\* A set with 0 and, for each of its elements, the next number has them all.
LEMMA SetInduction ==
  ASSUME NEW S, 0 \in S, \A n \in Nat : n \in S => n + 1 \in S
  PROVE  Nat \subseteq S
<1> SUFFICES ASSUME Nat \ S # {} PROVE FALSE
  OBVIOUS
<1>1. PICK x \in Nat \ S : \A y \in Nat \ S : x <= y
  BY LeastElement
<1>2. x # 0 /\ x - 1 \in Nat
  OBVIOUS
<1>3. x - 1 \in S
  BY <1>1, <1>2
<1>. QED BY <1>2, <1>3

\* The first elements of a sequence.
LEMMA PrefixIs ==
  ASSUME NEW S, NEW s \in Seq(S), NEW n \in Nat, n <= Len(s)
  PROVE  /\ SubSeq(s, 1, n) \in Seq(S)
         /\ Len(SubSeq(s, 1, n)) = n
         /\ \A i \in 1 .. n : SubSeq(s, 1, n)[i] = s[i]
<1>1. \A i \in 1 .. n : s[i] \in S
  OBVIOUS
<1>2. Len(SubSeq(s, 1, n)) = IF 1 <= n THEN n - 1 + 1 ELSE 0
  BY <1>1, SubSeqProperties
<1>3. SubSeq(s, 1, n) \in Seq(S)
  BY <1>1, SubSeqProperties
<1>4. \A i \in 1 .. n - 1 + 1 : SubSeq(s, 1, n)[i] = s[1 + i - 1]
  BY <1>1, SubSeqProperties
<1>. QED BY <1>2, <1>3, <1>4

-----------------------------------------------------------------------------
\* What CallerKept says of one step.
Kept == \A p \in 1 .. sp : p < Own /\ p < Own' => p <= sp' /\ stk'[p] = stk[p]

-----------------------------------------------------------------------------
(* Values *)

\* An element of a sequence.
LEMMA ElementIn ==
    ASSUME NEW S, NEW s \in Seq(S), NEW i \in 1 .. Len(s)
    PROVE  s[i] \in S
OBVIOUS

\* The objects the API functions push themselves are values.
LEMMA AtomsAreValues ==
    /\ Nil \in Value /\ Str \in Value /\ Exc \in Value /\ Mod \in Value
    /\ Atoms \subseteq Value
BY DEF Value, Atoms

\* What a container holds: atoms.
LEMMA ContainerHolds ==
    ASSUME NEW v \in Value, v.k \in ContainerKinds
    PROVE  v.of \in Seq(Atoms)
BY DEF Value, Atoms, ContainerKinds, Nil, Num, Str, Sym, Exc, Mod, Atom

\* NULL is not a value.
LEMMA NoneIsNoValue == None \notin Value
BY DEF Value, Atoms, ContainerKinds, None, Nil, Num, Str, Sym, Exc, Mod, Atom

\* Visiting a set or a map yields what it holds.
LEMMA EntriesFrom ==
    ASSUME NEW v \in Value, v.k \in {"set", "map"}, NEW e \in Orders(v),
           NEW S, \A j \in 1 .. Len(v.of) : v.of[j] \in S
    PROVE  Entries(v, e) \in Seq(S) /\ Len(e) \in Nat
<1>1. v.of \in Seq(Atoms)
  BY ContainerHolds DEF ContainerKinds
<1>2. PICK n \in 0 .. Len(v.of) : e \in [1 .. n -> Latest(v)]
  BY DEF Orders
<1>4. ASSUME NEW j \in Latest(v)
      PROVE  /\ j \in 1 .. Len(v.of)
             /\ v.k = "map" => j + 1 \in 1 .. Len(v.of)
  <2>1. j \in Positions(v)
    BY DEF Latest
  <2>2. Len(v.of) \in Nat
    BY <1>1
  <2>3. j \in 1 .. Len(v.of) + 1 - Width(v.k)
    BY <2>1 DEF Positions
  <2>4. CASE v.k = "map"
    BY <2>2, <2>3, <2>4 DEF Width
  <2>5. CASE v.k # "map"
    BY <2>2, <2>3, <2>5 DEF Width
  <2>. QED  BY <2>4, <2>5
<1>3. e \in Seq(Nat) /\ Len(e) = n
  <2>2. n \in Nat /\ Len(v.of) \in Nat
    BY <1>1
  <2>1. ASSUME NEW j \in Latest(v)
        PROVE  j \in Nat
    BY <1>4, <2>2
  <2>. QED  BY <1>2, <2>1, <2>2
<1>5. CASE v.k = "map"
  <2>. DEFINE f == [i \in 1 .. 2 * Len(e) |->
            IF i % 2 = 1 THEN v.of[e[(i + 1) \div 2]] ELSE v.of[e[i \div 2] + 1]]
  <2>1. ASSUME NEW i \in 1 .. 2 * Len(e)
        PROVE  f[i] \in S
    <3>1. CASE i % 2 = 1
      <4>1. (i + 1) \div 2 \in 1 .. n
        BY <1>3, <3>1, <1>1
      <4>2. e[(i + 1) \div 2] \in Latest(v)
        BY <4>1, <1>2
      <4>. QED  BY <4>2, <1>4, <1>1, <3>1
    <3>2. CASE i % 2 # 1
      <4>1. i \div 2 \in 1 .. n
        BY <1>3, <3>2, <1>1
      <4>2. e[i \div 2] \in Latest(v)
        BY <4>1, <1>2
      <4>. QED  BY <4>2, <1>4, <1>1, <3>2, <1>5
    <3>. QED  BY <3>1, <3>2
  <2>2. 2 * Len(e) \in Nat
    BY <1>3
  <2>3. f \in Seq(S)
    BY <2>1, <2>2
  <2>4. Entries(v, e) = f
    BY <1>5 DEF Entries
  <2>. QED  BY <2>3, <2>4, <1>3
<1>6. CASE v.k = "set"
  <2>1. \A i \in 1 .. Len(e) : v.of[e[i]] \in S
    BY <1>1, <1>2, <1>3, <1>4
  <2>2. Entries(v, e) = [i \in 1 .. Len(e) |-> v.of[e[i]]]
    BY <1>6 DEF Entries
  <2>. QED  BY SMTT(40), <2>1, <2>2, <1>3
<1>. QED  BY <1>5, <1>6

LEMMA EntriesAreValues ==
    ASSUME NEW v \in Value, v.k \in {"set", "map"}, NEW e \in Orders(v)
    PROVE  Entries(v, e) \in Seq(Value) /\ Len(e) \in Nat
<1>1. v.of \in Seq(Atoms)
  BY ContainerHolds DEF ContainerKinds
<1>2. \A j \in 1 .. Len(v.of) : v.of[j] \in Value
  BY <1>1, ElementIn, AtomsAreValues
<1>. QED  BY <1>2, EntriesFrom

-----------------------------------------------------------------------------
(* Steps within a frame *)

\* Put keeps the first n cells and appends.
LEMMA PutIs ==
    ASSUME stk \in Seq(Value), NEW n \in 0 .. sp, NEW vs \in Seq(Value)
    PROVE  /\ Put(n, vs) \in Seq(Value)
           /\ Len(Put(n, vs)) = n + Len(vs)
           /\ \A p \in 1 .. n : Put(n, vs)[p] = stk[p]
<1>. DEFINE m == n + Len(vs)
<1>1. m \in Nat /\ n \in Nat /\ sp \in Nat
  BY DEF sp
<1>2. ASSUME NEW i \in 1 .. m
      PROVE  (IF i <= n THEN stk[i] ELSE vs[i - n]) \in Value
  <2>1. CASE i <= n
    BY <1>1, <2>1 DEF sp
  <2>2. CASE ~ (i <= n)
    <3>1. i - n \in 1 .. Len(vs)
      BY <1>1, <2>2
    <3>. QED  BY <3>1, <2>2
  <2>. QED  BY <2>1, <2>2
<1>3. Put(n, vs) \in [1 .. m -> Value]
  BY <1>2 DEF Put
<1>4. Put(n, vs) \in Seq(Value) /\ Len(Put(n, vs)) = m
  BY <1>1, <1>3, SMTT(30)
<1>5. ASSUME NEW p \in 1 .. n
      PROVE  Put(n, vs)[p] = stk[p]
  BY <1>1 DEF Put
<1>. QED  BY <1>4, <1>5

\* While the frame infos, the frame base and the buffers stay, so do the
\* conjuncts that speak of them alone.
LEMMA FramesStay ==
    ASSUME Nested, BuffersMatch, UNCHANGED <<fp, frames, jb>>
    PROVE  Nested' /\ BuffersMatch' /\ Own' = Own
<1>1. Depth' = Depth /\ arg_list' = arg_list
  BY DEF Depth, arg_list
<1>2. \A d : FpOf(d)' = FpOf(d)
  BY <1>1 DEF FpOf
<1>3. Nested'
  BY <1>1, <1>2 DEF Nested
<1>4. BuffersMatch'
  BY <1>1, <1>2 DEF BuffersMatch
<1>. QED  BY <1>1, <1>3, <1>4 DEF Own

\* The callee of the current call lies below its frame base.
LEMMA OwnBelowFp ==
    ASSUME FramesNested
    PROVE  Own \in Nat /\ Own <= fp /\ fp \in Nat /\ sp \in Nat /\ Depth \in Nat
<1>. USE DEF FramesNested, TypeOK
<1>1. sp \in Nat /\ fp \in Nat /\ fp >= 1 /\ Depth \in Nat
  BY DEF sp, Depth
<1>2. CASE Depth = 0
  BY <1>1, <1>2 DEF Own
<1>3. CASE Depth # 0
  <2>1. Depth \in 1 .. Depth /\ FpOf(Depth) = fp
    BY <1>1, <1>3 DEF FpOf
  <2>2. arg_list <= fp
    BY <2>1 DEF Nested, arg_list
  <2>3. frames[Depth] \in [argl : 2 .. StackSize + 1, pfp : 1 .. StackSize, noret : BOOLEAN]
    BY <2>1, ElementIn DEF Depth
  <2>4. arg_list \in Nat /\ arg_list >= 2
    BY <2>3, StackAssumption DEF arg_list
  <2>. QED  BY <1>1, <1>3, <2>2, <2>4 DEF Own
<1>. QED  BY <1>1, <1>2, <1>3

\* A step within the frame that cuts no more than the values of the current
\* call and pushes values keeps the invariant and the outer calls.
LEMMA InFrameStep ==
    ASSUME FramesNested, InFrame,
           NEW n, n \in fp - 1 .. sp,
           NEW vs \in Seq(Value),
           n + Len(vs) <= StackSize,
           stk' = Put(n, vs),
           globals' \in [Names -> Value \cup {None}],
           ret' \in Int
    PROVE  FramesNested' /\ Kept
<1>1. stk \in Seq(Value) /\ sp \in Nat /\ fp \in Nat /\ fp >= 1 /\ Own <= fp /\ Own \in Nat
  BY OwnBelowFp DEF FramesNested, TypeOK
<1>2. n \in 0 .. sp
  BY <1>1
<1>3. /\ stk' \in Seq(Value)
      /\ sp' = n + Len(vs)
      /\ \A p \in 1 .. n : stk'[p] = stk[p]
  BY <1>1, <1>2, PutIs DEF sp
<1>4. Len(vs) \in Nat
  OBVIOUS
<1>5. Nested' /\ BuffersMatch' /\ Own' = Own
  BY FramesStay DEF FramesNested, InFrame
<1>6. TypeOK'
  <2>1. sp' <= StackSize /\ fp' \in 1 .. sp' + 1
    BY <1>1, <1>2, <1>3, <1>4 DEF InFrame
  <2>2. frames' = frames /\ jb' = jb /\ Depth' = Depth /\ up' = up
    BY DEF InFrame, Depth
  <2>. QED  BY <1>3, <2>1, <2>2 DEF FramesNested, TypeOK
<1>7. Kept
  <2>. SUFFICES ASSUME NEW p \in 1 .. sp, p < Own
                PROVE  p <= sp' /\ stk'[p] = stk[p]
    BY DEF Kept
  <2>1. p \in 1 .. n
    BY <1>1, <1>2
  <2>. QED  BY <2>1, <1>2, <1>3, <1>4
<1>. QED  BY <1>5, <1>6, <1>7 DEF FramesNested

\* A call that only reports something changes nothing.
LEMMA FailsStep ==
    ASSUME FramesNested, NEW r \in Int, Fails(r)
    PROVE  FramesNested' /\ Kept
<1>1. Nested' /\ BuffersMatch'
  BY FramesStay DEF FramesNested, Fails, InFrame
<1>2. TypeOK'
  BY DEF FramesNested, TypeOK, Fails, InFrame, Returns, sp, Depth
<1>3. Kept
  BY DEF Kept, Fails, sp
<1>. QED  BY <1>1, <1>2, <1>3 DEF FramesNested

\* A call that pushes values.
LEMMA PushStep ==
    ASSUME FramesNested, NEW vs \in Seq(Value), NEW r \in Int, PushAll(vs, r)
    PROVE  FramesNested' /\ Kept
<1>1. sp \in fp - 1 .. sp /\ sp + Len(vs) <= StackSize
  BY SMTT(40), OwnBelowFp DEF FramesNested, TypeOK, PushAll, Room
<1>2. globals' \in [Names -> Value \cup {None}] /\ ret' \in Int
  BY DEF PushAll, FramesNested, TypeOK, Returns
<1>3. InFrame /\ stk' = Put(sp, vs)
  BY DEF PushAll
<1>. QED  BY <1>1, <1>2, <1>3, InFrameStep

\* A call that pushes one value.
LEMMA PushOneStep ==
    ASSUME FramesNested, NEW v \in Value, NEW r \in Int, PushAll(<<v>>, r)
    PROVE  FramesNested' /\ Kept
<1>1. <<v>> \in Seq(Value)
  OBVIOUS
<1>. QED  BY <1>1, PushStep

-----------------------------------------------------------------------------
(* Reading the stack *)

\* The arguments of the current call lie between its callee and its frame base.
LEMMA ArgList ==
    ASSUME FramesNested, Depth > 0
    PROVE  arg_list \in 2 .. fp
<1>1. Depth \in 1 .. Depth /\ FpOf(Depth) = fp
  BY OwnBelowFp DEF FpOf
<1>2. arg_list <= fp
  BY <1>1 DEF FramesNested, Nested, arg_list
<1>3. frames[Depth] \in [argl : 2 .. StackSize + 1, pfp : 1 .. StackSize, noret : BOOLEAN]
  BY <1>1, ElementIn DEF Depth, FramesNested, TypeOK
<1>4. arg_list \in Nat /\ arg_list >= 2
  BY <1>3, StackAssumption DEF arg_list
<1>. QED  BY <1>2, <1>4, OwnBelowFp

\* An index in range names a cell of the stack.
LEMMA CellInStack ==
    ASSUME FramesNested, NEW i \in Int, i # 0, i < 0 => Depth > 0, InRange(i)
    PROVE  Cell(i) \in 1 .. sp /\ stk[Cell(i)] \in Value
<1>1. sp \in Nat /\ fp \in 1 .. sp + 1 /\ stk \in Seq(Value)
  BY OwnBelowFp DEF FramesNested, TypeOK
<1>2. CASE i < 0
  BY <1>1, <1>2, ArgList, ElementIn DEF InRange, Cell, sp
<1>3. CASE i > 0
  BY <1>1, <1>3, ElementIn DEF InRange, Cell, sp
<1>. QED  BY <1>2, <1>3

\* _get_local() finds a value, or nothing.
LEMMA GetLocal ==
    ASSUME FramesNested, NEW i \in Int, MayGet(i)
    PROVE  _get_local(i) \in Value \cup {None}
<1>1. CASE i = 0
  BY <1>1, OwnBelowFp, ElementIn DEF MayGet, _get_local, FramesNested, TypeOK, sp
<1>2. CASE i # 0 /\ InRange(i)
  BY <1>2, CellInStack DEF MayGet, _get_local
<1>3. CASE i # 0 /\ ~ InRange(i)
  BY <1>3 DEF _get_local
<1>. QED  BY <1>1, <1>2, <1>3

\* A module variable holds a value, or nothing.
LEMMA GlobalIn ==
    ASSUME FramesNested, NEW n \in Names
    PROVE  globals[n] \in Value \cup {None} /\ Base[n] \in Value \cup {None}
BY ValuesAssumption DEF FramesNested, TypeOK

\* There is a top when the call has a value.
LEMMA TopIn ==
    ASSUME FramesNested, HasValue
    PROVE  sp \in 1 .. sp /\ stk[sp] \in Value /\ sp - 1 \in fp - 1 .. sp
<1>1. sp \in Nat /\ fp \in 1 .. sp + 1 /\ stk \in Seq(Value)
  BY OwnBelowFp DEF FramesNested, TypeOK
<1>2. sp \in 1 .. sp /\ sp - 1 \in fp - 1 .. sp
  BY <1>1 DEF HasValue
<1>. QED  BY <1>1, <1>2, ElementIn DEF sp

\* The indices and counts of the client are numbers.
LEMMA ClientNumbers ==
    /\ Index \subseteq Int
    /\ Count \subseteq Nat
    /\ \A m \in 0 .. MaxElems : m \in Nat
    /\ -1 .. MaxCount \subseteq Int
    /\ {ErrFail, ErrArg, ErrIndex, ErrType, StrLen, 0} \subseteq Int
BY BoundsAssumption DEF Index, Count, ErrFail, ErrArg, ErrIndex, ErrType, StrLen

-----------------------------------------------------------------------------
(* The actions *)

\* owiz_make_xxx, whose count is cut down to the values of the call.
LEMMA MakeStep ==
    ASSUME FramesNested, NEW k \in Made, NEW count \in Nat, Make(k, count)
    PROVE  FramesNested' /\ Kept
<1>. DEFINE first == sp - count * Width(k) + 1
            data == IF first < fp THEN fp ELSE first
            n == IF first < fp THEN (sp - data + 1) \div Width(k) ELSE count
            of == [i \in 1 .. n * Width(k) |-> stk[data + i - 1]]
            v == Container(k, of)
<1>1. sp \in Nat /\ fp \in 1 .. sp + 1
  BY OwnBelowFp DEF FramesNested, TypeOK
<1>2. k \in ContainerKinds
  BY ValuesAssumption
<1>3. n * Width(k) \in Nat /\ data \in fp .. sp + 1
  BY <1>1 DEF Width
<1>4. /\ \A i \in DOMAIN of : of[i] \in Elems
      /\ data <= StackSize
      /\ stk' = Put(data - 1, <<v>>)
      /\ ret' = ret /\ InFrame /\ globals' = globals
  BY DEF Make, Returns
<1>5. of \in Seq(Atoms)
  <2>. DEFINE m == n * Width(k)
  <2>1. \A i \in 1 .. m : of[i] \in Atoms
    BY <1>4, ValuesAssumption
  <2>. HIDE DEF n
  <2>. QED  BY <2>1, <1>3
<1>6. v \in Value
  BY <1>2, <1>5 DEF Container, Value
<1>7. <<v>> \in Seq(Value) /\ Len(<<v>>) = 1
  BY <1>6
<1>8. data - 1 \in fp - 1 .. sp /\ data - 1 + 1 <= StackSize
  BY <1>1, <1>3, <1>4, StackAssumption
<1>9. globals' \in [Names -> Value \cup {None}] /\ ret' \in Int
  BY <1>4 DEF FramesNested, TypeOK
<1>. HIDE DEF data, v
<1>. QED  BY <1>4, <1>7, <1>8, <1>9, InFrameStep

\* The functions that push.
LEMMA PushesStep ==
    ASSUME FramesNested, ClientPushes
    PROVE  FramesNested' /\ Kept
<1>0. ret \in Int /\ globals \in [Names -> Value \cup {None}] /\ fp \in 1 .. sp + 1
      /\ sp \in Nat /\ sp <= StackSize /\ stk \in Seq(Value)
  BY OwnBelowFp DEF FramesNested, TypeOK
<1>1. CASE \E v \in Pushable : Push(v)
  BY <1>0, <1>1, PushOneStep, AtomsAreValues, ValuesAssumption DEF Push
<1>2. CASE \E k \in Made, n \in 0 .. MaxElems : Make(k, n)
  BY <1>2, MakeStep, ClientNumbers
<1>3. CASE MakeException
  BY <1>3, PushOneStep, AtomsAreValues DEF MakeException
<1>4. CASE \E incr, ok \in BOOLEAN : MakeModule(incr, ok)
  <2>. PICK incr \in BOOLEAN, ok \in BOOLEAN : MakeModule(incr, ok)
    BY <1>4
  <2>. DEFINE v == IF ok THEN Mod ELSE Exc
              n == IF incr THEN sp - 1 ELSE sp
  <2>1. v \in Value
    BY AtomsAreValues
  <2>2. <<v>> \in Seq(Value) /\ Len(<<v>>) = 1
    BY <2>1
  <2>3. stk' = Put(n, <<v>>) /\ InFrame /\ globals' = globals /\ ret' \in Int
    BY ClientNumbers DEF MakeModule, Returns
  <2>4. n \in fp - 1 .. sp /\ n + 1 <= StackSize
    BY <1>0 DEF MakeModule, HasValue, Room
  <2>. HIDE DEF n, v
  <2>. QED  BY <1>0, <2>2, <2>3, <2>4, InFrameStep
<1>5. CASE \E n \in Count : Dup(n)
  <2>. PICK n \in Count : Dup(n)
    BY <1>5
  <2>1. n \in Nat /\ stk[sp] \in Value
    BY ClientNumbers, TopIn DEF Dup
  <2>2. [i \in 1 .. n |-> stk[sp]] \in Seq(Value)
    BY <2>1
  <2>. QED  BY <1>0, <2>2, PushStep DEF Dup
<1>6. CASE Swap
  <2>1. sp > fp /\ stk' = Put(sp - 2, <<stk[sp], stk[sp - 1]>>) /\ ret' = ret
        /\ InFrame /\ globals' = globals
    BY <1>6 DEF Swap, Returns
  <2>2. stk[sp] \in Value /\ stk[sp - 1] \in Value
    BY <1>0, <2>1, ElementIn DEF sp
  <2>3. <<stk[sp], stk[sp - 1]>> \in Seq(Value) /\ Len(<<stk[sp], stk[sp - 1]>>) = 2
    BY <2>2
  <2>4. sp - 2 \in fp - 1 .. sp /\ sp - 2 + 2 <= StackSize
    BY <1>0, <2>1
  <2>. QED  BY <1>0, <2>1, <2>3, <2>4, InFrameStep
<1>7. CASE \E i \in Index : LoadLocal(i)
  BY <1>7, CellInStack, PushOneStep, FailsStep, ClientNumbers DEF LoadLocal
<1>8. CASE \E n \in Names : LoadGlobal(n)
  BY <1>8, GlobalIn, PushOneStep, FailsStep, ClientNumbers DEF LoadGlobal
<1>9. CASE \E i \in Index : LoadAttribute(i)
  BY <1>9, GlobalIn, PushOneStep, FailsStep, ClientNumbers DEF LoadAttribute
<1>. QED
  BY <1>1, <1>2, <1>3, <1>4, <1>5, <1>6, <1>7, <1>8, <1>9 DEF ClientPushes

\* What a container at index i holds is pushed, or nothing is.
LEMMA ReadsStep ==
    ASSUME FramesNested, ClientReads
    PROVE  FramesNested' /\ Kept
<1>0. \A i \in Index : MayGet(i) => _get_local(i) \in Value \cup {None}
  BY GetLocal, ClientNumbers
<1>1. CASE ReadScalar
  <2>1. \A i, k : Statuses(i, k) \subseteq Int
    BY ClientNumbers DEF Statuses
  <2>. QED  BY <1>1, <2>1, FailsStep DEF ReadScalar
<1>2. CASE \E i \in Index, k \in {"array", "tuple"} : ReadElems(i, k)
  <2>. PICK i \in Index, k \in {"array", "tuple"} : ReadElems(i, k)
    BY <1>2
  <2>. DEFINE v == _get_local(i)
  <2>1. CASE v = None \/ v.k # k
    BY <2>1, FailsStep, ClientNumbers DEF ReadElems
  <2>2. CASE v # None /\ v.k = k
    <3>1. v \in Value /\ v.k \in ContainerKinds
      BY <1>0, <2>2 DEF ReadElems, ContainerKinds
    <3>2. v.of \in Seq(Atoms) /\ v.of \in Seq(Value) /\ Len(v.of) \in Int
      BY <3>1, ContainerHolds, AtomsAreValues
    <3>3. PICK e \in -1 .. MaxCount :
             \/ e \in 1 .. Len(v.of) /\ PushAll(<<v.of[e]>>, 0)
             \/ e = 0 /\ Fails(Len(v.of))
             \/ e = -1 /\ PushAll(v.of, Len(v.of))
             \/ e > Len(v.of) /\ Fails(ErrFail)
      BY <2>2 DEF ReadElems
    <3>4. e \in 1 .. Len(v.of) => v.of[e] \in Value
      BY <3>2, ElementIn
    <3>. HIDE DEF v
    <3>. QED  BY <3>2, <3>3, <3>4, PushOneStep, PushStep, FailsStep, ClientNumbers
  <2>. QED  BY <2>1, <2>2
<1>3. CASE \E i \in Index : ReadSet(i)
  <2>. PICK i \in Index : ReadSet(i)
    BY <1>3
  <2>. DEFINE v == _get_local(i)
  <2>1. CASE v = None \/ v.k # "set"
    BY <2>1, FailsStep, ClientNumbers DEF ReadSet
  <2>2. CASE v # None /\ v.k = "set"
    <3>1. v \in Value /\ v.k \in {"set", "map"}
      BY <1>0, <2>2 DEF ReadSet
    <3>2. PICK e \in Orders(v) :
             Fails(Len(e)) \/ PushAll(Entries(v, e), Len(e)) \/ Fails(ErrArg)
      BY <2>2 DEF ReadSet
    <3>3. Entries(v, e) \in Seq(Value) /\ Len(e) \in Int
      BY <3>1, EntriesAreValues
    <3>. HIDE DEF v
    <3>. QED  BY <3>2, <3>3, PushStep, FailsStep, ClientNumbers
  <2>. QED  BY <2>1, <2>2
<1>4. CASE \E i \in Index : ReadMap(i)
  <2>. PICK i \in Index : ReadMap(i)
    BY <1>4
  <2>. DEFINE v == _get_local(i)
  <2>1. CASE v = None \/ v.k # "map"
    BY <2>1, FailsStep, ClientNumbers DEF ReadMap
  <2>2. CASE v # None /\ v.k = "map"
    <3>1. v \in Value /\ v.k \in {"set", "map"} /\ v.of \in Seq(Atoms)
      BY <1>0, <2>2, ContainerHolds DEF ReadMap, ContainerKinds
    <3>2. \/ \E p \in Latest(v) : PushAll(<<v.of[p + 1]>>, 0)
          \/ Fails(ErrFail)
          \/ \E e \in Orders(v) : Fails(Len(e)) \/ PushAll(Entries(v, e), Len(e))
      BY <2>2 DEF ReadMap
    <3>3. ASSUME NEW p \in Latest(v)
          PROVE  v.of[p + 1] \in Value
      <4>1. p + 1 \in 1 .. Len(v.of)
        BY <2>2, <3>1 DEF Latest, Positions, Width
      <4>. QED  BY <4>1, <3>1, ElementIn, AtomsAreValues
    <3>4. \A e \in Orders(v) : Entries(v, e) \in Seq(Value) /\ Len(e) \in Int
      BY <3>1, EntriesAreValues
    <3>. HIDE DEF v
    <3>. QED  BY <3>2, <3>3, <3>4, PushOneStep, PushStep, FailsStep, ClientNumbers
  <2>. QED  BY <2>1, <2>2
<1>5. CASE \E i \in Index : ReadException(i)
  BY <1>5, AtomsAreValues, PushOneStep, FailsStep, ClientNumbers DEF ReadException
<1>6. CASE \E fmt \in Formats, ignil, mkexc \in BOOLEAN : ReadArgs(fmt, ignil, mkexc)
  <2>. PICK fmt \in Formats, ignil \in BOOLEAN, mkexc \in BOOLEAN :
              ReadArgs(fmt, ignil, mkexc)
    BY <1>6
  <2>1. PICK st \in [DOMAIN fmt -> {0, StrLen, ErrFail, ErrArg, ErrIndex, ErrType}] :
          \/ Fails(0)
          \/ \E j \in DOMAIN fmt :
                \/ PushAll(<<Exc>>, ErrFail)
                \/ up' = FALSE /\ UNCHANGED <<stk, fp, frames, jb, globals, ret>>
                \/ Fails(st[j])
    BY DEF ReadArgs, Stops
  <2>2. \A j \in DOMAIN fmt : st[j] \in Int
    BY ClientNumbers
  <2>3. CASE up' = FALSE /\ UNCHANGED <<stk, fp, frames, jb, globals, ret>>
    <3>1. Nested' /\ BuffersMatch'
      BY <2>3, FramesStay DEF FramesNested
    <3>2. TypeOK'
      BY <2>3 DEF FramesNested, TypeOK, sp, Depth
    <3>. QED  BY <2>3, <3>1, <3>2 DEF FramesNested, Kept, sp
  <2>. QED  BY <2>1, <2>2, <2>3, AtomsAreValues, PushOneStep, FailsStep, ClientNumbers
<1>7. CASE ReadArgc
  <2>1. fp - 1 - arg_list \in Int
    BY <1>7, ArgList, OwnBelowFp DEF ReadArgc
  <2>. QED  BY <1>7, <2>1, FailsStep DEF ReadArgc
<1>. QED
  BY <1>1, <1>2, <1>3, <1>4, <1>5, <1>6, <1>7 DEF ClientReads

\* The top is popped into a cell of the current call.
LEMMA PopToStep ==
    ASSUME FramesNested, HasValue, NEW p \in Int, p >= Own,
           stk' = PopTo(p), InFrame, globals' = globals, ret' = 0
    PROVE  FramesNested' /\ Kept
<1>1. sp \in Nat /\ fp \in 1 .. sp + 1 /\ sp <= StackSize /\ stk \in Seq(Value)
      /\ Own \in Nat /\ Own <= fp /\ sp >= fp
  BY OwnBelowFp DEF FramesNested, TypeOK, HasValue
<1>2. sp - 1 \in Nat
  BY <1>1
<1>3. \A i \in 1 .. sp - 1 : stk[i] \in Value /\ stk[sp] \in Value
  BY <1>1, ElementIn DEF sp
<1>4. stk' \in [1 .. sp - 1 -> Value]
  BY <1>3 DEF PopTo
<1>5. stk' \in Seq(Value) /\ sp' = sp - 1
  BY <1>2, <1>4 DEF sp
<1>6. Nested' /\ BuffersMatch' /\ Own' = Own
  BY FramesStay DEF FramesNested, InFrame
<1>7. TypeOK'
  <2>1. sp' <= StackSize /\ fp' \in 1 .. sp' + 1
    BY <1>1, <1>5, StackAssumption DEF InFrame
  <2>2. frames' = frames /\ jb' = jb /\ Depth' = Depth /\ up' = up
    BY DEF InFrame, Depth
  <2>. QED  BY <1>5, <2>1, <2>2 DEF FramesNested, TypeOK
<1>8. Kept
  <2>. SUFFICES ASSUME NEW q \in 1 .. sp, q < Own
                PROVE  q <= sp' /\ stk'[q] = stk[q]
    BY DEF Kept
  <2>1. q \in 1 .. sp - 1 /\ q # p
    BY <1>1
  <2>. QED  BY <2>1, <1>2, <1>5 DEF PopTo
<1>. QED  BY <1>6, <1>7, <1>8 DEF FramesNested

\* The top is popped, and perhaps a variable assigned.
LEMMA PopStep ==
    ASSUME FramesNested, HasValue, stk' = Put(sp - 1, <<>>), InFrame,
           globals' \in [Names -> Value \cup {None}], ret' \in Int
    PROVE  FramesNested' /\ Kept
<1>1. <<>> \in Seq(Value) /\ Len(<<>>) = 0
  OBVIOUS
<1>2. sp - 1 \in fp - 1 .. sp /\ sp - 1 + 0 <= StackSize
  BY SMTT(40), TopIn, OwnBelowFp, StackAssumption DEF FramesNested, TypeOK
<1>. QED  BY <1>1, <1>2, InFrameStep

\* The functions that pop.
LEMMA StoresStep ==
    ASSUME FramesNested, ClientStores
    PROVE  FramesNested' /\ Kept
<1>0. ret \in Int /\ globals \in [Names -> Value \cup {None}] /\ fp \in 1 .. sp + 1
      /\ sp \in Nat /\ sp <= StackSize /\ stk \in Seq(Value)
      /\ Own \in Nat /\ Own <= fp
  BY OwnBelowFp DEF FramesNested, TypeOK
<1>1. CASE \E i \in Index : StoreLocal(i)
  <2>. PICK i \in Index : StoreLocal(i)
    BY <1>1
  <2>. DEFINE p == IF i < 0 THEN arg_list + (-i) ELSE Cell(i)
  <2>1. CASE Fails(ErrIndex)
    BY <2>1, FailsStep, ClientNumbers
  <2>2. CASE ~ Fails(ErrIndex)
    <3>1. /\ HasValue /\ i # 0 /\ (i < 0 => Depth > 0)
          /\ stk' = PopTo(p) /\ InFrame /\ globals' = globals /\ ret' = 0
      BY <2>2 DEF StoreLocal, Returns
    <3>2. CASE i < 0
      <4>1. Depth # 0 /\ arg_list \in Nat
        BY <3>1, <3>2, ArgList, OwnBelowFp
      <4>2. p \in Int /\ p >= Own
        BY <4>1, <3>2, ClientNumbers DEF Own
      <4>. QED  BY <3>1, <4>2, PopToStep
    <3>3. CASE i > 0
      <4>1. p \in Int /\ p >= Own
        BY <1>0, <3>3, ClientNumbers DEF Cell
      <4>. QED  BY <3>1, <4>1, PopToStep
    <3>. QED  BY <3>1, <3>2, <3>3, ClientNumbers
  <2>. QED  BY <2>1, <2>2
<1>2. CASE \E n \in Names : StoreGlobal(n)
  <2>1. \A n \in Names : HasValue => [globals EXCEPT ![n] = stk[sp]] \in [Names -> Value \cup {None}]
    BY <1>0, TopIn
  <2>. QED  BY <1>2, <2>1, PopStep, ClientNumbers DEF StoreGlobal, Returns
<1>3. CASE \E i \in Index : StoreAttribute(i)
  <2>1. \A n \in Names : HasValue => [globals EXCEPT ![n] = stk[sp]] \in [Names -> Value \cup {None}]
    BY <1>0, TopIn
  <2>. QED  BY <1>0, <1>3, <2>1, PopStep, FailsStep, ClientNumbers DEF StoreAttribute, Returns
<1>4. CASE \E n \in -1 .. MaxCount : Drop(n)
  <2>. PICK count \in -1 .. MaxCount : Drop(count)
    BY <1>4
  <2>. DEFINE new == IF count < 0 \/ sp - count < fp - 1 THEN fp - 1 ELSE sp - count
  <2>1. stk' = Put(new, <<>>) /\ ret' = new - (fp - 1) /\ InFrame /\ globals' = globals
    BY DEF Drop, Returns
  <2>2. count \in Int
    BY ClientNumbers
  <2>3. new \in fp - 1 .. sp /\ new + 0 <= StackSize /\ new - (fp - 1) \in Int
    BY <1>0, <2>2, StackAssumption
  <2>4. <<>> \in Seq(Value) /\ Len(<<>>) = 0
    OBVIOUS
  <2>. HIDE DEF new
  <2>. QED  BY <1>0, <2>1, <2>3, <2>4, InFrameStep
<1>. QED
  BY <1>1, <1>2, <1>3, <1>4 DEF ClientStores

\* A call: the callee and its arguments are values of the caller, so that the
\* new frame lies within the caller's.
LEMMA CallStep ==
    ASSUME FramesNested, NEW s \in Seq(Value), NEW p \in Nat, NEW noret \in BOOLEAN,
           fp <= p, p <= Len(s), p <= sp + 1, Len(s) <= StackSize,
           \A q \in 1 .. p - 1 : s[q] = stk[q],
           Call(s, p, noret), globals' = globals
    PROVE  FramesNested' /\ Kept
<1>0. sp \in Nat /\ fp \in 1 .. sp + 1 /\ sp <= StackSize /\ stk \in Seq(Value)
      /\ Own \in Nat /\ Own <= fp /\ Depth \in Nat /\ Len(s) \in Nat /\ ret \in Int
  BY OwnBelowFp DEF FramesNested, TypeOK
<1>1. CASE s[p] # Func(Len(s) - p)
  <2>1. stk' = Put(p - 1, <<Exc>>) /\ ret' = ErrFail /\ InFrame
    BY <1>1 DEF Call, Returns
  <2>2. <<Exc>> \in Seq(Value) /\ Len(<<Exc>>) = 1
    BY AtomsAreValues
  <2>3. p - 1 \in fp - 1 .. sp /\ p - 1 + 1 <= StackSize
    BY <1>0, StackAssumption
  <2>4. globals' \in [Names -> Value \cup {None}] /\ ret' \in Int
    BY <2>1, ClientNumbers DEF FramesNested, TypeOK
  <2>. QED  BY <2>1, <2>2, <2>3, <2>4, InFrameStep
<1>2. CASE s[p] = Func(Len(s) - p)
  <2>. DEFINE f == [argl |-> p + 1, pfp |-> fp, noret |-> noret]
              F == [argl : 2 .. StackSize + 1, pfp : 1 .. StackSize, noret : BOOLEAN]
              J == [sp : 0 .. StackSize, fp : 0 .. StackSize + 1, fi : Nat]
  <2>1. /\ stk' = s /\ fp' = Len(s) + 1 /\ frames' = Append(frames, f)
        /\ jb' = Append(jb, NoJmp) /\ ret' = ret /\ up' = up
    BY <1>2 DEF Call
  <2>0. PICK D \in Nat : D = Depth
    BY <1>0
  <2>2. f \in F /\ NoJmp \in J
    BY <2>0, <1>0, StackAssumption DEF NoJmp
  <2>3. frames \in Seq(F) /\ jb \in Seq(J) /\ Len(jb) = D + 1 /\ Len(frames) = D
    BY <2>0 DEF FramesNested, TypeOK, Depth
  <2>. HIDE DEF F, J
  <2>4. /\ frames' \in Seq(F) /\ Len(frames') = D + 1
        /\ \A d \in 1 .. D : frames'[d] = frames[d]
        /\ frames'[D + 1] = f
    BY <2>0, <1>0, <2>1, <2>2, <2>3
  <2>5. /\ jb' \in Seq(J) /\ Len(jb') = D + 2
        /\ \A d \in 1 .. D + 1 : jb'[d] = jb[d]
        /\ jb'[D + 2] = NoJmp
    BY <2>0, <1>0, <2>1, <2>2, <2>3
  <2>6. Depth' = D + 1 /\ sp' = Len(s)
    BY <2>0, <2>1, <2>4 DEF Depth, sp
  <2>7. /\ \A d \in 0 .. D : FpOf(d)' = FpOf(d)
        /\ FpOf(D + 1)' = Len(s) + 1
    <3>1. FpOf(D + 1)' = Len(s) + 1
      BY <2>1, <2>6 DEF FpOf
    <3>2. FpOf(D)' = FpOf(D)
      BY <2>0, <1>0, <2>4, <2>6 DEF FpOf
    <3>3. ASSUME NEW d \in 0 .. D, d # D
          PROVE  FpOf(d)' = FpOf(d)
      <4>1. d + 1 \in 1 .. D /\ d # D + 1
        BY <2>0, <1>0, <3>3
      <4>. QED  BY <2>0, <2>4, <2>6, <3>3, <4>1 DEF FpOf
    <3>. QED  BY <3>1, <3>2, <3>3
  <2>8. Nested'
    <3>1. FpOf(0)' = 1
      BY <2>0, <1>0, <2>7 DEF FramesNested, Nested
    <3>2. ASSUME NEW d \in 1 .. D + 1
          PROVE  FpOf(d - 1)' < frames'[d].argl /\ frames'[d].argl <= FpOf(d)'
      <4>1. CASE d = D + 1
        <5>1. FpOf(d - 1)' = fp /\ FpOf(d)' = Len(s) + 1 /\ frames'[d].argl = p + 1
          BY <2>0, <1>0, <4>1, <2>4, <2>7 DEF FpOf
        <5>. QED  BY <5>1, <1>0
      <4>2. CASE d # D + 1
        <5>1. d \in 1 .. D /\ d - 1 \in 0 .. D /\ d \in 0 .. D
          BY <2>0, <1>0, <4>2
        <5>. QED  BY <2>0, <5>1, <2>4, <2>7 DEF FramesNested, Nested
      <4>. QED  BY <4>1, <4>2
    <3>. QED  BY <3>1, <3>2, <2>6 DEF Nested
  <2>9. BuffersMatch'
    <3>1. ASSUME NEW d \in 0 .. D + 1
          PROVE  \/ jb'[d + 1] = NoJmp
                 \/ /\ jb'[d + 1].fi = d
                    /\ jb'[d + 1].fp = FpOf(d)'
                    /\ jb'[d + 1].sp >= FpOf(d)' - 1
      <4>1. CASE d = D + 1
        BY <4>1, <2>5, <2>0, <1>0
      <4>2. CASE d # D + 1
        <5>1. d \in 0 .. D /\ d + 1 \in 1 .. D + 1
          BY <2>0, <1>0, <4>2
        <5>. QED  BY <2>0, <5>1, <2>5, <2>7 DEF FramesNested, BuffersMatch
      <4>. QED  BY <4>1, <4>2
    <3>. QED  BY <3>1, <2>6 DEF BuffersMatch, NoJmp
  <2>10. TypeOK'
    <3>1. sp' <= StackSize /\ fp' \in 1 .. sp' + 1 /\ stk' \in Seq(Value)
      BY <1>0, <2>1, <2>6
    <3>2. Len(jb') = Depth' + 1
      BY <2>0, <2>5, <2>6
    <3>. QED  BY <2>1, <2>4, <2>5, <3>1, <3>2 DEF FramesNested, TypeOK, F, J
  <2>11. Kept
    <3>. SUFFICES ASSUME NEW q \in 1 .. sp, q < Own
                  PROVE  q <= sp' /\ stk'[q] = stk[q]
      BY DEF Kept
    <3>. QED  BY <1>0, <2>1, <2>6
  <2>. QED  BY <2>8, <2>9, <2>10, <2>11 DEF FramesNested
<1>. QED  BY <1>1, <1>2

\* Going back to the call at depth m with at least the values below its frame
\* base: the frame infos further in are left.
LEMMA UnwindStep ==
    ASSUME FramesNested, NEW m \in 0 .. Depth,
           NEW n, n \in 0 .. sp, NEW vs \in Seq(Value),
           FpOf(m) - 1 <= n, n + Len(vs) <= StackSize,
           stk' = Put(n, vs), fp' = FpOf(m),
           frames' = SubSeq(frames, 1, m), jb' = SubSeq(jb, 1, m + 1),
           globals' = globals, ret' \in Int, up' = up
    PROVE  FramesNested' /\ Kept
<1>. DEFINE F == [argl : 2 .. StackSize + 1, pfp : 1 .. StackSize, noret : BOOLEAN]
            J == [sp : 0 .. StackSize, fp : 0 .. StackSize + 1, fi : Nat]
<1>0. sp \in Nat /\ fp \in 1 .. sp + 1 /\ sp <= StackSize /\ stk \in Seq(Value)
      /\ Depth \in Nat /\ m \in Nat /\ n \in Nat /\ Len(vs) \in Nat
  BY OwnBelowFp DEF FramesNested, TypeOK
<1>1. frames \in Seq(F) /\ jb \in Seq(J) /\ Len(jb) = Depth + 1 /\ Len(frames) = Depth
  BY DEF FramesNested, TypeOK, Depth
<1>. HIDE DEF F, J
<1>2. /\ frames' \in Seq(F) /\ Len(frames') = m
      /\ \A d \in 1 .. m : frames'[d] = frames[d]
  BY <1>0, <1>1
<1>3. /\ jb' \in Seq(J) /\ Len(jb') = m + 1
      /\ \A d \in 1 .. m + 1 : jb'[d] = jb[d]
  BY <1>0, <1>1
<1>4. Depth' = m
  BY <1>2 DEF Depth
<1>5. /\ stk' \in Seq(Value) /\ sp' = n + Len(vs)
      /\ \A p \in 1 .. n : stk'[p] = stk[p]
  BY <1>0, PutIs DEF sp
<1>6. ASSUME NEW d \in 0 .. m
      PROVE  FpOf(d)' = FpOf(d)
  <2>1. CASE d = m
    BY <2>1, <1>4 DEF FpOf
  <2>2. CASE d # m
    <3>1. d + 1 \in 1 .. m /\ d # Depth
      BY <1>0, <2>2
    <3>. QED  BY <2>2, <3>1, <1>2, <1>4 DEF FpOf
  <2>. QED  BY <2>1, <2>2
<1>7. Nested'
  <2>1. FpOf(0)' = 1
    BY <1>0, <1>6 DEF FramesNested, Nested
  <2>2. ASSUME NEW d \in 1 .. m
        PROVE  FpOf(d - 1)' < frames'[d].argl /\ frames'[d].argl <= FpOf(d)'
    <3>1. d \in 1 .. Depth /\ d - 1 \in 0 .. m /\ d \in 0 .. m
      BY <1>0
    <3>. QED  BY <3>1, <1>2, <1>6 DEF FramesNested, Nested
  <2>. QED  BY <2>1, <2>2, <1>4 DEF Nested
<1>8. BuffersMatch'
  <2>1. ASSUME NEW d \in 0 .. m
        PROVE  \/ jb'[d + 1] = NoJmp
               \/ /\ jb'[d + 1].fi = d
                  /\ jb'[d + 1].fp = FpOf(d)'
                  /\ jb'[d + 1].sp >= FpOf(d)' - 1
    <3>1. d \in 0 .. Depth /\ d + 1 \in 1 .. m + 1
      BY <1>0
    <3>. QED  BY <3>1, <1>3, <1>6 DEF FramesNested, BuffersMatch
  <2>. QED  BY <2>1, <1>4 DEF BuffersMatch, NoJmp
<1>9. FpOf(m) \in Nat /\ FpOf(m) >= 1
  <2>1. CASE m = Depth
    BY <1>0, <2>1 DEF FpOf
  <2>2. CASE m # Depth
    <3>1. m + 1 \in 1 .. Len(frames)
      BY <1>0, <1>1, <2>2
    <3>2. frames[m + 1] \in F
      BY <1>1, <3>1, ElementIn
    <3>. QED  BY <2>2, <3>2, StackAssumption DEF FpOf, F
  <2>. QED  BY <2>1, <2>2
<1>10. TypeOK'
  <2>1. sp' <= StackSize /\ fp' \in 1 .. sp' + 1
    BY <1>0, <1>5, <1>9
  <2>2. Len(jb') = Depth' + 1
    BY <1>3, <1>4
  <2>. QED  BY <1>2, <1>3, <1>5, <2>1, <2>2 DEF FramesNested, TypeOK, F, J
<1>11. Kept
  <2>. SUFFICES ASSUME NEW q \in 1 .. sp, q < Own'
                PROVE  q <= sp' /\ stk'[q] = stk[q]
    BY DEF Kept
  <2>1. Own' \in Nat /\ Own' <= fp' /\ (Own' < fp' \/ Own' = 1)
    <3>1. CASE m = 0
      BY <1>0, <1>4, <1>9, <3>1 DEF Own
    <3>2. CASE m # 0
      <4>1. m \in 1 .. Depth' /\ Own' = frames'[m].argl - 1
        BY <1>0, <1>4, <3>2 DEF Own, arg_list
      <4>2. frames'[m] \in F
        BY <1>2, <1>4, <4>1, ElementIn
      <4>3. frames'[m].argl <= fp'
        BY <1>7, <4>1, <1>6, <1>0 DEF Nested
      <4>. QED  BY SMTT(40), <4>1, <4>2, <4>3, <1>9, StackAssumption DEF F
    <3>. QED  BY <3>1, <3>2
  <2>2. q \in 1 .. n
    BY <2>1, <1>0, <1>9
  <2>. QED  BY <2>2, <1>0, <1>5
<1>. QED  BY <1>7, <1>8, <1>10, <1>11 DEF FramesNested

\* A native function returns: its frame, its arguments and the callee go.
LEMMA ReturnStep ==
    ASSUME FramesNested, NEW status \in -1 .. 1, Return(status)
    PROVE  FramesNested' /\ Kept
<1>. DEFINE f == frames[Depth]
            v == IF status = 0 THEN Nil ELSE stk[sp]
            vs == IF status < 0 \/ ~ f.noret THEN <<v>> ELSE <<>>
<1>1. /\ Depth > 0 /\ fp' = f.pfp /\ stk' = Put(f.argl - 2, vs)
      /\ frames' = SubSeq(frames, 1, Depth - 1) /\ jb' = SubSeq(jb, 1, Depth)
      /\ ret' = (IF status < 0 THEN ErrFail ELSE 0)
      /\ globals' = globals /\ up' = up
  BY DEF Return, Returns
<1>2. sp \in Nat /\ fp \in 1 .. sp + 1 /\ sp <= StackSize /\ stk \in Seq(Value)
      /\ Depth \in Nat /\ f.argl \in 2 .. fp
  BY <1>1, OwnBelowFp, ArgList DEF FramesNested, TypeOK, arg_list
<1>3. PICK m \in Nat : m = Depth - 1
  BY <1>1, <1>2
<1>4. m \in 0 .. Depth /\ m + 1 = Depth
  BY <1>2, <1>3
<1>5. FpOf(m) = f.pfp
  BY <1>2, <1>3, <1>4 DEF FpOf
<1>6. FpOf(m) < f.argl
  BY <1>1, <1>2, <1>3, <1>4 DEF FramesNested, Nested
<1>7. FpOf(m) \in Int
  <2>1. f \in [argl : 2 .. StackSize + 1, pfp : 1 .. StackSize, noret : BOOLEAN]
    <3>1. Depth \in 1 .. Depth
      BY <1>1, <1>2
    <3>. QED  BY <3>1, ElementIn DEF Depth, FramesNested, TypeOK
  <2>. QED  BY <2>1, <1>5, StackAssumption
<1>8. vs \in Seq(Value) /\ Len(vs) <= 1 /\ Len(vs) \in Nat
  <2>1. sp \in 1 .. Len(stk)
    BY <1>2 DEF sp
  <2>2. v \in Value
    BY <2>1, <1>2, ElementIn, AtomsAreValues
  <2>. HIDE DEF v
  <2>. QED  BY <2>2
<1>. HIDE DEF f, v, vs
<1>9. PICK n \in Nat : n = f.argl - 2
  BY <1>2
<1>10. n \in 0 .. sp /\ FpOf(m) - 1 <= n /\ n + Len(vs) <= StackSize
  <2>1. f.argl \in Int /\ f.argl = n + 2 /\ f.argl <= fp /\ fp \in Int
    BY <1>2, <1>9
  <2>2. n \in 0 .. sp /\ n + 1 <= StackSize
    BY <1>2, <2>1, StackAssumption
  <2>3. FpOf(m) - 1 <= n
    BY <1>6, <1>7, <2>1
  <2>4. n + Len(vs) <= StackSize
    BY <1>8, <2>2, StackAssumption
  <2>. QED  BY <2>2, <2>3, <2>4
<1>11. ret' \in Int
  BY <1>1, ClientNumbers
<1>12. /\ frames' = SubSeq(frames, 1, m) /\ jb' = SubSeq(jb, 1, m + 1)
       /\ fp' = FpOf(m) /\ stk' = Put(n, vs)
  BY <1>1, <1>3, <1>4, <1>5, <1>9
<1>. QED  BY <1>1, <1>4, <1>8, <1>10, <1>11, <1>12, UnwindStep

\* owiz_setjmp() records the call that runs.
LEMMA SetjmpStep ==
    ASSUME FramesNested, Setjmp
    PROVE  FramesNested' /\ Kept
<1>. DEFINE J == [sp : 0 .. StackSize, fp : 0 .. StackSize + 1, fi : Nat]
            b == [sp |-> sp, fp |-> fp, fi |-> Depth]
<1>1. /\ jb' = [jb EXCEPT ![Depth + 1] = b]
      /\ stk' = stk /\ fp' = fp /\ frames' = frames
      /\ globals' = globals /\ ret' = ret /\ up' = up
  BY DEF Setjmp
<1>2. sp \in Nat /\ fp \in 1 .. sp + 1 /\ sp <= StackSize /\ Depth \in Nat
      /\ jb \in Seq(J) /\ Len(jb) = Depth + 1
  BY OwnBelowFp DEF FramesNested, TypeOK
<1>3. b \in J
  BY <1>2, StackAssumption
<1>4. Depth' = Depth /\ sp' = sp /\ Own' = Own
  BY <1>1 DEF Depth, sp, Own, arg_list
<1>5. ASSUME NEW d
      PROVE  FpOf(d)' = FpOf(d)
  BY <1>1, <1>4 DEF FpOf
<1>. HIDE DEF J
<1>6. jb' \in Seq(J) /\ Len(jb') = Depth + 1
  BY <1>1, <1>2, <1>3
<1>7. TypeOK'
  BY <1>1, <1>4, <1>6 DEF FramesNested, TypeOK, J
<1>8. Nested'
  BY <1>1, <1>4, <1>5 DEF FramesNested, Nested
<1>9. BuffersMatch'
  <2>1. ASSUME NEW d \in 0 .. Depth
        PROVE  \/ jb'[d + 1] = NoJmp
               \/ /\ jb'[d + 1].fi = d
                  /\ jb'[d + 1].fp = FpOf(d)
                  /\ jb'[d + 1].sp >= FpOf(d) - 1
    <3>1. CASE d = Depth
      <4>1. jb'[d + 1] = b
        BY <1>1, <1>2, <3>1
      <4>. QED  BY <1>2, <3>1, <4>1 DEF FpOf
    <3>2. CASE d # Depth
      <4>1. jb'[d + 1] = jb[d + 1]
        BY <1>1, <1>2, <3>2
      <4>. QED  BY <4>1 DEF FramesNested, BuffersMatch
    <3>. QED  BY <3>1, <3>2
  <2>. QED  BY <2>1, <1>4, <1>5 DEF BuffersMatch, NoJmp
<1>10. Kept
  BY <1>1, <1>4 DEF Kept
<1>. QED  BY <1>7, <1>8, <1>9, <1>10 DEF FramesNested

\* An accepted jump goes back to the call that saved the buffer.
LEMMA LongjmpStep ==
    ASSUME FramesNested, NEW d \in 0 .. Depth, Longjmp(d)
    PROVE  FramesNested' /\ Kept
<1>. DEFINE b == jb[d + 1]
<1>1. CASE ~ Accepts(b)
  BY <1>1, FailsStep, ClientNumbers DEF Longjmp
<1>2. CASE Accepts(b)
  <2>1. /\ stk' = Put(b.sp, <<>>) /\ fp' = b.fp
        /\ frames' = SubSeq(frames, 1, b.fi) /\ jb' = SubSeq(jb, 1, b.fi + 1)
        /\ ret' = 0 /\ globals' = globals /\ up' = up /\ b # NoJmp
    BY <1>2 DEF Longjmp, Returns
  <2>2. b.fi = d /\ b.fp = FpOf(d) /\ b.sp >= FpOf(d) - 1
    BY <2>1 DEF FramesNested, BuffersMatch
  <2>3. sp \in Nat /\ sp <= StackSize /\ Depth \in Nat /\ b.sp <= sp
        /\ Len(jb) = Depth + 1
    BY <1>2, OwnBelowFp DEF FramesNested, TypeOK, Accepts
  <2>4. b \in [sp : 0 .. StackSize, fp : 0 .. StackSize + 1, fi : Nat]
    <3>1. d + 1 \in 1 .. Len(jb)
      BY <2>3
    <3>. QED  BY <3>1, ElementIn DEF FramesNested, TypeOK
  <2>5. PICK n \in Nat : n = b.sp
    BY <2>4, StackAssumption
  <2>6. FpOf(d) \in Int
    BY <2>2, <2>4, StackAssumption
  <2>7. n \in 0 .. sp /\ FpOf(d) - 1 <= n /\ n + 0 <= StackSize
    BY <2>2, <2>3, <2>5, <2>6, StackAssumption
  <2>8. <<>> \in Seq(Value) /\ Len(<<>>) = 0 /\ ret' \in Int
    BY <2>1
  <2>9. /\ stk' = Put(n, <<>>) /\ fp' = FpOf(d)
        /\ frames' = SubSeq(frames, 1, d) /\ jb' = SubSeq(jb, 1, d + 1)
    BY <2>1, <2>2, <2>5
  <2>. HIDE DEF b
  <2>. QED  BY <2>1, <2>7, <2>8, <2>9, UnwindStep
<1>. QED  BY <1>1, <1>2

\* Invoking, returning and jumping keep the frames.
LEMMA ControlsStep ==
    ASSUME FramesNested, ClientControls
    PROVE  FramesNested' /\ Kept
<1>0. sp \in Nat /\ fp \in 1 .. sp + 1 /\ sp <= StackSize /\ stk \in Seq(Value)
      /\ Len(stk) = sp
  BY OwnBelowFp DEF FramesNested, TypeOK, sp
<1>1. ASSUME NEW argc \in Count, NEW noret \in BOOLEAN, Invoke(argc, noret)
      PROVE  FramesNested' /\ Kept
  <2>1. /\ sp - argc \in Nat /\ fp <= sp - argc /\ sp - argc <= Len(stk)
        /\ sp - argc <= sp + 1
    BY <1>0, <1>1, ClientNumbers DEF Invoke, MayInvoke
  <2>2. Call(stk, sp - argc, noret) /\ globals' = globals
    BY <1>1 DEF Invoke
  <2>. QED  BY <1>0, <2>1, <2>2, CallStep
<1>2. ASSUME NEW argc \in Count, NEW noret \in BOOLEAN, InvokeMethod(argc, noret)
      PROVE  FramesNested' /\ Kept
  <2>. DEFINE s == [stk EXCEPT ![sp - argc] = Exc]
  <2>1. /\ sp - argc \in Nat /\ fp <= sp - argc /\ sp - argc <= sp
        /\ sp - argc <= sp + 1
    BY <1>0, <1>2, ClientNumbers DEF InvokeMethod, MayInvoke
  <2>2. CASE stk[sp - argc] = Sym
    <3>1. Call(s, sp - argc, noret) /\ globals' = globals
      BY <1>2, <2>2 DEF InvokeMethod
    <3>2. s \in Seq(Value) /\ Len(s) = sp
      BY <1>0, <2>1, AtomsAreValues
    <3>3. \A q \in 1 .. sp - argc - 1 : s[q] = stk[q]
      BY <1>0, <2>1
    <3>. HIDE DEF s
    <3>. QED  BY <1>0, <2>1, <3>1, <3>2, <3>3, CallStep
  <2>3. CASE stk[sp - argc] # Sym
    BY <1>2, <2>3, PushOneStep, AtomsAreValues, ClientNumbers DEF InvokeMethod
  <2>. QED  BY <2>2, <2>3
<1>3. ASSUME NEW main \in BOOLEAN, NEW noret \in BOOLEAN, InvokeModule(main, noret)
      PROVE  FramesNested' /\ Kept
  <2>1. CASE stk[sp] # Mod
    BY <1>3, <2>1, PushOneStep, AtomsAreValues, ClientNumbers DEF InvokeModule
  <2>2. CASE stk[sp] = Mod /\ main /\ globals[Main] \notin {None, Nil}
    <3>. DEFINE v == globals[Main]
                s == Put(sp, <<v>>)
    <3>1. Call(s, sp + 1, noret) /\ globals' = globals /\ sp + 2 <= StackSize
      BY <1>3, <2>2 DEF InvokeModule, Room
    <3>2. v \in Value
      BY <2>2, GlobalIn, ValuesAssumption
    <3>. HIDE DEF v
    <3>3. <<v>> \in Seq(Value) /\ Len(<<v>>) = 1 /\ sp \in 0 .. sp
      BY <1>0, <3>2
    <3>4. s \in Seq(Value) /\ Len(s) = sp + 1 /\ \A q \in 1 .. sp : s[q] = stk[q]
      BY <1>0, <3>3, PutIs
    <3>5. sp + 1 \in Nat /\ fp <= sp + 1 /\ sp + 1 <= Len(s) /\ Len(s) <= StackSize
          /\ sp + 1 - 1 = sp
      BY <1>0, <3>1, <3>4, StackAssumption
    <3>. HIDE DEF s
    <3>. QED  BY <1>0, <3>1, <3>4, <3>5, CallStep
  <2>3. CASE stk[sp] = Mod /\ ~ (main /\ globals[Main] \notin {None, Nil})
    <3>. DEFINE vs == IF noret THEN <<>> ELSE <<Nil>>
    <3>1. PushAll(vs, 0)
      BY <1>3, <2>3 DEF InvokeModule
    <3>2. vs \in Seq(Value)
      BY AtomsAreValues
    <3>. HIDE DEF vs
    <3>. QED  BY <3>1, <3>2, PushStep
  <2>. QED  BY <2>1, <2>2, <2>3
<1>. QED
  BY <1>1, <1>2, <1>3, ReturnStep, SetjmpStep, LongjmpStep DEF ClientControls

-----------------------------------------------------------------------------
(* The theorems *)

\* The host starts with an empty stack and its own buffer.
LEMMA InitNested ==
    ASSUME Init
    PROVE  FramesNested
<1>1. sp = 0 /\ Depth = 0 /\ fp = 1 /\ stk = <<>> /\ frames = <<>> /\ Len(jb) = 1
  BY DEF Init, sp, Depth
<1>2. TypeOK
  BY <1>1, StackAssumption, ValuesAssumption DEF Init, TypeOK
<1>3. FpOf(0) = 1
  BY <1>1 DEF FpOf
<1>4. Nested
  BY <1>1, <1>3 DEF Nested
<1>5. BuffersMatch
  <2>1. jb[1].fi = 0 /\ jb[1].fp = 1 /\ jb[1].sp = 0
    BY DEF Init
  <2>2. \A d \in 0 .. Depth : d = 0
    BY <1>1
  <2>. QED  BY <1>3, <2>1, <2>2 DEF BuffersMatch
<1>. QED  BY <1>2, <1>4, <1>5 DEF FramesNested

\* Every step keeps the calls nested and leaves outer calls alone.
LEMMA StepNested ==
    ASSUME FramesNested, [Next]_vars
    PROVE  FramesNested' /\ Kept
<1>1. CASE Next
  BY <1>1, PushesStep, ReadsStep, StoresStep, ControlsStep DEF Next
<1>2. CASE UNCHANGED vars
  <2>1. Nested' /\ BuffersMatch'
    BY <1>2, FramesStay DEF FramesNested, vars
  <2>2. TypeOK'
    BY <1>2 DEF FramesNested, TypeOK, vars, sp, Depth
  <2>3. Kept
    BY <1>2 DEF Kept, vars, sp
  <2>. QED  BY <2>1, <2>2, <2>3 DEF FramesNested
<1>. QED  BY <1>1, <1>2

\* For every stack size and every client, the calls on the stack stay nested:
\* no API function takes sp below the frame base or beyond the stack, and every
\* return or accepted jump restores a frame that fits what is left
\* (toplevels/api.c, machine/invoke.c, ow_machine_longjmp).
THEOREM CallsStayNested == Spec => []FramesNested
<1>1. Init => FramesNested
  BY InitNested
<1>2. FramesNested /\ [Next]_vars => FramesNested'
  BY StepNested
<1>. QED  BY <1>1, <1>2, PTL DEF Spec

\* For every stack size and every client, no step of a native function, its
\* return and its jumps included, changes a cell of a call further out.
THEOREM OuterCallsKept == Spec => CallerKept
<1>1. FramesNested /\ [Next]_vars => [Kept]_vars
  BY StepNested
<1>. QED  BY <1>1, CallsStayNested, PTL DEF Spec, CallerKept, Kept

-----------------------------------------------------------------------------
(* Where the calls lie on the stack *)

\* A run of cells.
LEMMA CellsIs ==
    ASSUME NEW S, NEW s \in Seq(S), NEW a \in Nat, NEW b \in Nat,
           1 <= a, a - 1 <= b, b <= Len(s)
    PROVE  /\ SubSeq(s, a, b) \in Seq(S)
           /\ Len(SubSeq(s, a, b)) = b - a + 1
           /\ \A i \in 1 .. b - a + 1 : SubSeq(s, a, b)[i] = s[a + i - 1]
<1>1. \A i \in a .. b : s[i] \in S
  OBVIOUS
<1>2. a \in Int /\ b \in Int
  OBVIOUS
<1>3. /\ SubSeq(s, a, b) \in Seq(S)
      /\ Len(SubSeq(s, a, b)) = IF a <= b THEN b - a + 1 ELSE 0
      /\ \A i \in 1 .. b - a + 1 : SubSeq(s, a, b)[i] = s[a + i - 1]
  BY <1>1, <1>2, SubSeqProperties
<1>. QED  BY <1>3

\* Runs of the same cells are equal.
LEMMA SameCells ==
    ASSUME NEW S, NEW s \in Seq(S), NEW t \in Seq(S), NEW a \in Nat, NEW b \in Nat,
           1 <= a, a - 1 <= b, b <= Len(s), b <= Len(t),
           \A p \in 1 .. b : s[p] = t[p]
    PROVE  SubSeq(s, a, b) = SubSeq(t, a, b)
<1>. DEFINE u == SubSeq(s, a, b)
            v == SubSeq(t, a, b)
<1>1. /\ u \in Seq(S) /\ Len(u) = b - a + 1
      /\ \A i \in 1 .. b - a + 1 : u[i] = s[a + i - 1]
  BY CellsIs
<1>2. /\ v \in Seq(S) /\ Len(v) = b - a + 1
      /\ \A i \in 1 .. b - a + 1 : v[i] = t[a + i - 1]
  BY CellsIs
<1>. HIDE DEF u, v
<1>3. \A i \in 1 .. Len(u) : u[i] = v[i]
  <2>. SUFFICES ASSUME NEW i \in 1 .. b - a + 1
                PROVE  u[i] = v[i]
    BY <1>1
  <2>1. a + i - 1 \in 1 .. b
    OBVIOUS
  <2>. QED  BY <2>1, <1>1, <1>2
<1>4. u = v
  BY <1>1, <1>2, <1>3, SeqEqual
<1>. QED  BY <1>4 DEF u, v

\* The stack and the current frame base.
LEMMA StackIs ==
    ASSUME FramesNested
    PROVE  /\ stk \in Seq(Value) /\ sp = Len(stk) /\ sp \in Nat /\ sp <= StackSize
           /\ fp \in Nat /\ 1 <= fp /\ fp <= sp + 1 /\ Depth \in Nat
           /\ FpOf(Depth) = fp /\ EndOf(Depth) = sp
BY OwnBelowFp DEF FramesNested, TypeOK, sp, FpOf, EndOf

\* The frame infos are well formed.
LEMMA FrameIs ==
    ASSUME FramesNested, NEW d \in 1 .. Depth
    PROVE  /\ frames[d].argl \in Nat /\ 2 <= frames[d].argl
           /\ frames[d].pfp \in Nat /\ 1 <= frames[d].pfp
           /\ frames[d].noret \in BOOLEAN
<1>1. frames[d] \in [argl : 2 .. StackSize + 1, pfp : 1 .. StackSize, noret : BOOLEAN]
  BY ElementIn DEF FramesNested, TypeOK, Depth
<1>. QED  BY <1>1, StackAssumption

\* The frame base of each call lies above the arguments of the call, and those
\* above the frame base of its caller.
LEMMA FrameBase ==
    ASSUME FramesNested, NEW d \in 0 .. Depth
    PROVE  /\ FpOf(d) \in Nat /\ 1 <= FpOf(d)
           /\ d > 0 => FpOf(d - 1) < frames[d].argl /\ frames[d].argl <= FpOf(d)
<1>1. ASSUME d = Depth
      PROVE  FpOf(d) \in Nat /\ 1 <= FpOf(d)
  BY <1>1, StackIs
<1>2. ASSUME d # Depth
      PROVE  FpOf(d) \in Nat /\ 1 <= FpOf(d)
  <2>1. d + 1 \in 1 .. Depth
    BY <1>2, StackIs
  <2>. QED  BY <1>2, <2>1, FrameIs DEF FpOf
<1>3. ASSUME d > 0
      PROVE  FpOf(d - 1) < frames[d].argl /\ frames[d].argl <= FpOf(d)
  BY <1>3, StackIs DEF FramesNested, Nested
<1>. QED  BY <1>1, <1>2, <1>3

\* The frame bases grow with the depth.
LEMMA FrameOrder ==
    ASSUME FramesNested, NEW c \in 0 .. Depth, NEW d \in 0 .. Depth, c <= d
    PROVE  FpOf(c) <= FpOf(d)
<1>. DEFINE S == {n \in Nat : n <= Depth - c => FpOf(c) <= FpOf(c + n)}
<1>0. Depth \in Nat
  BY StackIs
<1>1. 0 \in S
  BY FrameBase, <1>0
<1>2. ASSUME NEW n \in Nat, n \in S
      PROVE  n + 1 \in S
  <2>. SUFFICES ASSUME n + 1 <= Depth - c
                PROVE  FpOf(c) <= FpOf(c + (n + 1))
    OBVIOUS
  <2>1. c + (n + 1) \in 0 .. Depth /\ (c + (n + 1)) - 1 = c + n /\ c + (n + 1) > 0
        /\ c + n \in 0 .. Depth /\ c + (n + 1) \in 1 .. Depth
    BY <1>0
  <2>2. FpOf(c) <= FpOf(c + n)
    BY <1>2, <1>0
  <2>. DEFINE e == c + (n + 1)
  <2>3. FpOf(e - 1) < frames[e].argl /\ frames[e].argl <= FpOf(e)
    BY <2>1, FrameBase
  <2>4. FpOf(c) \in Nat /\ FpOf(e - 1) \in Nat /\ FpOf(e) \in Nat /\ frames[e].argl \in Nat
    BY <2>1, FrameBase, FrameIs
  <2>5. FpOf(c) <= FpOf(e - 1)
    BY <2>1, <2>2
  <2>. HIDE DEF e
  <2>6. FpOf(c) <= FpOf(e)
    BY <2>3, <2>4, <2>5
  <2>. QED  BY <2>6 DEF e
<1>. HIDE DEF S
<1>3. d - c \in S
  <2>1. Nat \subseteq S
    BY <1>1, <1>2, SetInduction
  <2>. QED  BY <2>1
<1>. QED  BY <1>3, <1>0 DEF S

\* The values of a call lie between its frame base and the top of the stack,
\* those of a call that waits below the callee of the next.
LEMMA FrameBounds ==
    ASSUME FramesNested, NEW d \in 0 .. Depth
    PROVE  /\ FpOf(d) \in Nat /\ 1 <= FpOf(d) /\ FpOf(d) <= fp
           /\ EndOf(d) \in Nat /\ FpOf(d) - 1 <= EndOf(d) /\ EndOf(d) <= sp
           /\ d < Depth => EndOf(d) = frames[d + 1].argl - 2
<1>0. sp \in Nat /\ fp \in 1 .. sp + 1 /\ Depth \in Nat
  BY StackIs
<1>1. FpOf(d) \in Nat /\ 1 <= FpOf(d)
  BY FrameBase
<1>2. FpOf(Depth) = fp
  BY DEF FpOf
<1>3. FpOf(d) <= fp
  BY <1>0, <1>2, FrameOrder
<1>4. CASE d = Depth
  BY <1>0, <1>1, <1>2, <1>4 DEF EndOf
<1>5. CASE d # Depth
  <2>. DEFINE e == d + 1
  <2>1. e \in 1 .. Depth /\ e \in 0 .. Depth /\ e - 1 = d /\ e > 0
    BY <1>0, <1>5
  <2>2. FpOf(d) < frames[e].argl /\ frames[e].argl <= FpOf(e)
    BY <2>1, FrameBase
  <2>3. FpOf(e) <= fp /\ FpOf(e) \in Nat /\ frames[e].argl \in Nat
    BY <1>0, <1>2, <2>1, FrameOrder, FrameBase, FrameIs
  <2>4. EndOf(d) = frames[e].argl - 2
    BY <1>5 DEF EndOf
  <2>. HIDE DEF e
  <2>5. EndOf(d) \in Nat /\ FpOf(d) - 1 <= EndOf(d) /\ EndOf(d) <= sp
    BY <1>0, <1>1, <2>2, <2>3, <2>4
  <2>. QED  BY <1>1, <1>3, <2>4, <2>5 DEF e
<1>. QED  BY <1>4, <1>5

-----------------------------------------------------------------------------
(* What a step leaves of a call *)

\* The parts of a call, and a call made of parts.
FnOf(d) == IF d = 0 THEN None ELSE stk[frames[d].argl - 1]
ArgsOf(d) == IF d = 0 THEN <<>> ELSE SubSeq(stk, frames[d].argl, FpOf(d) - 1)
ValsOf(d) == SubSeq(stk, FpOf(d), EndOf(d))
MarkOf(d) == IF jb[d + 1] = NoJmp THEN -1 ELSE jb[d + 1].sp - jb[d + 1].fp + 1
NoretOf(d) == d > 0 /\ frames[d].noret

CallOf(fn, args, vals, mark, noret) ==
    [fn |-> fn, args |-> args, vals |-> vals, mark |-> mark, noret |-> noret]

\* The call at depth d with other values.
WithVals(d, vals) == CallOf(FnOf(d), ArgsOf(d), vals, MarkOf(d), NoretOf(d))

\* A call is made of its parts, before and after a step.
LEMMA CallIs ==
    ASSUME NEW d
    PROVE  /\ CallAt(d) = WithVals(d, ValsOf(d))
           /\ (CallAt(d) = WithVals(d, ValsOf(d)))'
BY DEF CallAt, CallOf, WithVals, FnOf, ArgsOf, ValsOf, MarkOf, NoretOf

\* The parts of a call.
LEMMA CallParts ==
    ASSUME NEW d
    PROVE  /\ CallAt(d).fn = FnOf(d) /\ CallAt(d).args = ArgsOf(d)
           /\ CallAt(d).vals = ValsOf(d) /\ CallAt(d).mark = MarkOf(d)
           /\ CallAt(d).noret = NoretOf(d)
BY DEF CallAt, FnOf, ArgsOf, ValsOf, MarkOf, NoretOf

\* A call with other values.
LEMMA CallExcept ==
    ASSUME NEW fn, NEW args, NEW vals, NEW mark, NEW noret, NEW new
    PROVE  [CallOf(fn, args, vals, mark, noret) EXCEPT !.vals = new]
              = CallOf(fn, args, new, mark, noret)
BY DEF CallOf

\* The same for the mark.
LEMMA MarkExcept ==
    ASSUME NEW fn, NEW args, NEW vals, NEW mark, NEW noret, NEW new
    PROVE  [CallOf(fn, args, vals, mark, noret) EXCEPT !.mark = new]
              = CallOf(fn, args, vals, new, noret)
BY DEF CallOf

\* The call at depth d with other values.
LEMMA ExceptVals ==
    ASSUME NEW d, NEW new
    PROVE  [CallAt(d) EXCEPT !.vals = new] = WithVals(d, new)
BY CallIs, CallExcept DEF WithVals

\* The same for its arguments.
LEMMA ExceptArgs ==
    ASSUME NEW d, NEW vals, NEW new
    PROVE  [WithVals(d, vals) EXCEPT !.args = new]
              = CallOf(FnOf(d), new, vals, MarkOf(d), NoretOf(d))
BY DEF WithVals, CallOf

\* Before the step s and after it t have the same n cells.
Same(s, t, n) == n <= Len(t) /\ \A p \in 1 .. n : t[p] = s[p]

\* Of the same cells, the same runs.
LEMMA SameRun ==
    ASSUME NEW S, NEW s \in Seq(S), NEW t \in Seq(S), NEW a \in Nat, NEW b \in Nat,
           1 <= a, a - 1 <= b, b <= Len(s), Same(s, t, b)
    PROVE  SubSeq(t, a, b) = SubSeq(s, a, b)
<1>1. b <= Len(s) /\ b <= Len(t) /\ \A p \in 1 .. b : s[p] = t[p]
  BY DEF Same
<1>2. SubSeq(s, a, b) = SubSeq(t, a, b)
  BY <1>1, SameCells
<1>. QED  BY <1>2

\* The frame info and the buffer of a call, before and after a step.
FrameStays(d) ==
    /\ FpOf(d)' = FpOf(d)
    /\ d > 0 => frames'[d] = frames[d]
    /\ jb'[d + 1] = jb[d + 1]

\* While its frame, its buffer and the cells below its frame base stay, so do
\* a call's callee, its arguments and its mark.
LEMMA FixedParts ==
    ASSUME FramesNested, NEW d \in 0 .. Depth, FrameStays(d), stk' \in Seq(Value),
           Same(stk, stk', FpOf(d) - 1)
    PROVE  FnOf(d)' = FnOf(d) /\ \A vals : WithVals(d, vals)' = WithVals(d, vals)
<1>1. MarkOf(d)' = MarkOf(d)
  BY DEF MarkOf, FrameStays
<1>2. NoretOf(d)' = NoretOf(d)
  BY DEF NoretOf, FrameStays
<1>3. FnOf(d)' = FnOf(d) /\ ArgsOf(d)' = ArgsOf(d)
  <2>1. CASE d = 0
    BY <2>1 DEF FnOf, ArgsOf
  <2>2. CASE d # 0
    <3>1. d \in 1 .. Depth
      BY <2>2, StackIs
    <3>. DEFINE a == frames[d].argl
                b == FpOf(d) - 1
    <3>2. frames'[d] = frames[d] /\ FpOf(d)' = FpOf(d)
      BY <3>1 DEF FrameStays
    <3>3. a \in Nat /\ 2 <= a /\ a <= FpOf(d)
      BY <3>1, FrameIs, FrameBase
    <3>4. FpOf(d) \in Nat /\ FpOf(d) <= Len(stk) + 1 /\ Len(stk) \in Nat /\ stk \in Seq(Value)
      <4>1. FpOf(d) \in Nat /\ FpOf(d) <= fp
        BY FrameBounds
      <4>. QED  BY <4>1 DEF FramesNested, TypeOK, sp
    <3>5. /\ b \in Nat /\ 1 <= a /\ a - 1 <= b /\ b <= Len(stk)
          /\ a - 1 \in 1 .. b
      BY <3>3, <3>4
    <3>6. Same(stk, stk', b)
      OBVIOUS
    <3>7. SubSeq(stk', a, b) = SubSeq(stk, a, b)
      <4>. HIDE DEF a, b
      <4>. QED  BY <3>3, <3>4, <3>5, <3>6, SameRun, SMTT(30)
    <3>. HIDE DEF b
    <3>8. stk'[a - 1] = stk[a - 1]
      BY <3>5, <3>6 DEF Same
    <3>. QED  BY <2>2, <3>2, <3>7, <3>8 DEF FnOf, ArgsOf, b
  <2>. QED  BY <2>1, <2>2
<1>. QED  BY <1>1, <1>2, <1>3 DEF WithVals

\* A call that waits, before and after the step, stays as it is.
LEMMA WaitingStays ==
    ASSUME FramesNested, NEW d \in 0 .. Depth, d < Depth, d # Depth', FrameStays(d),
           frames'[d + 1] = frames[d + 1], stk' \in Seq(Value),
           Same(stk, stk', EndOf(d))
    PROVE  CallAt(d)' = CallAt(d) /\ FnOf(d)' = FnOf(d)
<1>1. FpOf(d)' = FpOf(d) /\ EndOf(d)' = EndOf(d)
  BY DEF FrameStays, EndOf
<1>2. FpOf(d) \in Nat /\ 1 <= FpOf(d) /\ FpOf(d) - 1 <= EndOf(d) /\ EndOf(d) \in Nat
      /\ EndOf(d) <= Len(stk)
  BY FrameBounds DEF sp
<1>3. stk \in Seq(Value)
  BY DEF FramesNested, TypeOK
<1>4. ValsOf(d)' = ValsOf(d)
  <2>1. SubSeq(stk', FpOf(d), EndOf(d)) = SubSeq(stk, FpOf(d), EndOf(d))
    BY <1>2, <1>3, SameRun, ZenonT(60)
  <2>. QED  BY <1>1, <2>1 DEF ValsOf
<1>5. Same(stk, stk', FpOf(d) - 1)
  BY <1>2 DEF Same
<1>6. WithVals(d, ValsOf(d))' = WithVals(d, ValsOf(d)) /\ FnOf(d)' = FnOf(d)
  <2>1. FnOf(d)' = FnOf(d) /\ \A vals : WithVals(d, vals)' = WithVals(d, vals)
    BY <1>5, FixedParts
  <2>. QED  BY <1>4, <2>1 DEF WithVals
<1>. QED  BY <1>6, CallIs

\* The calls further out lie below the frame base.
LEMMA BelowFrame ==
    ASSUME FramesNested, NEW m \in 0 .. Depth, NEW d \in 0 .. m, d < m
    PROVE  /\ d \in 0 .. Depth /\ d < Depth /\ d + 1 \in 1 .. m
           /\ EndOf(d) \in Nat /\ EndOf(d) < FpOf(m) - 1
<1>0. Depth \in Nat
  BY StackIs
<1>. DEFINE e == d + 1
<1>1. e \in 1 .. Depth /\ e \in 0 .. Depth /\ e - 1 = d /\ e <= m /\ e > 0
      /\ d \in 0 .. Depth /\ d < Depth
  BY <1>0
<1>2. frames[e].argl <= FpOf(e) /\ frames[e].argl \in Nat /\ 2 <= frames[e].argl
  BY <1>1, FrameBase, FrameIs
<1>3. FpOf(e) <= FpOf(m) /\ FpOf(e) \in Nat /\ FpOf(m) \in Nat
  BY <1>1, FrameOrder, FrameBase
<1>4. EndOf(d) = frames[e].argl - 2
  BY <1>1 DEF EndOf
<1>. HIDE DEF e
<1>5. EndOf(d) \in Nat /\ EndOf(d) < FpOf(m) - 1
  BY <1>2, <1>3, <1>4
<1>. QED  BY <1>1, <1>5 DEF e

\* A run that ends with what has been put on the stack.
LEMMA RunOfPut ==
    ASSUME stk \in Seq(Value), NEW n \in 0 .. sp, NEW vs \in Seq(Value),
           NEW a \in Nat, 1 <= a, a - 1 <= n
    PROVE  SubSeq(Put(n, vs), a, n + Len(vs)) = SubSeq(stk, a, n) \o vs
<1>. DEFINE t == Put(n, vs)
            b == n + Len(vs)
            u == SubSeq(t, a, b)
            v == SubSeq(stk, a, n)
            w == v \o vs
<1>0. n \in Nat /\ n <= Len(stk) /\ Len(vs) \in Nat /\ b \in Nat
  BY DEF sp
<1>1. t \in Seq(Value) /\ Len(t) = b
  BY PutIs
<1>2. \A p \in 1 .. b : t[p] = IF p <= n THEN stk[p] ELSE vs[p - n]
  BY DEF Put
<1>. HIDE DEF t
<1>3. u \in Seq(Value) /\ Len(u) = b - a + 1
      /\ \A i \in 1 .. b - a + 1 : u[i] = t[a + i - 1]
  BY <1>0, <1>1, CellsIs
<1>4. v \in Seq(Value) /\ Len(v) = n - a + 1
      /\ \A i \in 1 .. n - a + 1 : v[i] = stk[a + i - 1]
  BY <1>0, CellsIs
<1>. HIDE DEF u, v
<1>5. w \in Seq(Value) /\ Len(w) = b - a + 1
  BY <1>0, <1>4
<1>6. ASSUME NEW i \in 1 .. b - a + 1
      PROVE  u[i] = w[i]
  <2>1. a + i - 1 \in 1 .. b /\ u[i] = t[a + i - 1]
    BY <1>3
  <2>2. CASE i <= n - a + 1
    <3>1. i \in 1 .. n - a + 1 /\ a + i - 1 <= n
      BY <2>2, <1>0
    <3>2. w[i] = v[i]
      BY <3>1, <1>0, <1>4
    <3>. QED  BY <2>1, <3>1, <3>2, <1>2, <1>4
  <2>3. CASE ~ (i <= n - a + 1)
    <3>1. ~ (a + i - 1 <= n)
      BY <2>3, <1>0
    <3>2. w[i] = vs[i - (n - a + 1)]
      <4>1. i \in 1 .. Len(v) + Len(vs) /\ ~ (i <= Len(v)) /\ Len(v) = n - a + 1
        BY <2>3, <1>0, <1>4
      <4>. QED  BY <4>1, <1>4, ConcatProperties
    <3>3. i - (n - a + 1) = (a + i - 1) - n
      BY <1>0
    <3>. QED  BY <2>1, <3>1, <3>2, <3>3, <1>2
  <2>. QED  BY <2>2, <2>3
<1>. HIDE DEF w
<1>7. u = w
  BY <1>3, <1>5, <1>6, SeqEqual
<1>. QED  BY <1>7 DEF u, w, v, t

\* Of the frame infos and buffers, the first m stay.
LEMMA FirstFrames ==
    ASSUME FramesNested, NEW m \in 0 .. Depth, fp' = FpOf(m),
           frames' = SubSeq(frames, 1, m), jb' = SubSeq(jb, 1, m + 1)
    PROVE  /\ Depth' = m
           /\ \A d \in 1 .. m : frames'[d] = frames[d]
           /\ \A d \in 0 .. m : FrameStays(d)
<1>. DEFINE F == [argl : 2 .. StackSize + 1, pfp : 1 .. StackSize, noret : BOOLEAN]
            J == [sp : 0 .. StackSize, fp : 0 .. StackSize + 1, fi : Nat]
<1>0. Depth \in Nat /\ m \in Nat /\ m <= Depth /\ m + 1 \in Nat
  BY StackIs
<1>1. frames \in Seq(F) /\ jb \in Seq(J) /\ Len(jb) = Depth + 1 /\ Len(frames) = Depth
  BY DEF FramesNested, TypeOK, Depth
<1>. HIDE DEF F, J
<1>2. Len(frames') = m /\ \A d \in 1 .. m : frames'[d] = frames[d]
  BY <1>0, <1>1, PrefixIs
<1>3. \A d \in 1 .. m + 1 : jb'[d] = jb[d]
  BY <1>0, <1>1, PrefixIs
<1>4. Depth' = m
  BY <1>2 DEF Depth
<1>5. ASSUME NEW d \in 0 .. m
      PROVE  FrameStays(d)
  <2>1. jb'[d + 1] = jb[d + 1] /\ (d > 0 => frames'[d] = frames[d])
    BY <1>0, <1>2, <1>3
  <2>2. CASE d = m
    BY <2>1, <2>2, <1>4 DEF FrameStays, FpOf
  <2>3. CASE d # m
    <3>1. d + 1 \in 1 .. m /\ d # Depth
      BY <1>0, <2>3
    <3>2. FpOf(d)' = FpOf(d)
      BY <2>3, <3>1, <1>2, <1>4 DEF FpOf
    <3>. QED  BY <2>1, <3>2 DEF FrameStays
  <2>. QED  BY <2>2, <2>3
<1>. QED  BY <1>2, <1>4, <1>5

\* The callees of the calls are functions.
Callees == \A d \in 1 .. Depth : FnOf(d).k = "func"

\* The stack is cut to n cells of the call at depth m, and values pushed: of
\* that call only the values change, and the calls further out wait as before.
LEMMA CutBack ==
    ASSUME FramesNested, NEW m \in 0 .. Depth,
           NEW n \in 0 .. sp, NEW vs \in Seq(Value), FpOf(m) - 1 <= n,
           stk' = Put(n, vs), fp' = FpOf(m),
           frames' = SubSeq(frames, 1, m), jb' = SubSeq(jb, 1, m + 1)
    PROVE  /\ Outer' = SubSeq(Outer, 1, m)
           /\ Cur' = WithVals(m, SubSeq(stk, FpOf(m), n) \o vs)
           /\ Callees => Callees'
<1>0. Depth \in Nat /\ m \in Nat /\ m <= Depth /\ stk \in Seq(Value) /\ n \in Nat
      /\ sp \in Nat /\ Len(vs) \in Nat /\ FpOf(m) \in Nat /\ 1 <= FpOf(m)
  <2>1. Depth \in Nat /\ sp \in Nat
    BY StackIs
  <2>2. FpOf(m) \in Nat /\ 1 <= FpOf(m)
    BY FrameBase
  <2>3. stk \in Seq(Value)
    BY DEF FramesNested, TypeOK
  <2>. QED  BY <2>1, <2>2, <2>3
<1>1. /\ Depth' = m
      /\ \A d \in 1 .. m : frames'[d] = frames[d]
      /\ \A d \in 0 .. m : FrameStays(d)
  BY FirstFrames
<1>2. /\ stk' \in Seq(Value) /\ Len(stk') = n + Len(vs)
      /\ \A p \in 1 .. n : stk'[p] = stk[p]
  BY <1>0, PutIs
<1>3. ASSUME NEW d \in 0 .. m, d < m
      PROVE  CallAt(d)' = CallAt(d) /\ FnOf(d)' = FnOf(d)
  <2>1. /\ d \in 0 .. Depth /\ d < Depth /\ d + 1 \in 1 .. m
        /\ EndOf(d) \in Nat /\ EndOf(d) < FpOf(m) - 1
    BY <1>3, BelowFrame
  <2>2. Same(stk, stk', EndOf(d))
    <3>1. EndOf(d) <= n
      BY <1>0, <2>1
    <3>. QED  BY <1>0, <1>2, <2>1, <3>1 DEF Same
  <2>3. d # Depth' /\ frames'[d + 1] = frames[d + 1] /\ FrameStays(d)
    BY <1>0, <1>1, <1>3, <2>1
  <2>. QED  BY <1>2, <2>1, <2>2, <2>3, WaitingStays
<1>4. FnOf(m)' = FnOf(m) /\ \A vals : WithVals(m, vals)' = WithVals(m, vals)
  <2>1. Same(stk, stk', FpOf(m) - 1)
    BY <1>0, <1>2 DEF Same
  <2>. QED  BY <1>1, <1>2, <2>1, FixedParts
<1>5. ValsOf(m)' = SubSeq(stk, FpOf(m), n) \o vs
  <2>1. EndOf(m)' = n + Len(vs) /\ FpOf(m)' = FpOf(m)
    BY <1>1, <1>2, SMTT(30) DEF EndOf, sp, FrameStays
  <2>2. SubSeq(Put(n, vs), FpOf(m), n + Len(vs)) = SubSeq(stk, FpOf(m), n) \o vs
    BY <1>0, RunOfPut
  <2>. QED  BY <2>1, <2>2 DEF ValsOf
<1>6. Cur' = WithVals(m, SubSeq(stk, FpOf(m), n) \o vs)
  <2>1. Cur' = CallAt(m)'
    BY <1>1 DEF Cur, CallAt
  <2>2. CallAt(m)' = WithVals(m, ValsOf(m))'
    BY CallIs
  <2>. QED  BY <1>4, <1>5, <2>1, <2>2
<1>7. Outer' = SubSeq(Outer, 1, m)
  <2>1. Outer' = [d \in 1 .. m |-> CallAt(d - 1)']
    BY <1>1 DEF Outer
  <2>2. \A d \in 1 .. m : CallAt(d - 1)' = Outer[d]
    <3>. SUFFICES ASSUME NEW d \in 1 .. m
                  PROVE  CallAt(d - 1)' = Outer[d]
      OBVIOUS
    <3>1. d - 1 \in 0 .. m /\ d - 1 < m /\ d \in 1 .. Depth
      BY <1>0
    <3>. QED  BY <1>3, <3>1 DEF Outer
  <2>3. SubSeq(Outer, 1, m) = [d \in 1 .. m |-> Outer[d]]
    BY <1>0 DEF Outer
  <2>. QED  BY <2>1, <2>2, <2>3
<1>8. Callees => Callees'
  <2>. SUFFICES ASSUME Callees, NEW d \in 1 .. m
                PROVE  FnOf(d)'.k = "func"
    BY <1>1 DEF Callees
  <2>1. FnOf(d)' = FnOf(d) /\ d \in 1 .. Depth
    BY <1>0, <1>3, <1>4
  <2>. QED  BY <2>1 DEF Callees
<1>. QED  BY <1>6, <1>7, <1>8

-----------------------------------------------------------------------------
(* The innermost call, and steps that change its values *)

\* The innermost call: its values end at the top of the stack.
LEMMA CurVals ==
    ASSUME FramesNested
    PROVE  /\ Cur.vals = SubSeq(stk, fp, sp) /\ Cur.vals \in Seq(Value)
           /\ Len(Cur.vals) = sp - fp + 1
           /\ \A i \in 1 .. sp - fp + 1 : Cur.vals[i] = stk[fp + i - 1]
<1>1. FpOf(Depth) = fp /\ EndOf(Depth) = sp
  BY DEF FpOf, EndOf
<1>2. Cur.vals = SubSeq(stk, fp, sp)
  BY <1>1, CallParts DEF Cur, ValsOf
<1>3. fp \in Nat /\ 1 <= fp /\ fp - 1 <= sp /\ sp \in Nat /\ sp <= Len(stk) /\ stk \in Seq(Value)
  BY StackIs
<1>. QED  BY <1>2, <1>3, CellsIs

\* Its arguments end below its frame base.
LEMMA CurArgs ==
    ASSUME FramesNested, Depth > 0
    PROVE  /\ Cur.args = SubSeq(stk, arg_list, fp - 1) /\ Cur.args \in Seq(Value)
           /\ Len(Cur.args) = fp - arg_list
           /\ \A i \in 1 .. fp - arg_list : Cur.args[i] = stk[arg_list + i - 1]
<1>1. FpOf(Depth) = fp /\ Depth # 0
  BY StackIs
<1>2. Cur.args = SubSeq(stk, arg_list, fp - 1)
  BY <1>1, CallParts DEF Cur, ArgsOf, arg_list
<1>3. /\ arg_list \in Nat /\ 1 <= arg_list /\ arg_list <= fp /\ fp \in Nat /\ fp - 1 \in Nat
      /\ fp - 1 <= Len(stk) /\ stk \in Seq(Value)
  BY ArgList, StackIs
<1>4. arg_list - 1 <= fp - 1 /\ (fp - 1) - arg_list + 1 = fp - arg_list
  BY <1>3
<1>. QED  BY <1>2, <1>3, <1>4, CellsIs

\* The host has no arguments.
LEMMA CurArgsEmpty ==
    ASSUME Depth = 0
    PROVE  Cur.args = <<>>
BY CallParts DEF Cur, ArgsOf

\* The first values of the innermost call.
LEMMA FirstVals ==
    ASSUME FramesNested, NEW n, n \in fp - 1 .. sp
    PROVE  SubSeq(stk, fp, n) = SubSeq(Cur.vals, 1, n - fp + 1)
<1>0. /\ fp \in Nat /\ 1 <= fp /\ sp \in Nat /\ sp <= Len(stk) /\ stk \in Seq(Value)
      /\ n \in Nat /\ fp - 1 <= n /\ n <= sp
  BY StackIs
<1>. DEFINE m == n - fp + 1
            u == SubSeq(stk, fp, n)
            v == SubSeq(Cur.vals, 1, m)
<1>1. u \in Seq(Value) /\ Len(u) = m /\ \A i \in 1 .. m : u[i] = stk[fp + i - 1]
  BY <1>0, CellsIs
<1>2. m \in Nat /\ m <= sp - fp + 1
  BY <1>0
<1>3. v \in Seq(Value) /\ Len(v) = m /\ \A i \in 1 .. m : v[i] = Cur.vals[i]
  BY <1>2, CurVals, PrefixIs
<1>4. \A i \in 1 .. m : i \in 1 .. sp - fp + 1
  BY <1>0, <1>2
<1>. HIDE DEF u, v, m
<1>5. \A i \in 1 .. Len(u) : u[i] = v[i]
  BY <1>1, <1>3, <1>4, CurVals
<1>6. u = v
  BY <1>1, <1>3, <1>5, SeqEqual
<1>. QED  BY <1>6 DEF u, v, m

\* What a step within the innermost call does.
InCallStep == Abstract!InCall /\ Outer' = Outer /\ (Callees => Callees')

\* A step within a frame keeps the first values of the call and pushes others.
LEMMA InFrameCalls ==
    ASSUME FramesNested, InFrame, NEW n, n \in fp - 1 .. sp, NEW vs \in Seq(Value),
           stk' = Put(n, vs)
    PROVE  /\ Abstract!Becomes(SubSeq(Cur.vals, 1, n - fp + 1) \o vs)
           /\ Callees => Callees'
<1>. DEFINE F == [argl : 2 .. StackSize + 1, pfp : 1 .. StackSize, noret : BOOLEAN]
            J == [sp : 0 .. StackSize, fp : 0 .. StackSize + 1, fi : Nat]
<1>0. fp \in Nat /\ sp \in Nat /\ 1 <= fp /\ Depth \in Nat /\ FpOf(Depth) = fp
  BY StackIs
<1>1. frames \in Seq(F) /\ jb \in Seq(J) /\ Len(jb) = Depth + 1 /\ Len(frames) = Depth
  BY DEF FramesNested, TypeOK, Depth
<1>. HIDE DEF F, J
<1>2. frames = SubSeq(frames, 1, Depth) /\ jb = SubSeq(jb, 1, Depth + 1)
  BY <1>0, <1>1
<1>3. fp' = FpOf(Depth) /\ frames' = SubSeq(frames, 1, Depth) /\ jb' = SubSeq(jb, 1, Depth + 1)
  BY <1>0, <1>2 DEF InFrame
<1>4. n \in 0 .. sp /\ FpOf(Depth) - 1 <= n /\ Depth \in 0 .. Depth
  BY <1>0
<1>5. /\ Outer' = SubSeq(Outer, 1, Depth)
      /\ Cur' = WithVals(Depth, SubSeq(stk, FpOf(Depth), n) \o vs)
      /\ Callees => Callees'
  BY <1>3, <1>4, CutBack
<1>6. SubSeq(Outer, 1, Depth) = Outer
  BY <1>0 DEF Outer
<1>7. Cur' = [Cur EXCEPT !.vals = SubSeq(Cur.vals, 1, n - fp + 1) \o vs]
  BY <1>0, <1>5, FirstVals, ExceptVals DEF Cur
<1>. QED  BY <1>5, <1>6, <1>7 DEF Abstract!Becomes

\* A step that leaves the stack alone leaves the calls alone.
LEMMA StackStays ==
    ASSUME UNCHANGED <<stk, fp, frames, jb>>
    PROVE  Cur' = Cur /\ Outer' = Outer /\ (Callees => Callees')
<1>1. Depth' = Depth /\ sp' = sp
  BY DEF Depth, sp
<1>2. \A d : FpOf(d)' = FpOf(d) /\ EndOf(d)' = EndOf(d)
  BY <1>1 DEF FpOf, EndOf
<1>3. \A d : CallAt(d)' = CallAt(d) /\ FnOf(d)' = FnOf(d)
  BY <1>2 DEF CallAt, FnOf
<1>5. Cur' = Cur
  BY <1>1, <1>3 DEF Cur, CallAt
<1>6. Outer' = Outer
  BY <1>1, <1>3 DEF Outer
<1>7. Callees => Callees'
  BY <1>1, <1>3 DEF Callees
<1>. QED  BY <1>5, <1>6, <1>7

\* A call that only reports something.
LEMMA FailsIs ==
    ASSUME NEW r, Fails(r)
    PROVE  InCallStep
<1>1. Cur' = Cur /\ Outer' = Outer /\ (Callees => Callees') /\ globals' = globals /\ up' = up
  BY StackStays DEF Fails, InFrame
<1>2. Abstract!Reports
  BY <1>1 DEF Abstract!Reports
<1>. QED  BY <1>1, <1>2 DEF InCallStep, Abstract!InCall

-----------------------------------------------------------------------------
(* What a call can get hold of *)

\* The two modules speak of the same objects.
LEMMA SameValues ==
    /\ Abstract!None = None /\ Abstract!Nil = Nil /\ Abstract!Str = Str
    /\ Abstract!Exc = Exc /\ Abstract!Mod = Mod
    /\ Abstract!ErrFail = ErrFail /\ Abstract!ErrIndex = ErrIndex
    /\ Abstract!ContainerKinds = ContainerKinds
    /\ \A k, of : Abstract!Container(k, of) = Container(k, of)
    /\ \A k : Abstract!Width(k) = Width(k)
BY DEF Abstract!None, Abstract!Nil, Abstract!Str, Abstract!Exc, Abstract!Mod,
       Abstract!Atom, None, Nil, Str, Exc, Mod, Atom,
       Abstract!ErrFail, Abstract!ErrIndex, ErrFail, ErrIndex,
       Abstract!ContainerKinds, ContainerKinds, Abstract!Container, Container,
       Abstract!Width, Width

\* Fresh objects and the variables of the modules.
LEMMA HeldFresh ==
    /\ Pushable \subseteq Abstract!Held
    /\ Nil \in Abstract!Held /\ Str \in Abstract!Held
    /\ Exc \in Abstract!Held /\ Mod \in Abstract!Held
    /\ \A n \in Names : globals[n] \in Abstract!Held /\ Base[n] \in Abstract!Held
BY SameValues DEF Abstract!Held

\* The arguments and the values of the call, and what those contain.
LEMMA HeldOwn ==
    /\ \A j \in DOMAIN Cur.args : Cur.args[j] \in Abstract!Own
    /\ \A j \in DOMAIN Cur.vals : Cur.vals[j] \in Abstract!Own
    /\ Abstract!Own \subseteq Abstract!Held
    /\ \A v \in Abstract!Own : \A j \in DOMAIN v.of : v.of[j] \in Abstract!Held
<1>1. \A v \in Abstract!Own : \A j \in DOMAIN v.of : v.of[j] \in Abstract!Held
  BY DEF Abstract!Held
<1>2. Abstract!Own \subseteq Abstract!Held
  BY DEF Abstract!Held
<1>. QED  BY <1>1, <1>2 DEF Abstract!Own

\* An index in range names an argument or a value of the call.
LEMMA CellHeld ==
    ASSUME FramesNested, NEW i \in Int, i # 0, i < 0 => Depth > 0, InRange(i)
    PROVE  stk[Cell(i)] \in Abstract!Own
<1>1. CASE i < 0
  <2>1. Depth > 0 /\ Cell(i) = arg_list + (-i) - 1 /\ Cell(i) < fp
    BY <1>1 DEF Cell, InRange
  <2>2. arg_list \in Nat /\ fp \in Nat /\ arg_list <= fp
    BY <2>1, ArgList, StackIs
  <2>3. -i \in 1 .. fp - arg_list
    BY <1>1, <2>1, <2>2
  <2>4. Cur.args[-i] = stk[Cell(i)] /\ -i \in DOMAIN Cur.args
    BY <2>1, <2>3, CurArgs
  <2>. QED  BY <2>4, HeldOwn
<1>2. CASE i > 0
  <2>1. Cell(i) = fp + i - 1 /\ Cell(i) <= sp
    BY <1>2 DEF Cell, InRange
  <2>2. i \in 1 .. sp - fp + 1
    BY <1>2, <2>1, StackIs
  <2>3. Cur.vals[i] = stk[Cell(i)] /\ i \in DOMAIN Cur.vals
    BY <2>1, <2>2, CurVals
  <2>. QED  BY <2>3, HeldOwn
<1>. QED  BY <1>1, <1>2

\* The top of the stack is the last value of the call, its last argument, or
\* its callee.
LEMMA TopHeld ==
    ASSUME FramesNested, Callees, sp >= 1
    PROVE  stk[sp] \in Abstract!Own \/ (stk[sp].k = "func" /\ ~ HasValue)
<1>1. CASE sp >= fp
  <2>1. sp - fp + 1 \in 1 .. sp - fp + 1 /\ fp + (sp - fp + 1) - 1 = sp
    BY <1>1, StackIs
  <2>2. Cur.vals[sp - fp + 1] = stk[sp] /\ sp - fp + 1 \in DOMAIN Cur.vals
    BY <2>1, CurVals
  <2>. QED  BY <2>2, HeldOwn
<1>2. CASE sp < fp
  <2>1. sp = fp - 1 /\ Depth # 0
    BY <1>2, StackIs DEF FramesNested, Nested
  <2>2. Depth > 0 /\ arg_list \in Nat /\ 2 <= arg_list /\ arg_list <= fp /\ fp \in Nat
    BY <2>1, StackIs, ArgList
  <2>3. CASE arg_list < fp
    <3>1. fp - arg_list \in 1 .. fp - arg_list /\ arg_list + (fp - arg_list) - 1 = sp
      BY <2>1, <2>2, <2>3
    <3>2. Cur.args[fp - arg_list] = stk[sp] /\ fp - arg_list \in DOMAIN Cur.args
      BY <2>2, <3>1, CurArgs
    <3>. QED  BY <3>2, HeldOwn
  <2>4. CASE arg_list = fp
    <3>1. FnOf(Depth) = stk[sp]
      BY <2>1, <2>4 DEF FnOf, arg_list
    <3>2. Depth \in 1 .. Depth
      BY <2>2, StackIs
    <3>. QED  BY <1>2, <3>1, <3>2, StackIs DEF Callees, HasValue
  <2>. QED  BY <2>2, <2>3, <2>4
<1>. QED  BY <1>1, <1>2, StackIs

\* What _get_local() finds belongs to the call, unless it is the callee.
LEMMA LocalHeld ==
    ASSUME FramesNested, Callees, NEW i \in Int, MayGet(i), _get_local(i) # None
    PROVE  _get_local(i) \in Abstract!Own \/ _get_local(i).k = "func"
<1>1. CASE i = 0
  BY <1>1, TopHeld DEF MayGet, _get_local
<1>2. CASE i # 0
  BY <1>2, CellHeld DEF MayGet, _get_local
<1>. QED  BY <1>1, <1>2

\* A call that pushes what it can get hold of.
LEMMA PushIs ==
    ASSUME FramesNested, NEW vs \in Seq(Value), NEW r, PushAll(vs, r),
           \A i \in DOMAIN vs : vs[i] \in Abstract!Held
    PROVE  InCallStep
<1>. DEFINE c == Cur.vals
            t == c \o vs
<1>0. /\ stk' = Put(sp, vs) /\ InFrame /\ globals' = globals /\ up' = up
      /\ sp \in fp - 1 .. sp /\ Len(vs) \in Nat
  BY StackIs DEF PushAll, InFrame
<1>1. SubSeq(c, 1, sp - fp + 1) = c
  BY StackIs, FirstVals, CurVals
<1>2. Cur' = [Cur EXCEPT !.vals = t] /\ Outer' = Outer /\ (Callees => Callees')
  BY <1>0, <1>1, InFrameCalls DEF Abstract!Becomes
<1>3. Cur'.vals = t
  BY <1>2, ExceptVals DEF Cur, WithVals, CallOf
<1>4. c \in Seq(Value) /\ Len(c) \in Nat
  BY CurVals
<1>. HIDE DEF c
<1>5. t \in Seq(Value) /\ Len(t) = Len(c) + Len(vs)
  BY <1>4
<1>6. CASE Len(vs) = 0
  <2>1. t = c
    BY <1>4, <1>6
  <2>2. Cur' = Cur
    <3>1. [Cur EXCEPT !.vals = c] = Cur
      BY ExceptVals, CallIs, CallParts DEF Cur, c
    <3>. QED  BY <1>2, <2>1, <3>1
  <2>. QED  BY <1>0, <1>2, <2>2 DEF InCallStep, Abstract!InCall, Abstract!Reports
<1>7. CASE Len(vs) > 0
  <2>. DEFINE n == Len(c)
  <2>1. SubSeq(t, n + 1, Len(t)) = vs
    <3>1. t \in Seq(Value) /\ n + 1 \in Nat /\ Len(t) \in Nat /\ Len(t) - (n + 1) + 1 = Len(vs)
      BY <1>4, <1>5
    <3>. DEFINE u == SubSeq(t, n + 1, Len(t))
    <3>2. u \in Seq(Value) /\ Len(u) = Len(vs) /\ \A i \in 1 .. Len(vs) : u[i] = t[(n + 1) + i - 1]
      BY <3>1, <1>5, <1>4, CellsIs
    <3>. HIDE DEF u
    <3>3. ASSUME NEW i \in 1 .. Len(vs)
          PROVE  u[i] = vs[i]
      <4>1. (n + 1) + i - 1 = n + i /\ n + i \in 1 .. n + Len(vs) /\ ~ (n + i <= n) /\ (n + i) - n = i
        BY <1>4
      <4>2. t[n + i] = vs[i]
        BY <4>1, <1>4, ConcatProperties
      <4>. QED  BY <3>2, <4>1, <4>2
    <3>4. u = vs
      BY <3>2, <3>3, SeqEqual
    <3>. QED  BY <3>4 DEF u
  <2>2. ASSUME NEW i \in n + 1 .. Len(t)
        PROVE  t[i] \in Abstract!Held
    <3>1. i \in 1 .. n + Len(vs) /\ ~ (i <= n) /\ i - n \in DOMAIN vs
      BY <1>4, <1>5
    <3>2. t[i] = vs[i - n]
      BY <1>4, <3>1, ConcatProperties
    <3>. QED  BY <3>1, <3>2
  <2>3. Len(t) > n
    BY <1>4, <1>5, <1>7
  <2>4. Abstract!Pushes
    <3>. HIDE DEF t
    <3>. QED  BY <1>0, <1>2, <1>3, <2>1, <2>2, <2>3 DEF Abstract!Pushes, Abstract!Becomes, c, t
  <2>. QED  BY <1>2, <2>4 DEF InCallStep, Abstract!InCall
<1>. QED  BY <1>0, <1>6, <1>7

\* The same for one value.
LEMMA PushOneIs ==
    ASSUME FramesNested, NEW v \in Value, v \in Abstract!Held, NEW r, PushAll(<<v>>, r)
    PROVE  InCallStep
<1>1. <<v>> \in Seq(Value) /\ DOMAIN <<v>> = {1} /\ <<v>>[1] = v
  OBVIOUS
<1>. QED  BY <1>1, PushIs

\* A sequence of which a part is exchanged at the end.
LEMMA EndReplaced ==
    ASSUME NEW S, NEW c \in Seq(S), NEW n \in Nat, n <= Len(c), NEW vs \in Seq(S),
           NEW t \in Seq(S), Len(t) = n + Len(vs),
           \A i \in 1 .. n : t[i] = c[i], \A i \in 1 .. Len(vs) : t[n + i] = vs[i]
    PROVE  SubSeq(c, 1, n) \o vs = t
<1>. DEFINE u == SubSeq(c, 1, n)
            w == u \o vs
<1>1. u \in Seq(S) /\ Len(u) = n /\ \A i \in 1 .. n : u[i] = c[i]
  BY PrefixIs
<1>. HIDE DEF u
<1>2. w \in Seq(S) /\ Len(w) = n + Len(vs)
      /\ \A i \in 1 .. n + Len(vs) : w[i] = IF i <= n THEN u[i] ELSE vs[i - n]
  BY <1>1, ConcatProperties, ZenonT(30)
<1>. HIDE DEF w
<1>3. ASSUME NEW i \in 1 .. n + Len(vs)
      PROVE  w[i] = t[i]
  <2>1. CASE i <= n
    <3>1. i \in 1 .. n
      BY <2>1
    <3>2. w[i] = u[i] /\ u[i] = c[i] /\ t[i] = c[i]
      BY <1>1, <1>2, <2>1, <3>1
    <3>. QED  BY <3>2
  <2>2. CASE ~ (i <= n)
    <3>1. i - n \in 1 .. Len(vs) /\ n + (i - n) = i
      BY <2>2
    <3>2. t[n + (i - n)] = vs[i - n]
      BY <3>1
    <3>. QED  BY <1>2, <2>2, <3>1, <3>2
  <2>. QED  BY <2>1, <2>2
<1>4. w = t
  BY <1>2, <1>3, SeqEqual
<1>. QED  BY <1>4 DEF w, u

\* A step within the frame exchanges the top of the call's values.
LEMMA ExchangeTop ==
    ASSUME FramesNested, InFrame, NEW n \in Nat, n <= Len(Cur.vals), NEW vs \in Seq(Value),
           stk' = Put(fp - 1 + n, vs),
           NEW t \in Seq(Value), Len(t) = n + Len(vs),
           \A i \in 1 .. n : t[i] = Cur.vals[i], \A i \in 1 .. Len(vs) : t[n + i] = vs[i]
    PROVE  Abstract!Becomes(t) /\ (Callees => Callees')
<1>1. fp - 1 + n \in fp - 1 .. sp /\ (fp - 1 + n) - fp + 1 = n
  BY CurVals, StackIs, SMTT(30)
<1>2. /\ Abstract!Becomes(SubSeq(Cur.vals, 1, n) \o vs)
      /\ Callees => Callees'
  BY <1>1, InFrameCalls
<1>3. SubSeq(Cur.vals, 1, n) \o vs = t
  <2>. DEFINE c == Cur.vals
  <2>1. c \in Seq(Value) /\ n <= Len(c) /\ \A i \in 1 .. n : t[i] = c[i]
    BY CurVals
  <2>. HIDE DEF c
  <2>2. SubSeq(c, 1, n) \o vs = t
    BY <2>1, EndReplaced
  <2>. QED  BY <2>2 DEF c
<1>. QED  BY <1>2, <1>3

-----------------------------------------------------------------------------
(* The API functions as functions of the innermost call *)

\* How many elements of width w a container gets of L values, if c are asked for:
\* n, which take up a values or, of an odd number, one less.
Fitted(L, c, w, a, n) ==
    a \in Nat /\ a <= L /\ n * w = a - (a % w) /\ n * w \in Nat /\ n * w <= a

LEMMA Fitting ==
    ASSUME NEW L \in Nat, NEW c \in Nat, NEW w \in {1, 2},
           NEW a, a = (IF c * w < L THEN c * w ELSE L),
           NEW n, n = (IF L < c * w THEN L \div w ELSE c)
    PROVE  Fitted(L, c, w, a, n)
<1>. USE DEF Fitted
<1>1. CASE w = 1
  <2>1. c * w = c /\ L \div w = L
    BY <1>1
  <2>2. a \in Nat /\ a <= L /\ n = a
    BY <2>1
  <2>. QED  BY <1>1, <2>2
<1>2. CASE w = 2
  <2>1. c * w = 2 * c /\ L \div w = L \div 2
    BY <1>2
  <2>2. CASE L < 2 * c
    BY <1>2, <2>1, <2>2
  <2>3. CASE ~ (L < 2 * c)
    <3>1. a = 2 * c /\ n = c
      BY <2>1, <2>3
    <3>. QED  BY <1>2, <2>3, <3>1
  <2>. QED  BY <2>2, <2>3
<1>. QED  BY <1>1, <1>2

\* Making a container takes its elements off the end of the call's values.
LEMMA MakeIs ==
    ASSUME FramesNested, NEW k \in Made, NEW count \in Count, Make(k, count)
    PROVE  InCallStep
<1>. DEFINE first == sp - count * Width(k) + 1
            data == IF first < fp THEN fp ELSE first
            n == IF first < fp THEN (sp - data + 1) \div Width(k) ELSE count
            of == [i \in 1 .. n * Width(k) |-> stk[data + i - 1]]
            v == Container(k, of)
            L == Len(Cur.vals)
            a == Abstract!Least(count * Abstract!Width(k), L)
            m == L - a
            aof == [i \in 1 .. a - (a % Abstract!Width(k)) |-> Cur.vals[m + i]]
            av == Abstract!Container(k, aof)
<1>0. sp \in Nat /\ fp \in Nat /\ 1 <= fp /\ fp <= sp + 1 /\ count \in Nat /\ L = sp - fp + 1
      /\ Width(k) \in {1, 2} /\ k \in ContainerKinds
  BY StackIs, CurVals, ClientNumbers, ValuesAssumption DEF Width
<1>1. /\ \A i \in DOMAIN of : of[i] \in Elems
      /\ stk' = Put(data - 1, <<v>>) /\ InFrame /\ globals' = globals /\ ret' = ret /\ up' = up
  BY DEF Make, Returns, InFrame
<1>2. Abstract!Width(k) = Width(k) /\ av = Container(k, aof)
  BY SameValues
<1>3. /\ a \in Nat /\ a <= L /\ m \in Nat /\ data - 1 = fp - 1 + m
      /\ n * Width(k) = a - (a % Width(k)) /\ n * Width(k) \in Nat /\ n * Width(k) <= a
  <2>. DEFINE w == Width(k)
  <2>1. L \in Nat /\ w \in {1, 2}
    BY <1>0
  <2>2. count * w \in Nat
    BY <1>0
  <2>. HIDE DEF w
  <2>3. (first < fp) = (L < count * w) /\ first = sp - count * w + 1
    BY <1>0, <2>2 DEF w
  <2>4. a = IF count * w < L THEN count * w ELSE L
    BY <1>2 DEF Abstract!Least, w
  <2>5. n = IF L < count * w THEN L \div w ELSE count
    BY <1>0, <2>3 DEF w
  <2>. HIDE DEF a, n
  <2>6. a \in Nat /\ a <= L /\ n * w = a - (a % w) /\ n * w \in Nat /\ n * w <= a
    <3>. HIDE DEF L
    <3>1. L \in Nat /\ w \in {1, 2} /\ count \in Nat
      BY <1>0, <2>1
    <3>2. Fitted(L, count, w, a, n)
      BY <2>4, <2>5, <3>1, Fitting
    <3>. QED  BY <3>2 DEF Fitted
  <2>7. m \in Nat /\ data - 1 = fp - 1 + m
    <3>1. CASE first < fp
      <4>1. a = L
        BY <1>0, <2>2, <2>3, <2>4, <3>1
      <4>2. data = fp /\ fp \in Nat /\ L \in Nat
        BY <1>0, <2>1, <3>1
      <4>. HIDE DEF L, data
      <4>3. m = 0
        BY <4>1, <4>2
      <4>. HIDE DEF m
      <4>. QED  BY <4>2, <4>3
    <3>2. CASE ~ (first < fp)
      <4>1. a = count * w
        BY <1>0, <2>2, <2>3, <2>4, <3>2, SMTT(30)
      <4>. QED  BY <1>0, <2>2, <2>3, <3>2, <4>1, SMTT(30)
    <3>. QED  BY <3>1, <3>2
  <2>. QED  BY <2>6, <2>7 DEF w
<1>4. aof = of
  <2>. DEFINE w == n * Width(k)
  <2>1. \A i \in 1 .. w : Cur.vals[m + i] = stk[data + i - 1]
    <3>. SUFFICES ASSUME NEW i \in 1 .. w
                  PROVE  Cur.vals[m + i] = stk[data + i - 1]
      OBVIOUS
    <3>1. m + i \in 1 .. sp - fp + 1 /\ fp + (m + i) - 1 = data + i - 1
      <4>1. w <= a /\ w \in Nat /\ a \in Nat /\ a <= L /\ m \in Nat /\ m = L - a
            /\ data - 1 = fp - 1 + m /\ i \in 1 .. w
        BY <1>3
      <4>2. data \in Int
        BY <1>0
      <4>. HIDE DEF data, a, w, m, L
      <4>. QED  BY <1>0, <4>1, <4>2
    <3>. QED  BY <3>1, CurVals
  <2>. QED  BY <2>1, <1>2, <1>3
<1>5. v = av /\ v \in Value
  <2>1. of \in Seq(Atoms)
    <3>1. \A i \in 1 .. n * Width(k) : of[i] \in Atoms
      BY <1>1, ValuesAssumption
    <3>. HIDE DEF n
    <3>. QED  BY <3>1, <1>3
  <2>. QED  BY <1>0, <1>2, <1>4, <2>1 DEF Container, Value
<1>6. stk' = Put(fp - 1 + m, <<v>>)
  BY <1>1, <1>3
<1>7. Abstract!Becomes(Append(SubSeq(Cur.vals, 1, m), v)) /\ (Callees => Callees')
  <2>. DEFINE u == SubSeq(Cur.vals, 1, m)
              t == Append(u, v)
  <2>1. m \in Nat /\ m <= L
    BY <1>0, <1>3
  <2>. HIDE DEF m, v
  <2>2. u \in Seq(Value) /\ Len(u) = m /\ \A i \in 1 .. m : u[i] = Cur.vals[i]
    BY <2>1, CurVals, PrefixIs
  <2>. HIDE DEF u
  <2>3. t \in Seq(Value) /\ Len(t) = m + 1 /\ \A i \in 1 .. m : t[i] = Cur.vals[i] /\ t[m + 1] = v
    BY <1>5, <2>1, <2>2
  <2>4. <<v>> \in Seq(Value) /\ Len(<<v>>) = 1 /\ \A i \in 1 .. 1 : i = 1 /\ <<v>>[1] = v
    BY <1>5
  <2>5. t[m + 1] = v
    BY <1>5, <2>1, <2>2
  <2>. HIDE DEF t
  <2>6. Abstract!Becomes(t) /\ (Callees => Callees')
    <3>1. \A i \in 1 .. Len(<<v>>) : t[m + i] = <<v>>[i]
      BY <2>4, <2>5
    <3>. QED  BY <1>1, <1>6, <2>1, <2>3, <2>4, <3>1, ExchangeTop, ZenonT(60)
  <2>. QED  BY <2>6 DEF t, u
<1>. HIDE DEF v, m
<1>8. Abstract!Makes(k, count)
  <2>1. Abstract!Becomes(Append(SubSeq(Cur.vals, 1, m), av))
    BY <1>5, <1>7
  <2>. QED  BY <1>1, <2>1 DEF Abstract!Makes, Abstract!Prefix, m
<1>9. Outer' = Outer
  BY <1>7 DEF Abstract!Becomes
<1>. QED  BY <1>0, <1>7, <1>8, <1>9, SameValues DEF InCallStep, Abstract!InCall

\* An incremental owiz_make_module: the top is exchanged for a module, or an
\* exception.
LEMMA ReplaceIs ==
    ASSUME FramesNested, HasValue, InFrame, NEW v \in {Mod, Exc},
           stk' = Put(sp - 1, <<v>>), globals' = globals
    PROVE  InCallStep
<1>. DEFINE L == Len(Cur.vals)
            t == [Cur.vals EXCEPT ![L] = v]
            n == L - 1
<1>0. /\ L \in Nat /\ L = sp - fp + 1 /\ sp >= fp /\ sp \in Nat /\ fp \in Nat
      /\ Cur.vals \in Seq(Value) /\ v \in Value
  BY StackIs, CurVals, AtomsAreValues DEF HasValue
<1>1. n \in Nat /\ n <= L /\ sp - 1 = fp - 1 + n /\ L > 0 /\ L \in 1 .. L /\ n + 1 = L
  BY <1>0
<1>2. t \in Seq(Value) /\ Len(t) = n + 1 /\ t[L] = v /\ \A i \in 1 .. n : t[i] = Cur.vals[i]
  BY <1>0, <1>1
<1>3. <<v>> \in Seq(Value) /\ Len(<<v>>) = 1 /\ \A i \in 1 .. Len(<<v>>) : t[n + i] = <<v>>[i]
  BY <1>0, <1>1, <1>2
<1>. HIDE DEF n, t
<1>4. Abstract!Becomes(t) /\ (Callees => Callees')
  <2>1. stk' = Put(fp - 1 + n, <<v>>)
    BY <1>1
  <2>. QED  BY <1>1, <1>2, <1>3, <2>1, ExchangeTop
<1>5. Abstract!Replaces
  <2>1. Cur.vals # <<>>
    BY <1>0, <1>1
  <2>. QED  BY <1>4, <2>1, SameValues DEF Abstract!Replaces, t, InFrame
<1>. QED  BY <1>4, <1>5 DEF InCallStep, Abstract!InCall, Abstract!Becomes

\* owiz_swap: the last two values change places.
LEMMA SwapIs ==
    ASSUME FramesNested, Swap
    PROVE  InCallStep
<1>. DEFINE L == Len(Cur.vals)
            c == Cur.vals
            t == [c EXCEPT ![L] = c[L - 1], ![L - 1] = c[L]]
            n == L - 2
            vs == <<stk[sp], stk[sp - 1]>>
<1>0. /\ sp > fp /\ stk' = Put(sp - 2, vs) /\ InFrame /\ globals' = globals
      /\ L \in Nat /\ L = sp - fp + 1 /\ sp \in Nat /\ fp \in Nat /\ c \in Seq(Value)
  BY StackIs, CurVals DEF Swap
<1>1. n \in Nat /\ n <= L /\ sp - 2 = fp - 1 + n /\ L > 1 /\ n + 2 = L /\ n + 1 = L - 1
      /\ L \in 1 .. L /\ L - 1 \in 1 .. L
  BY <1>0
<1>2. c[L] = stk[sp] /\ c[L - 1] = stk[sp - 1]
  <2>1. L \in 1 .. sp - fp + 1 /\ L - 1 \in 1 .. sp - fp + 1
        /\ fp + L - 1 = sp /\ fp + (L - 1) - 1 = sp - 1
    BY <1>0, <1>1
  <2>. QED  BY <2>1, CurVals
<1>3. Len(c) = L
  OBVIOUS
<1>. HIDE DEF L, c
<1>4. c[L] \in Value /\ c[L - 1] \in Value
  BY <1>0, <1>1, <1>3, ElementIn
<1>5. t \in Seq(Value) /\ Len(t) = n + 2 /\ t[L] = c[L - 1] /\ t[L - 1] = c[L]
      /\ \A i \in 1 .. n : t[i] = c[i]
  <2>. HIDE DEF n
  <2>1. L - 1 # L /\ \A i \in 1 .. n : i \in 1 .. L /\ i # L /\ i # L - 1
    BY <1>0, <1>1
  <2>2. t \in Seq(Value) /\ Len(t) = L
    BY <1>0, <1>1, <1>4, <1>3, SMTT(30)
  <2>3. \A i \in 1 .. L : t[i] = IF i = L - 1 THEN c[L] ELSE IF i = L THEN c[L - 1] ELSE c[i]
    BY <1>0, <1>1, <1>3, SMTT(30)
  <2>. HIDE DEF t
  <2>. QED  BY <1>1, <2>1, <2>2, <2>3
<1>6. vs \in Seq(Value) /\ Len(vs) = 2 /\ vs[1] = c[L] /\ vs[2] = c[L - 1]
  BY <1>2, <1>4
<1>. HIDE DEF n, t, vs
<1>7. \A i \in 1 .. Len(vs) : t[n + i] = vs[i]
  <2>1. \A i \in 1 .. 2 : i = 1 \/ i = 2
    OBVIOUS
  <2>. QED  BY <1>1, <1>5, <1>6, <2>1
<1>8. Abstract!Becomes(t) /\ (Callees => Callees')
  <2>1. stk' = Put(fp - 1 + n, vs)
    BY <1>0, <1>1
  <2>2. n <= Len(Cur.vals) /\ \A i \in 1 .. n : t[i] = Cur.vals[i]
    BY <1>1, <1>5 DEF L, c
  <2>3. Len(t) = n + Len(vs)
    BY <1>5, <1>6
  <2>. QED  BY <1>0, <1>1, <1>5, <1>6, <1>7, <2>1, <2>2, <2>3, ExchangeTop
<1>9. Abstract!Replaces
  <2>1. Cur.vals # <<>>
    BY <1>0, <1>1 DEF L, c
  <2>. QED  BY <1>0, <1>1, <1>8, <2>1 DEF Abstract!Replaces, t, c, L, InFrame
<1>. QED  BY <1>8, <1>9 DEF InCallStep, Abstract!InCall, Abstract!Becomes

\* The functions that push.
LEMMA PushesAre ==
    ASSUME FramesNested, Callees, ClientPushes
    PROVE  InCallStep
<1>1. CASE \E v \in Pushable : Push(v)
  BY <1>1, PushOneIs, HeldFresh, AtomsAreValues, ValuesAssumption DEF Push
<1>2. CASE \E k \in Made, n \in 0 .. MaxElems : Make(k, n)
  <2>1. 0 .. MaxElems \subseteq Count
    BY BoundsAssumption DEF Count
  <2>. QED  BY <1>2, <2>1, MakeIs
<1>3. CASE MakeException
  BY <1>3, PushOneIs, HeldFresh, AtomsAreValues DEF MakeException
<1>4. CASE \E incr, ok \in BOOLEAN : MakeModule(incr, ok)
  <2>. PICK incr \in BOOLEAN, ok \in BOOLEAN : MakeModule(incr, ok)
    BY <1>4
  <2>. DEFINE v == IF ok THEN Mod ELSE Exc
  <2>1. v \in Value /\ v \in {Mod, Exc} /\ v \in Abstract!Held
    BY AtomsAreValues, HeldFresh
  <2>2. CASE incr
    BY <2>1, <2>2, ReplaceIs DEF MakeModule
  <2>3. CASE ~ incr
    <3>1. PushAll(<<v>>, IF ok THEN 0 ELSE ErrFail)
      <4>1. Len(<<v>>) = 1
        OBVIOUS
      <4>. QED  BY <2>3, <4>1 DEF MakeModule, PushAll
    <3>. HIDE DEF v
    <3>. QED  BY <2>1, <3>1, PushOneIs
  <2>. QED  BY <2>2, <2>3
<1>5. CASE \E n \in Count : Dup(n)
  <2>. PICK n \in Count : Dup(n)
    BY <1>5
  <2>1. n \in Nat /\ stk[sp] \in Value /\ HasValue
    BY ClientNumbers, TopIn DEF Dup
  <2>2. stk[sp] \in Abstract!Held
    BY <2>1, TopHeld, HeldOwn, StackIs DEF HasValue
  <2>. DEFINE vs == [i \in 1 .. n |-> stk[sp]]
  <2>3. vs \in Seq(Value) /\ \A i \in DOMAIN vs : vs[i] \in Abstract!Held
    BY <2>1, <2>2
  <2>4. PushAll(vs, ret)
    BY DEF Dup
  <2>. HIDE DEF vs
  <2>. QED  BY <2>3, <2>4, PushIs
<1>6. CASE Swap
  BY <1>6, SwapIs
<1>7. CASE \E i \in Index : LoadLocal(i)
  <2>. PICK i \in Index : LoadLocal(i)
    BY <1>7
  <2>1. CASE i # 0 /\ InRange(i)
    <3>1. i \in Int /\ (i < 0 => Depth > 0) /\ PushAll(<<stk[Cell(i)]>>, 0)
      BY <2>1, ClientNumbers DEF LoadLocal
    <3>2. stk[Cell(i)] \in Value /\ stk[Cell(i)] \in Abstract!Held
      BY <2>1, <3>1, CellInStack, CellHeld, HeldOwn
    <3>. QED  BY <3>1, <3>2, PushOneIs
  <2>2. CASE ~ (i # 0 /\ InRange(i))
    BY <2>2, FailsIs DEF LoadLocal
  <2>. QED  BY <2>1, <2>2
<1>8. CASE \E n \in Names : LoadGlobal(n)
  <2>. PICK n \in Names : LoadGlobal(n)
    BY <1>8
  <2>1. globals[n] \in Abstract!Held /\ Base[n] \in Abstract!Held
    BY HeldFresh
  <2>. QED  BY <2>1, GlobalIn, PushOneIs, FailsIs DEF LoadGlobal
<1>9. CASE \E i \in Index : LoadAttribute(i)
  <2>1. \A n \in Names : globals[n] \in Abstract!Held
    BY HeldFresh
  <2>. QED  BY <1>9, <2>1, GlobalIn, PushOneIs, FailsIs DEF LoadAttribute
<1>. QED
  BY <1>1, <1>2, <1>3, <1>4, <1>5, <1>6, <1>7, <1>8, <1>9 DEF ClientPushes

\* What _get_local() finds with parts in it belongs to the call.
LEMMA LocalParts ==
    ASSUME FramesNested, Callees, NEW i \in Index, MayGet(i),
           _get_local(i) # None, _get_local(i).k # "func"
    PROVE  /\ _get_local(i) \in Value
           /\ \A j \in DOMAIN _get_local(i).of : _get_local(i).of[j] \in Abstract!Held
<1>. DEFINE v == _get_local(i)
<1>1. v \in Value /\ v \in Abstract!Own
  BY LocalHeld, GetLocal, ClientNumbers
<1>. HIDE DEF v
<1>2. \A j \in DOMAIN v.of : v.of[j] \in Abstract!Held
  BY <1>1, HeldOwn
<1>. QED  BY <1>1, <1>2 DEF v

\* Pushing all entries of a set or a map.
LEMMA EntriesPushed ==
    ASSUME FramesNested, NEW v \in Value, v.k \in {"set", "map"},
           \A j \in DOMAIN v.of : v.of[j] \in Abstract!Held,
           NEW e \in Orders(v), NEW r, PushAll(Entries(v, e), r)
    PROVE  InCallStep
<1>1. Entries(v, e) \in Seq(Value)
  BY EntriesAreValues
<1>2. Entries(v, e) \in Seq(Abstract!Held)
  <2>1. v.of \in Seq(Atoms)
    BY ContainerHolds DEF ContainerKinds
  <2>2. \A j \in 1 .. Len(v.of) : v.of[j] \in Abstract!Held
    BY <2>1
  <2>. QED  BY <2>2, EntriesFrom
<1>. DEFINE vs == Entries(v, e)
<1>. HIDE DEF vs
<1>3. \A i \in DOMAIN vs : vs[i] \in Abstract!Held
  BY <1>2, ElementIn DEF vs
<1>. QED  BY <1>1, <1>3, PushIs DEF vs

\* An aborted process does nothing.
LEMMA AbortIs ==
    ASSUME up' = FALSE, UNCHANGED <<stk, fp, frames, jb, globals, ret>>
    PROVE  InCallStep
<1>1. Cur' = Cur /\ Outer' = Outer /\ (Callees => Callees')
  BY StackStays
<1>. QED  BY <1>1 DEF InCallStep, Abstract!InCall, Abstract!Aborts

\* The functions that read.
LEMMA ReadsAre ==
    ASSUME FramesNested, Callees, ClientReads
    PROVE  InCallStep
<1>1. CASE ReadScalar
  BY <1>1, FailsIs DEF ReadScalar
<1>2. CASE \E i \in Index, k \in {"array", "tuple"} : ReadElems(i, k)
  <2>. PICK i \in Index, k \in {"array", "tuple"} : ReadElems(i, k)
    BY <1>2
  <2>. DEFINE v == _get_local(i)
  <2>1. CASE v = None \/ v.k # k
    BY <2>1, FailsIs DEF ReadElems
  <2>2. CASE v # None /\ v.k = k
    <3>1. v \in Value /\ v.k \in ContainerKinds
          /\ \A j \in DOMAIN v.of : v.of[j] \in Abstract!Held
      BY <2>2, LocalParts DEF ReadElems, ContainerKinds
    <3>2. v.of \in Seq(Atoms) /\ v.of \in Seq(Value)
      BY <3>1, ContainerHolds, AtomsAreValues
    <3>3. PICK e \in -1 .. MaxCount :
             \/ e \in 1 .. Len(v.of) /\ PushAll(<<v.of[e]>>, 0)
             \/ e = 0 /\ Fails(Len(v.of))
             \/ e = -1 /\ PushAll(v.of, Len(v.of))
             \/ e > Len(v.of) /\ Fails(ErrFail)
      BY <2>2 DEF ReadElems
    <3>4. e \in 1 .. Len(v.of) => v.of[e] \in Value /\ v.of[e] \in Abstract!Held
      BY <3>1, <3>2, ElementIn
    <3>. HIDE DEF v
    <3>. QED  BY <3>1, <3>2, <3>3, <3>4, PushOneIs, PushIs, FailsIs
  <2>. QED  BY <2>1, <2>2
<1>3. CASE \E i \in Index : ReadSet(i)
  <2>. PICK i \in Index : ReadSet(i)
    BY <1>3
  <2>. DEFINE v == _get_local(i)
  <2>1. CASE v = None \/ v.k # "set"
    BY <2>1, FailsIs DEF ReadSet
  <2>2. CASE v # None /\ v.k = "set"
    <3>1. v \in Value /\ v.k \in {"set", "map"}
          /\ \A j \in DOMAIN v.of : v.of[j] \in Abstract!Held
      BY <2>2, LocalParts DEF ReadSet
    <3>2. PICK e \in Orders(v) :
             Fails(Len(e)) \/ PushAll(Entries(v, e), Len(e)) \/ Fails(ErrArg)
      BY <2>2 DEF ReadSet
    <3>. HIDE DEF v
    <3>. QED  BY <3>1, <3>2, EntriesPushed, FailsIs
  <2>. QED  BY <2>1, <2>2
<1>4. CASE \E i \in Index : ReadMap(i)
  <2>. PICK i \in Index : ReadMap(i)
    BY <1>4
  <2>. DEFINE v == _get_local(i)
  <2>1. CASE v = None \/ v.k # "map"
    BY <2>1, FailsIs DEF ReadMap
  <2>2. CASE v # None /\ v.k = "map"
    <3>1. v \in Value /\ v.k \in {"set", "map"}
          /\ \A j \in DOMAIN v.of : v.of[j] \in Abstract!Held
      BY <2>2, LocalParts DEF ReadMap
    <3>2. v.of \in Seq(Atoms)
      BY <3>1, ContainerHolds DEF ContainerKinds
    <3>3. \/ \E p \in Latest(v) : PushAll(<<v.of[p + 1]>>, 0)
          \/ Fails(ErrFail)
          \/ \E e \in Orders(v) : Fails(Len(e)) \/ PushAll(Entries(v, e), Len(e))
      BY <2>2 DEF ReadMap
    <3>4. ASSUME NEW p \in Latest(v)
          PROVE  v.of[p + 1] \in Value /\ v.of[p + 1] \in Abstract!Held
      <4>1. p + 1 \in 1 .. Len(v.of)
        BY <2>2, <3>1, <3>2 DEF Latest, Positions, Width
      <4>. QED  BY <4>1, <3>1, <3>2, ElementIn, AtomsAreValues
    <3>. HIDE DEF v
    <3>. QED  BY <3>1, <3>3, <3>4, PushOneIs, EntriesPushed, FailsIs
  <2>. QED  BY <2>1, <2>2
<1>5. CASE \E i \in Index : ReadException(i)
  BY <1>5, AtomsAreValues, HeldFresh, PushOneIs, FailsIs DEF ReadException
<1>6. CASE \E fmt \in Formats, ignil, mkexc \in BOOLEAN : ReadArgs(fmt, ignil, mkexc)
  <2>. PICK fmt \in Formats, ignil \in BOOLEAN, mkexc \in BOOLEAN :
              ReadArgs(fmt, ignil, mkexc)
    BY <1>6
  <2>1. PICK st \in [DOMAIN fmt -> {0, StrLen, ErrFail, ErrArg, ErrIndex, ErrType}] :
          \/ Fails(0)
          \/ \E j \in DOMAIN fmt :
                \/ PushAll(<<Exc>>, ErrFail)
                \/ up' = FALSE /\ UNCHANGED <<stk, fp, frames, jb, globals, ret>>
                \/ Fails(st[j])
    BY DEF ReadArgs, Stops
  <2>. QED  BY <2>1, AbortIs, AtomsAreValues, HeldFresh, PushOneIs, FailsIs
<1>7. CASE ReadArgc
  BY <1>7, FailsIs DEF ReadArgc
<1>. QED
  BY <1>1, <1>2, <1>3, <1>4, <1>5, <1>6, <1>7 DEF ClientReads

-----------------------------------------------------------------------------
(* Storing and dropping *)

\* A step that keeps the frame infos and the cells up to the callee leaves the
\* calls further out alone, and of the innermost call the callee and the mark.
LEMMA OuterStays ==
    ASSUME FramesNested, UNCHANGED <<fp, frames, jb>>, stk' \in Seq(Value),
           Depth > 0 => Same(stk, stk', arg_list - 1)
    PROVE  /\ Outer' = Outer /\ (Callees => Callees')
           /\ Cur' = CallOf(Cur.fn,
                            IF Depth = 0 THEN <<>> ELSE SubSeq(stk', arg_list, fp - 1),
                            SubSeq(stk', fp, Len(stk')), Cur.mark, Cur.noret)
<1>0. Depth' = Depth /\ Depth \in Nat /\ stk \in Seq(Value) /\ fp \in Nat /\ 1 <= fp
  BY StackIs DEF Depth
<1>1. \A d \in 0 .. Depth : FrameStays(d)
  BY <1>0 DEF FrameStays, FpOf
<1>2. ASSUME NEW d \in 0 .. Depth, d < Depth
      PROVE  CallAt(d)' = CallAt(d) /\ FnOf(d)' = FnOf(d)
  <2>1. Depth \in 1 .. Depth /\ Depth - 1 \in 0 .. Depth /\ Depth > 0 /\ Depth \in 0 .. Depth
    BY <1>0, <1>2
  <2>2. arg_list \in Nat /\ 2 <= arg_list
    BY <2>1, FrameIs DEF arg_list
  <2>3. EndOf(d) \in Nat /\ EndOf(d) <= arg_list - 2 /\ EndOf(d) = frames[d + 1].argl - 2
    <3>1. EndOf(d) = frames[d + 1].argl - 2 /\ EndOf(d) \in Nat
      BY <1>2, FrameBounds
    <3>2. CASE d = Depth - 1
      BY <1>0, <2>2, <3>1, <3>2 DEF arg_list
    <3>3. CASE d # Depth - 1
      <4>1. d + 1 \in 1 .. Depth /\ d + 1 \in 0 .. Depth /\ d + 1 <= Depth - 1
        BY <1>0, <1>2, <3>3
      <4>. DEFINE e == d + 1
      <4>2. frames[e].argl <= FpOf(e) /\ frames[e].argl \in Nat /\ FpOf(e) <= FpOf(Depth - 1)
            /\ FpOf(e) \in Nat /\ FpOf(Depth - 1) \in Nat
        BY <4>1, <2>1, FrameIs, FrameBase, FrameOrder
      <4>3. FpOf(Depth - 1) < arg_list
        BY <2>1, FrameBase DEF arg_list
      <4>. HIDE DEF e
      <4>4. frames[e].argl - 2 <= arg_list - 2
        BY <2>2, <4>2, <4>3
      <4>. QED  BY <3>1, <4>4 DEF e
    <3>. QED  BY <3>2, <3>3
  <2>4. Same(stk, stk', EndOf(d))
    BY <2>1, <2>2, <2>3, SMTT(30) DEF Same
  <2>. QED  BY <1>0, <1>1, <1>2, <2>4, WaitingStays
<1>3. Outer' = Outer
  <2>1. Outer' = [d \in 1 .. Depth |-> CallAt(d - 1)']
    BY <1>0 DEF Outer
  <2>2. \A d \in 1 .. Depth : d - 1 \in 0 .. Depth /\ d - 1 < Depth
    BY <1>0
  <2>3. \A d \in 1 .. Depth : CallAt(d - 1)' = CallAt(d - 1)
    BY <1>2, <2>2
  <2>. QED  BY <2>1, <2>3 DEF Outer
<1>4. FnOf(Depth)' = FnOf(Depth)
  <2>1. CASE Depth = 0
    BY <2>1, <1>0 DEF FnOf
  <2>2. CASE Depth # 0
    <3>1. arg_list \in Nat /\ 2 <= arg_list /\ Same(stk, stk', arg_list - 1)
      BY <2>2, <1>0, ArgList
    <3>2. stk'[arg_list - 1] = stk[arg_list - 1]
      BY <3>1 DEF Same
    <3>. QED  BY <1>0, <2>2, <3>2 DEF FnOf, arg_list
  <2>. QED  BY <2>1, <2>2
<1>5. Callees => Callees'
  <2>. SUFFICES ASSUME Callees, NEW d \in 1 .. Depth
                PROVE  FnOf(d)'.k = "func"
    BY <1>0 DEF Callees
  <2>1. FnOf(d)' = FnOf(d)
    <3>1. CASE d = Depth
      BY <1>4, <3>1, <1>0 DEF FnOf
    <3>2. CASE d # Depth
      <4>1. d \in 0 .. Depth /\ d < Depth
        BY <1>0, <3>2
      <4>. QED  BY <1>2, <4>1
    <3>. QED  BY <3>1, <3>2
  <2>. QED  BY <2>1 DEF Callees
<1>6. Cur' = CallOf(Cur.fn,
                    IF Depth = 0 THEN <<>> ELSE SubSeq(stk', arg_list, fp - 1),
                    SubSeq(stk', fp, Len(stk')), Cur.mark, Cur.noret)
  <2>1. FpOf(Depth)' = fp /\ EndOf(Depth)' = Len(stk') /\ FpOf(Depth) = fp
    BY <1>0 DEF FpOf, EndOf, sp
  <2>2. ValsOf(Depth)' = SubSeq(stk', fp, Len(stk'))
    BY <2>1 DEF ValsOf
  <2>3. ArgsOf(Depth)' = IF Depth = 0 THEN <<>> ELSE SubSeq(stk', arg_list, fp - 1)
    BY <1>0, <2>1 DEF ArgsOf, arg_list
  <2>4. MarkOf(Depth)' = MarkOf(Depth) /\ NoretOf(Depth)' = NoretOf(Depth)
    BY <1>0 DEF MarkOf, NoretOf
  <2>5. Cur' = CallAt(Depth)'
    BY DEF Cur
  <2>6. CallAt(Depth)' = CallOf(FnOf(Depth)', ArgsOf(Depth)', ValsOf(Depth)',
                                MarkOf(Depth)', NoretOf(Depth)')
    BY <1>0 DEF CallAt, CallOf, FnOf, ArgsOf, ValsOf, MarkOf, NoretOf
  <2>7. Cur.fn = FnOf(Depth) /\ Cur.mark = MarkOf(Depth) /\ Cur.noret = NoretOf(Depth)
    BY CallParts DEF Cur
  <2>. QED  BY <1>4, <2>2, <2>3, <2>4, <2>5, <2>6, <2>7
<1>. QED  BY <1>3, <1>5, <1>6

\* A run of cells after the top has been popped into one of them, or not.
LEMMA RunOfPopTo ==
    ASSUME stk \in Seq(Value), sp >= 1, NEW p \in Nat, 1 <= p,
           NEW a \in Nat, NEW b \in Nat, 1 <= a, a - 1 <= b, b <= sp - 1
    PROVE  /\ SubSeq(PopTo(p), a, b) \in Seq(Value)
           /\ Len(SubSeq(PopTo(p), a, b)) = b - a + 1
           /\ \A i \in 1 .. b - a + 1 : SubSeq(PopTo(p), a, b)[i]
                 = IF a + i - 1 = p THEN stk[sp] ELSE stk[a + i - 1]
<1>. DEFINE t == PopTo(p)
            u == SubSeq(t, a, b)
<1>0. sp \in Nat /\ sp = Len(stk) /\ sp - 1 \in Nat
  BY DEF sp
<1>1. t \in Seq(Value) /\ Len(t) = sp - 1
  <2>1. \A i \in 1 .. sp - 1 : (IF i = p THEN stk[sp] ELSE stk[i]) \in Value
    BY <1>0, ElementIn
  <2>. QED  BY <1>0, <2>1 DEF PopTo
<1>2. \A i \in 1 .. sp - 1 : t[i] = IF i = p THEN stk[sp] ELSE stk[i]
  BY DEF PopTo
<1>. HIDE DEF t
<1>3. u \in Seq(Value) /\ Len(u) = b - a + 1
      /\ \A i \in 1 .. b - a + 1 : u[i] = t[a + i - 1]
  BY <1>0, <1>1, CellsIs
<1>. HIDE DEF u
<1>4. ASSUME NEW i \in 1 .. b - a + 1
      PROVE  u[i] = IF a + i - 1 = p THEN stk[sp] ELSE stk[a + i - 1]
  <2>1. a + i - 1 \in 1 .. sp - 1
    BY <1>0
  <2>. QED  BY <1>2, <1>3, <2>1
<1>. QED  BY <1>3, <1>4 DEF u, t

\* owiz_store_local into a value of the call.
LEMMA StoreValueIs ==
    ASSUME FramesNested, HasValue, NEW i \in Index, i > 0, Cell(i) <= sp,
           stk' = PopTo(Cell(i)), InFrame, globals' = globals, ret' = 0
    PROVE  InCallStep
<1>. DEFINE p == Cell(i)
            c == Cur.vals
            L == Len(c)
            v == c[L]
            e == [c EXCEPT ![i] = v]
            t == SubSeq(e, 1, L - 1)
            u == SubSeq(stk', fp, Len(stk'))
<1>0. /\ stk \in Seq(Value) /\ sp \in Nat /\ sp = Len(stk) /\ fp \in Nat /\ 1 <= fp /\ fp <= sp
      /\ i \in Nat /\ i >= 1 /\ p = fp + i - 1 /\ p <= sp /\ sp >= 1 /\ sp - 1 \in Nat
      /\ Depth \in Nat
  BY StackIs, ClientNumbers DEF HasValue, Cell
<1>1. /\ c \in Seq(Value) /\ L = sp - fp + 1 /\ L \in Nat /\ L >= 1 /\ L \in 1 .. L
      /\ i \in 1 .. L /\ L - 1 \in Nat
      /\ \A j \in 1 .. L : c[j] = stk[fp + j - 1]
  <2>1. c \in Seq(Value) /\ L = sp - fp + 1 /\ \A j \in 1 .. sp - fp + 1 : c[j] = stk[fp + j - 1]
    BY CurVals
  <2>. HIDE DEF c, L
  <2>2. L \in Nat /\ L >= 1 /\ i \in 1 .. L /\ L - 1 \in Nat
    BY <1>0, <2>1
  <2>. QED  BY <2>1, <2>2
<1>2. v = stk[sp] /\ v \in Value
  BY <1>0, <1>1, ElementIn, SMTT(30)
<1>3. stk' \in Seq(Value) /\ Len(stk') = sp - 1 /\ \A q \in 1 .. sp - 1 : q # p => stk'[q] = stk[q]
  <2>1. \A q \in 1 .. sp - 1 : (IF q = p THEN stk[sp] ELSE stk[q]) \in Value
    BY <1>0, ElementIn
  <2>. QED  BY <1>0, <2>1 DEF PopTo
<1>4. /\ u \in Seq(Value) /\ Len(u) = L - 1
      /\ \A j \in 1 .. L - 1 : u[j] = IF fp + j - 1 = p THEN stk[sp] ELSE stk[fp + j - 1]
  <2>1. fp - 1 <= sp - 1 /\ (sp - 1) - fp + 1 = L - 1 /\ p \in Nat /\ 1 <= p
        /\ stk' = PopTo(p)
    BY <1>0, <1>1
  <2>. HIDE DEF p, L
  <2>2. /\ SubSeq(PopTo(p), fp, sp - 1) \in Seq(Value)
        /\ Len(SubSeq(PopTo(p), fp, sp - 1)) = (sp - 1) - fp + 1
        /\ \A j \in 1 .. (sp - 1) - fp + 1 : SubSeq(PopTo(p), fp, sp - 1)[j]
              = IF fp + j - 1 = p THEN stk[sp] ELSE stk[fp + j - 1]
    <3>. DEFINE b == sp - 1
    <3>1. b \in Nat /\ b <= sp - 1 /\ fp - 1 <= b /\ p \in Nat /\ 1 <= p /\ sp >= 1
          /\ stk \in Seq(Value) /\ fp \in Nat /\ 1 <= fp
      BY <1>0, <2>1
    <3>. HIDE DEF b
    <3>2. /\ SubSeq(PopTo(p), fp, b) \in Seq(Value)
          /\ Len(SubSeq(PopTo(p), fp, b)) = b - fp + 1
          /\ \A j \in 1 .. b - fp + 1 : SubSeq(PopTo(p), fp, b)[j]
                = IF fp + j - 1 = p THEN stk[sp] ELSE stk[fp + j - 1]
      BY <3>1, RunOfPopTo, ZenonT(30)
    <3>. QED  BY <3>2 DEF b
  <2>3. u = SubSeq(PopTo(p), fp, sp - 1)
    BY <1>3, <2>1
  <2>. HIDE DEF u
  <2>. QED  BY <2>1, <2>2, <2>3
<1>5. e \in Seq(Value) /\ Len(e) = L /\ \A j \in 1 .. L : e[j] = IF j = i THEN v ELSE c[j]
  <2>1. Len(c) = L
    OBVIOUS
  <2>. HIDE DEF c, L, v
  <2>. QED  BY <1>1, <1>2, <2>1
<1>. HIDE DEF e, u
<1>6. t \in Seq(Value) /\ Len(t) = L - 1 /\ \A j \in 1 .. L - 1 : t[j] = e[j]
  <2>1. L - 1 <= Len(e)
    BY <1>1, <1>5
  <2>. HIDE DEF L
  <2>. QED  BY <1>1, <1>5, <2>1, PrefixIs
<1>. HIDE DEF t
<1>7. u = t
  <2>1. ASSUME NEW j \in 1 .. L - 1
        PROVE  u[j] = t[j]
    <3>1. j \in 1 .. L /\ (fp + j - 1 = p) = (j = i)
      BY <1>0, <1>1
    <3>2. t[j] = IF j = i THEN stk[sp] ELSE stk[fp + j - 1]
      BY <1>1, <1>2, <1>5, <1>6, <3>1
    <3>3. u[j] = IF j = i THEN stk[sp] ELSE stk[fp + j - 1]
      BY <1>4, <3>1
    <3>. QED  BY <3>2, <3>3
  <2>. HIDE DEF L
  <2>. QED  BY <1>4, <1>6, <2>1, SeqEqual
<1>8. /\ Outer' = Outer /\ (Callees => Callees')
      /\ Cur' = CallOf(Cur.fn,
                       IF Depth = 0 THEN <<>> ELSE SubSeq(stk', arg_list, fp - 1),
                       u, Cur.mark, Cur.noret)
  <2>1. Depth > 0 => Same(stk, stk', arg_list - 1)
    <3>. SUFFICES ASSUME Depth > 0
                  PROVE  Same(stk, stk', arg_list - 1)
      OBVIOUS
    <3>1. arg_list \in Nat /\ 1 <= arg_list /\ arg_list <= fp
      BY ArgList
    <3>2. arg_list - 1 <= sp - 1 /\ \A q \in 1 .. arg_list - 1 : q \in 1 .. sp - 1 /\ q # p
      BY <1>0, <3>1
    <3>. HIDE DEF p
    <3>. QED  BY <1>3, <3>2 DEF Same
  <2>. QED  BY <1>3, <2>1, OuterStays DEF InFrame, u
<1>9. Cur.args = IF Depth = 0 THEN <<>> ELSE SubSeq(stk', arg_list, fp - 1)
  <2>1. CASE Depth = 0
    BY <2>1, CurArgsEmpty
  <2>2. CASE Depth # 0
    <3>0. Depth > 0
      BY <1>0, <2>2
    <3>1. arg_list \in Nat /\ 1 <= arg_list /\ arg_list <= fp
      BY <3>0, ArgList
    <3>2. Same(stk, stk', fp - 1)
      <4>1. fp - 1 <= sp - 1 /\ \A q \in 1 .. fp - 1 : q \in 1 .. sp - 1 /\ q # p
        BY <1>0
      <4>. HIDE DEF p
      <4>. QED  BY <1>3, <4>1 DEF Same
    <3>3. fp - 1 \in Nat /\ arg_list - 1 <= fp - 1 /\ fp - 1 <= Len(stk)
      BY <1>0, <3>1
    <3>4. SubSeq(stk', arg_list, fp - 1) = SubSeq(stk, arg_list, fp - 1)
      BY <1>0, <1>3, <3>1, <3>2, <3>3, SameRun, SMTT(30)
    <3>. QED  BY <2>2, <3>0, <3>4, CurArgs
  <2>. QED  BY <2>1, <2>2
<1>10. Cur' = [Cur EXCEPT !.vals = t]
  BY <1>7, <1>8, <1>9, ExceptVals, CallParts DEF Cur, WithVals
<1>11. Abstract!Stores(i)
  <2>1. Abstract!Becomes(t)
    BY <1>8, <1>10 DEF Abstract!Becomes
  <2>. QED  BY <1>0, <1>1, <2>1 DEF Abstract!Stores, Abstract!Prefix, t, e, InFrame
<1>. QED  BY <1>8, <1>11 DEF InCallStep, Abstract!InCall

\* owiz_store_local into an argument of the call.
LEMMA StoreArgumentIs ==
    ASSUME FramesNested, HasValue, NEW i \in Index, i < 0, Depth > 0, arg_list + (-i) < fp,
           stk' = PopTo(arg_list + (-i)), InFrame, globals' = globals, ret' = 0
    PROVE  InCallStep
<1>. DEFINE p == arg_list + (-i)
            j == 1 - i
            c == Cur.args
            A == Len(c)
            v == Cur.vals[Len(Cur.vals)]
            e == [c EXCEPT ![j] = v]
            t == SubSeq(Cur.vals, 1, Len(Cur.vals) - 1)
            w == SubSeq(stk', fp, Len(stk'))
            u == SubSeq(stk', arg_list, fp - 1)
<1>0. /\ stk \in Seq(Value) /\ sp \in Nat /\ sp = Len(stk) /\ fp \in Nat /\ 1 <= fp /\ fp <= sp
      /\ i \in Int /\ -i \in Nat /\ -i >= 1 /\ sp >= 1 /\ sp - 1 \in Nat /\ fp - 1 \in Nat
      /\ Depth \in Nat /\ arg_list \in Nat /\ 1 <= arg_list /\ arg_list <= fp
      /\ p \in Nat /\ 1 <= p /\ p < fp /\ p >= arg_list
  BY StackIs, ArgList, ClientNumbers, SMTT(30) DEF HasValue
<1>1. /\ c \in Seq(Value) /\ A = fp - arg_list /\ A \in Nat /\ j \in 1 .. A
      /\ \A k \in 1 .. A : c[k] = stk[arg_list + k - 1]
  <2>1. /\ c \in Seq(Value) /\ A = fp - arg_list
        /\ \A k \in 1 .. fp - arg_list : c[k] = stk[arg_list + k - 1]
    BY CurArgs
  <2>. HIDE DEF A, c
  <2>2. A \in Nat /\ j \in 1 .. A
    BY <1>0, <2>1
  <2>. QED  BY <2>1, <2>2
<1>2. v = stk[sp] /\ v \in Value
  <2>1. /\ Len(Cur.vals) = sp - fp + 1 /\ Cur.vals \in Seq(Value)
        /\ \A k \in 1 .. sp - fp + 1 : Cur.vals[k] = stk[fp + k - 1]
    BY CurVals
  <2>2. sp - fp + 1 \in 1 .. sp - fp + 1 /\ fp + (sp - fp + 1) - 1 = sp
    BY <1>0
  <2>. QED  BY <1>0, <2>1, <2>2, ElementIn
<1>3. stk' \in Seq(Value) /\ Len(stk') = sp - 1 /\ \A q \in 1 .. sp - 1 : q # p => stk'[q] = stk[q]
  <2>1. \A q \in 1 .. sp - 1 : (IF q = p THEN stk[sp] ELSE stk[q]) \in Value
    BY <1>0, ElementIn
  <2>. QED  BY <1>0, <2>1 DEF PopTo
<1>4. /\ u \in Seq(Value) /\ Len(u) = A
      /\ \A k \in 1 .. A : u[k] = IF arg_list + k - 1 = p THEN stk[sp] ELSE stk[arg_list + k - 1]
  <2>1. arg_list - 1 <= fp - 1 /\ fp - 1 <= sp - 1 /\ (fp - 1) - arg_list + 1 = A
    <3>. HIDE DEF A
    <3>. QED  BY <1>0, <1>1
  <2>2. stk' = PopTo(p)
    OBVIOUS
  <2>. HIDE DEF p, A
  <2>3. /\ SubSeq(PopTo(p), arg_list, fp - 1) \in Seq(Value)
        /\ Len(SubSeq(PopTo(p), arg_list, fp - 1)) = (fp - 1) - arg_list + 1
        /\ \A k \in 1 .. (fp - 1) - arg_list + 1 : SubSeq(PopTo(p), arg_list, fp - 1)[k]
              = IF arg_list + k - 1 = p THEN stk[sp] ELSE stk[arg_list + k - 1]
    <3>. DEFINE b == fp - 1
                a == arg_list
    <3>1. b \in Nat /\ b <= sp - 1 /\ a - 1 <= b /\ p \in Nat /\ 1 <= p /\ sp >= 1
          /\ stk \in Seq(Value) /\ a \in Nat /\ 1 <= a
      BY <1>0, <2>1
    <3>. HIDE DEF b, a
    <3>2. /\ SubSeq(PopTo(p), a, b) \in Seq(Value)
          /\ Len(SubSeq(PopTo(p), a, b)) = b - a + 1
          /\ \A k \in 1 .. b - a + 1 : SubSeq(PopTo(p), a, b)[k]
                = IF a + k - 1 = p THEN stk[sp] ELSE stk[a + k - 1]
      BY <3>1, RunOfPopTo, ZenonT(30)
    <3>. QED  BY <3>2 DEF a, b
  <2>. QED  BY <2>1, <2>2, <2>3
<1>5. e \in Seq(Value) /\ Len(e) = A /\ \A k \in 1 .. A : e[k] = IF k = j THEN v ELSE c[k]
  <2>1. Len(c) = A
    OBVIOUS
  <2>. HIDE DEF c, A, v, j
  <2>. QED  BY <1>1, <1>2, <2>1
<1>. HIDE DEF e, u
<1>6. u = e
  <2>1. ASSUME NEW k \in 1 .. A
        PROVE  u[k] = e[k]
    <3>. HIDE DEF A
    <3>1. arg_list \in Nat /\ i \in Int /\ k \in Int
      BY <1>0, <1>1
    <3>2. (arg_list + k - 1 = p) = (k = j)
      BY <3>1
    <3>. QED  BY <1>1, <1>2, <1>4, <1>5, <3>2
  <2>. HIDE DEF A
  <2>. QED  BY <1>4, <1>5, <2>1, SeqEqual
<1>7. w = t
  <2>1. SubSeq(stk', fp, sp - 1) = SubSeq(stk, fp, sp - 1)
    <3>1. \A q \in 1 .. sp - 1 : q # p => stk'[q] = stk[q]
      BY <1>3
    <3>2. /\ SubSeq(stk', fp, sp - 1) \in Seq(Value) /\ Len(SubSeq(stk', fp, sp - 1)) = (sp - 1) - fp + 1
          /\ \A k \in 1 .. (sp - 1) - fp + 1 : SubSeq(stk', fp, sp - 1)[k] = stk'[fp + k - 1]
      BY <1>0, <1>3, CellsIs
    <3>3. /\ SubSeq(stk, fp, sp - 1) \in Seq(Value) /\ Len(SubSeq(stk, fp, sp - 1)) = (sp - 1) - fp + 1
          /\ \A k \in 1 .. (sp - 1) - fp + 1 : SubSeq(stk, fp, sp - 1)[k] = stk[fp + k - 1]
      BY <1>0, CellsIs
    <3>4. \A k \in 1 .. (sp - 1) - fp + 1 : stk'[fp + k - 1] = stk[fp + k - 1]
      <4>. SUFFICES ASSUME NEW k \in 1 .. (sp - 1) - fp + 1
                    PROVE  stk'[fp + k - 1] = stk[fp + k - 1]
        OBVIOUS
      <4>1. fp + k - 1 \in 1 .. sp - 1 /\ fp + k - 1 # p
        BY <1>0
      <4>. QED  BY <3>1, <4>1
    <3>. DEFINE x == SubSeq(stk', fp, sp - 1)
                y == SubSeq(stk, fp, sp - 1)
    <3>. HIDE DEF x, y
    <3>5. x = y
      BY <3>2, <3>3, <3>4, SeqEqual DEF x, y
    <3>. QED  BY <3>5 DEF x, y
  <2>2. sp - 1 \in fp - 1 .. sp /\ (sp - 1) - fp + 1 = Len(Cur.vals) - 1
    BY <1>0, CurVals
  <2>3. SubSeq(stk, fp, sp - 1) = t
    BY <2>2, FirstVals
  <2>. QED  BY <1>3, <2>1, <2>3
<1>. HIDE DEF t, w
<1>8. /\ Outer' = Outer /\ (Callees => Callees')
      /\ Cur' = CallOf(Cur.fn, e, t, Cur.mark, Cur.noret)
  <2>1. Same(stk, stk', arg_list - 1)
    <3>2. arg_list - 1 <= sp - 1 /\ \A q \in 1 .. arg_list - 1 : q \in 1 .. sp - 1 /\ q # p
      BY <1>0
    <3>. HIDE DEF p
    <3>. QED  BY <1>3, <3>2 DEF Same
  <2>2. /\ Outer' = Outer /\ (Callees => Callees')
        /\ Cur' = CallOf(Cur.fn, IF Depth = 0 THEN <<>> ELSE u, w, Cur.mark, Cur.noret)
    BY <1>3, <2>1, OuterStays DEF InFrame, u, w
  <2>. QED  BY <1>0, <1>6, <1>7, <2>2
<1>9. Cur' = [Cur EXCEPT !.vals = t, !.args = e]
  <2>1. [Cur EXCEPT !.vals = t, !.args = e] = [[Cur EXCEPT !.vals = t] EXCEPT !.args = e]
    OBVIOUS
  <2>2. [Cur EXCEPT !.vals = t] = WithVals(Depth, t)
    BY ExceptVals DEF Cur
  <2>3. [WithVals(Depth, t) EXCEPT !.args = e]
           = CallOf(FnOf(Depth), e, t, MarkOf(Depth), NoretOf(Depth))
    BY ExceptArgs
  <2>4. Cur.fn = FnOf(Depth) /\ Cur.mark = MarkOf(Depth) /\ Cur.noret = NoretOf(Depth)
    BY CallParts DEF Cur
  <2>. QED  BY <1>8, <2>1, <2>2, <2>3, <2>4
<1>10. Abstract!Stores(i)
  <2>1. Len(Cur.vals) > 0 /\ j \in DOMAIN Cur.args /\ ~ (i > 0)
    BY <1>0, <1>1, CurVals, SMTT(30)
  <2>2. Cur' = [Cur EXCEPT !.vals = SubSeq(Cur.vals, 1, Len(Cur.vals) - 1),
                           !.args = [Cur.args EXCEPT ![j] = v]]
    BY <1>9 DEF t, e
  <2>. HIDE DEF j
  <2>. QED  BY <1>8, <2>1, <2>2 DEF Abstract!Stores, Abstract!Prefix, InFrame
<1>. QED  BY <1>8, <1>10 DEF InCallStep, Abstract!InCall

\* Popping leaves the first values of the call.
LEMMA PopIs ==
    ASSUME FramesNested, InFrame, NEW n, n \in fp - 1 .. sp, stk' = Put(n, <<>>)
    PROVE  /\ Abstract!Becomes(SubSeq(Cur.vals, 1, n - fp + 1))
           /\ Callees => Callees'
<1>1. <<>> \in Seq(Value)
  OBVIOUS
<1>2. /\ Abstract!Becomes(SubSeq(Cur.vals, 1, n - fp + 1) \o <<>>)
      /\ Callees => Callees'
  BY <1>1, InFrameCalls
<1>3. SubSeq(Cur.vals, 1, n - fp + 1) \in Seq(Value)
  <2>1. n - fp + 1 \in Nat /\ n - fp + 1 <= Len(Cur.vals) /\ Cur.vals \in Seq(Value)
    BY StackIs, CurVals
  <2>. DEFINE m == n - fp + 1
  <2>. HIDE DEF m
  <2>2. SubSeq(Cur.vals, 1, m) \in Seq(Value)
    BY <2>1, PrefixIs DEF m
  <2>. QED  BY <2>2 DEF m
<1>. DEFINE u == SubSeq(Cur.vals, 1, n - fp + 1)
<1>. HIDE DEF u
<1>4. u \o <<>> = u
  BY <1>3 DEF u
<1>. QED  BY <1>2, <1>4 DEF u

\* A store into a variable, or into an attribute that does not exist.
LEMMA AssignIs ==
    ASSUME FramesNested, HasValue, InFrame, stk' = Put(sp - 1, <<>>),
           \/ /\ \E n \in Names : globals' = [globals EXCEPT ![n] = stk[sp]]
              /\ ret' = 0
           \/ globals' = globals /\ ret' = ErrIndex
    PROVE  InCallStep
<1>0. sp \in Nat /\ fp \in Nat /\ fp <= sp
  BY StackIs DEF HasValue
<1>. DEFINE L == Len(Cur.vals)
<1>1. L = sp - fp + 1 /\ Cur.vals[L] = stk[sp]
  <2>1. sp - fp + 1 \in 1 .. sp - fp + 1 /\ fp + (sp - fp + 1) - 1 = sp
    BY <1>0
  <2>. QED  BY <2>1, CurVals
<1>2. sp - 1 \in fp - 1 .. sp /\ (sp - 1) - fp + 1 = L - 1 /\ L > 0
  BY <1>0, <1>1
<1>3. Abstract!Becomes(SubSeq(Cur.vals, 1, L - 1)) /\ (Callees => Callees')
  BY <1>2, PopIs
<1>4. Abstract!Assigns
  <2>1. Cur.vals # <<>>
    BY <1>2
  <2>2. \/ \E n \in Names : globals' = [globals EXCEPT ![n] = Cur.vals[L]] /\ ret' = 0
        \/ globals' = globals /\ ret' = Abstract!ErrIndex
    BY <1>1, SameValues
  <2>. QED  BY <1>3, <2>1, <2>2 DEF Abstract!Assigns, Abstract!Prefix, InFrame
<1>. QED  BY <1>3, <1>4 DEF InCallStep, Abstract!InCall, Abstract!Becomes

\* owiz_drop.
LEMMA DropIs ==
    ASSUME FramesNested, NEW count \in -1 .. MaxCount, Drop(count)
    PROVE  InCallStep
<1>. DEFINE L == Len(Cur.vals)
            new == IF count < 0 \/ sp - count < fp - 1 THEN fp - 1 ELSE sp - count
            rest == IF count \in 0 .. L THEN L - count ELSE 0
<1>0. /\ sp \in Nat /\ fp \in Nat /\ 1 <= fp /\ fp <= sp + 1 /\ L = sp - fp + 1
      /\ count \in Int /\ count \in Count \cup {-1}
  BY StackIs, CurVals, ClientNumbers DEF Count
<1>1. stk' = Put(new, <<>>) /\ ret' = new - (fp - 1) /\ InFrame /\ globals' = globals /\ up' = up
  BY DEF Drop, Returns, InFrame
<1>. HIDE DEF L
<1>2. new \in fp - 1 .. sp /\ new - fp + 1 = rest /\ new - (fp - 1) = rest
  BY <1>0
<1>. HIDE DEF new, rest
<1>3. Abstract!Becomes(SubSeq(Cur.vals, 1, rest)) /\ (Callees => Callees')
  BY <1>1, <1>2, PopIs
<1>4. Abstract!Drops(count)
  BY <1>1, <1>2, <1>3 DEF Abstract!Drops, Abstract!Prefix, rest, L
<1>. QED  BY <1>0, <1>3, <1>4 DEF InCallStep, Abstract!InCall, Abstract!Becomes

\* The functions that pop.
LEMMA StoresAre ==
    ASSUME FramesNested, ClientStores
    PROVE  InCallStep
<1>1. CASE \E i \in Index : StoreLocal(i)
  <2>. PICK i \in Index : StoreLocal(i)
    BY <1>1
  <2>0. i \in Int
    BY ClientNumbers
  <2>1. CASE Fails(ErrIndex)
    BY <2>1, FailsIs
  <2>2. CASE ~ Fails(ErrIndex) /\ i < 0
    <3>1. /\ HasValue /\ Depth > 0 /\ arg_list + (-i) < fp
          /\ stk' = PopTo(arg_list + (-i)) /\ InFrame /\ globals' = globals /\ ret' = 0
      BY <2>2 DEF StoreLocal, Returns
    <3>. QED  BY <2>2, <3>1, StoreArgumentIs
  <2>3. CASE ~ Fails(ErrIndex) /\ ~ (i < 0)
    <3>1. /\ HasValue /\ i # 0 /\ Cell(i) <= sp
          /\ stk' = PopTo(Cell(i)) /\ InFrame /\ globals' = globals /\ ret' = 0
      BY <2>3 DEF StoreLocal, Returns
    <3>2. i > 0
      BY <2>0, <2>3, <3>1
    <3>. QED  BY <3>1, <3>2, StoreValueIs
  <2>. QED  BY <2>1, <2>2, <2>3
<1>2. CASE \E n \in Names : StoreGlobal(n)
  <2>. PICK n \in Names : StoreGlobal(n)
    BY <1>2
  <2>1. /\ HasValue /\ globals' = [globals EXCEPT ![n] = stk[sp]]
        /\ stk' = Put(sp - 1, <<>>) /\ ret' = 0 /\ InFrame
    BY DEF StoreGlobal, Returns
  <2>. QED  BY <2>1, AssignIs
<1>3. CASE \E i \in Index : StoreAttribute(i)
  <2>. PICK i \in Index : StoreAttribute(i)
    BY <1>3
  <2>1. CASE Fails(ErrIndex)
    BY <2>1, FailsIs
  <2>2. CASE ~ Fails(ErrIndex)
    <3>1. /\ HasValue /\ InFrame /\ stk' = Put(sp - 1, <<>>)
          /\ \/ /\ \E n \in Names : globals' = [globals EXCEPT ![n] = stk[sp]]
                /\ ret' = 0
             \/ globals' = globals /\ ret' = ErrIndex
      BY <2>2 DEF StoreAttribute, Returns
    <3>. QED  BY <3>1, AssignIs
  <2>. QED  BY <2>1, <2>2
<1>4. CASE \E n \in -1 .. MaxCount : Drop(n)
  BY <1>4, DropIs
<1>. QED
  BY <1>1, <1>2, <1>3, <1>4 DEF ClientStores

-----------------------------------------------------------------------------
(* Invoking, returning and jumping *)

\* The frame infos and buffers after one of each has been pushed.
LEMMA MoreFrames ==
    ASSUME FramesNested, NEW f, f \in [argl : 2 .. StackSize + 1, pfp : 1 .. StackSize, noret : BOOLEAN],
           f.pfp = fp, frames' = Append(frames, f), jb' = Append(jb, NoJmp)
    PROVE  /\ Depth' = Depth + 1
           /\ frames'[Depth + 1] = f /\ jb'[Depth + 2] = NoJmp
           /\ \A d \in 1 .. Depth : frames'[d] = frames[d]
           /\ \A d \in 0 .. Depth : FrameStays(d)
<1>. DEFINE F == [argl : 2 .. StackSize + 1, pfp : 1 .. StackSize, noret : BOOLEAN]
            J == [sp : 0 .. StackSize, fp : 0 .. StackSize + 1, fi : Nat]
<1>0. PICK D \in Nat : D = Depth
  BY StackIs
<1>1. frames \in Seq(F) /\ jb \in Seq(J) /\ Len(jb) = D + 1 /\ Len(frames) = D /\ f \in F
      /\ NoJmp \in J
  BY <1>0, StackAssumption DEF FramesNested, TypeOK, Depth, NoJmp
<1>. HIDE DEF F, J
<1>2. /\ Len(frames') = D + 1 /\ \A d \in 1 .. D : frames'[d] = frames[d]
      /\ frames'[D + 1] = f
  BY <1>0, <1>1
<1>3. (\A d \in 1 .. D + 1 : jb'[d] = jb[d]) /\ jb'[D + 2] = NoJmp
  BY <1>0, <1>1
<1>4. Depth' = D + 1
  BY <1>2 DEF Depth
<1>5. ASSUME NEW d \in 0 .. D
      PROVE  FrameStays(d)
  <2>1. jb'[d + 1] = jb[d + 1] /\ (d > 0 => frames'[d] = frames[d])
    <3>1. d + 1 \in 1 .. D + 1 /\ (d > 0 => d \in 1 .. D)
      OBVIOUS
    <3>. QED  BY <1>2, <1>3, <3>1
  <2>2. FpOf(d)' = FpOf(d)
    <3>1. CASE d = D
      BY <3>1, <1>0, <1>2, <1>4 DEF FpOf
    <3>2. CASE d # D
      <4>1. d + 1 \in 1 .. D /\ d # D + 1
        BY <3>2
      <4>. QED  BY <1>0, <1>2, <1>4, <3>2, <4>1 DEF FpOf
    <3>. QED  BY <3>1, <3>2
  <2>. QED  BY <2>1, <2>2 DEF FrameStays
<1>. QED  BY <1>0, <1>2, <1>3, <1>4, <1>5

\* A native function is entered: of the caller's values those below the callee
\* wait, and the callee starts with its arguments.
LEMMA EnterIs ==
    ASSUME FramesNested, NEW s \in Seq(Value), NEW p \in Nat, NEW noret \in BOOLEAN,
           fp <= p, p <= Len(s), p <= sp + 1, Len(s) <= StackSize,
           Same(stk, s, p - 1), s[p] = Func(Len(s) - p), Call(s, p, noret)
    PROVE  /\ Outer' = Append(Outer, WithVals(Depth, SubSeq(stk, fp, p - 1)))
           /\ Cur' = CallOf(s[p], SubSeq(s, p + 1, Len(s)), <<>>, -1, noret)
           /\ Callees => Callees'
           /\ ret' = ret /\ up' = up
<1>. DEFINE f == [argl |-> p + 1, pfp |-> fp, noret |-> noret]
<1>. PICK D \in Nat : D = Depth
  BY StackIs
<1>0. /\ sp \in Nat /\ fp \in Nat /\ 1 <= fp /\ fp <= sp + 1 /\ sp <= StackSize
      /\ stk \in Seq(Value) /\ sp = Len(stk) /\ D \in Nat /\ FpOf(D) = fp
      /\ Len(s) \in Nat /\ p - 1 \in Nat /\ p - 1 <= sp /\ fp - 1 <= p - 1
  BY StackIs
<1>1. /\ stk' = s /\ fp' = Len(s) + 1 /\ frames' = Append(frames, f)
      /\ jb' = Append(jb, NoJmp) /\ ret' = ret /\ up' = up
  BY DEF Call
<1>2. /\ Depth' = D + 1 /\ frames'[D + 1] = f /\ jb'[D + 2] = NoJmp
      /\ \A d \in 1 .. D : frames'[d] = frames[d]
      /\ \A d \in 0 .. D : FrameStays(d)
  <2>1. f \in [argl : 2 .. StackSize + 1, pfp : 1 .. StackSize, noret : BOOLEAN]
        /\ f.pfp = fp
    BY <1>0, StackAssumption
  <2>. HIDE DEF f
  <2>2. D = Depth
    OBVIOUS
  <2>. QED  BY <1>1, <2>1, <2>2, MoreFrames
<1>3. f.argl = p + 1 /\ f.noret = noret
  OBVIOUS
<1>. HIDE DEF f
<1>4. ASSUME NEW d \in 0 .. D, d < D
      PROVE  CallAt(d)' = CallAt(d) /\ FnOf(d)' = FnOf(d)
  <2>1. d \in 0 .. Depth /\ d < Depth /\ d # Depth' /\ d + 1 \in 1 .. D /\ Depth \in 0 .. Depth
        /\ d \in 0 .. Depth
    <3>1. Depth' = D + 1 /\ D = Depth /\ D \in Nat /\ d \in 0 .. D /\ d < D
      BY <1>2, <1>4
    <3>. QED  BY <3>1
  <2>2. EndOf(d) \in Nat /\ EndOf(d) < FpOf(D) - 1
    BY <2>1, BelowFrame
  <2>3. Same(stk, stk', EndOf(d))
    BY <1>0, <1>1, <2>2, SMTT(20) DEF Same
  <2>. QED  BY <1>1, <1>2, <2>1, <2>3, WaitingStays
<1>5. FnOf(D)' = FnOf(D) /\ \A vals : WithVals(D, vals)' = WithVals(D, vals)
  <2>1. D \in 0 .. Depth /\ FrameStays(D)
    BY <1>0, <1>2, SMTT(30)
  <2>2. Same(stk, stk', FpOf(D) - 1)
    BY <1>0, <1>1, SMTT(20) DEF Same
  <2>. QED  BY <1>1, <2>1, <2>2, FixedParts
<1>6. CallAt(D)' = WithVals(D, SubSeq(stk, fp, p - 1))
  <2>1. FpOf(D)' = fp /\ EndOf(D)' = p - 1
    <3>1. D # Depth'
      BY <1>0, <1>2
    <3>2. FpOf(D)' = fp
      BY <1>0, <1>2 DEF FrameStays
    <3>. QED  BY <1>0, <1>2, <1>3, <3>1, <3>2 DEF EndOf
  <2>2. SubSeq(s, fp, p - 1) = SubSeq(stk, fp, p - 1)
    <3>. DEFINE b == p - 1
    <3>1. /\ b \in Nat /\ fp - 1 <= b /\ b <= Len(stk) /\ Same(stk, s, b)
          /\ stk \in Seq(Value) /\ s \in Seq(Value) /\ fp \in Nat /\ 1 <= fp
      BY <1>0
    <3>. HIDE DEF b
    <3>2. SubSeq(s, fp, b) = SubSeq(stk, fp, b)
      BY <3>1, SameRun
    <3>. QED  BY <3>2 DEF b
  <2>3. ValsOf(D)' = SubSeq(stk, fp, p - 1)
    BY <1>1, <2>1, <2>2 DEF ValsOf
  <2>4. CallAt(D)' = WithVals(D, ValsOf(D))'
    BY CallIs
  <2>5. WithVals(D, ValsOf(D))' = WithVals(D, ValsOf(D)')
    BY <1>5 DEF WithVals
  <2>. QED  BY <2>3, <2>4, <2>5
<1>7. Outer' = Append(Outer, WithVals(D, SubSeq(stk, fp, p - 1)))
  <2>. DEFINE w == WithVals(D, SubSeq(stk, fp, p - 1))
  <2>1. Outer' = [d \in 1 .. D + 1 |-> CallAt(d - 1)']
    BY <1>2 DEF Outer
  <2>2. \A d \in 1 .. D : CallAt(d - 1)' = Outer[d]
    <3>. SUFFICES ASSUME NEW d \in 1 .. D
                  PROVE  CallAt(d - 1)' = Outer[d]
      OBVIOUS
    <3>1. d - 1 \in 0 .. D /\ d - 1 < D
      BY <1>0
    <3>. QED  BY <1>4, <3>1 DEF Outer
  <2>3. CallAt((D + 1) - 1)' = w
    <3>1. (D + 1) - 1 = D
      BY <1>0
    <3>. QED  BY <1>6, <3>1
  <2>. HIDE DEF w
  <2>4. Append(Outer, w) = [d \in 1 .. D + 1 |-> IF d = D + 1 THEN w ELSE Outer[d]]
    BY <1>0 DEF Outer
  <2>5. \A d \in 1 .. D + 1 : CallAt(d - 1)' = IF d = D + 1 THEN w ELSE Outer[d]
    <3>1. \A d \in 1 .. D + 1 : d = D + 1 \/ d \in 1 .. D
      BY <1>0
    <3>. QED  BY <2>2, <2>3, <3>1
  <2>6. Outer' = Append(Outer, w)
    BY <2>1, <2>4, <2>5
  <2>. QED  BY <2>6 DEF w
<1>8. Cur' = CallOf(s[p], SubSeq(s, p + 1, Len(s)), <<>>, -1, noret)
  <2>. DEFINE e == D + 1
  <2>0. e = Depth' /\ e # 0 /\ e > 0 /\ e + 1 = D + 2 /\ (p + 1) - 1 = p
    BY <1>0, <1>2
  <2>1. FpOf(e)' = Len(s) + 1 /\ EndOf(e)' = Len(s)
    BY <1>1, <2>0 DEF FpOf, EndOf, sp
  <2>2. FnOf(e)' = s[p]
    BY <1>1, <1>2, <1>3, <2>0 DEF FnOf
  <2>3. ArgsOf(e)' = SubSeq(s, p + 1, Len(s))
    <3>1. (Len(s) + 1) - 1 = Len(s)
      BY <1>0
    <3>. QED  BY <1>1, <1>2, <1>3, <2>0, <2>1, <3>1 DEF ArgsOf
  <2>4. ValsOf(e)' = <<>>
    <3>1. SubSeq(s, Len(s) + 1, Len(s)) = <<>>
      BY <1>0
    <3>. QED  BY <1>1, <2>1, <3>1 DEF ValsOf
  <2>5. MarkOf(e)' = -1
    BY <1>2, <2>0 DEF MarkOf
  <2>6. NoretOf(e)' = noret
    BY <1>2, <1>3, <2>0 DEF NoretOf
  <2>7. CallAt(e)' = CallOf(FnOf(e)', ArgsOf(e)', ValsOf(e)', MarkOf(e)', NoretOf(e)')
    BY DEF CallAt, CallOf, FnOf, ArgsOf, ValsOf, MarkOf, NoretOf
  <2>8. Cur' = CallAt(e)'
    BY <2>0 DEF Cur, CallAt
  <2>. QED  BY <2>2, <2>3, <2>4, <2>5, <2>6, <2>7, <2>8
<1>9. Callees => Callees'
  <2>. SUFFICES ASSUME Callees, NEW d \in 1 .. D + 1
                PROVE  FnOf(d)'.k = "func"
    BY <1>2 DEF Callees
  <2>1. CASE d = D + 1
    <3>1. FnOf(d)' = s[p]
      <4>1. d # 0 /\ (p + 1) - 1 = p
        BY <2>1, <1>0
      <4>. QED  BY <2>1, <4>1, <1>1, <1>2, <1>3 DEF FnOf
    <3>. QED  BY <3>1 DEF Func
  <2>2. CASE d # D + 1
    <3>1. d \in 1 .. D /\ d \in 0 .. D /\ (d < D \/ d = D)
      BY <1>0, <2>2
    <3>2. FnOf(d)' = FnOf(d)
      BY <1>4, <1>5, <3>1
    <3>. QED  BY <3>1, <3>2 DEF Callees
  <2>. QED  BY <2>1, <2>2
<1>. QED  BY <1>1, <1>7, <1>8, <1>9

\* A step of the innermost call, or one that enters or leaves calls.
StepIs == Abstract!Next /\ (Callees => Callees')

\* Steps of the innermost call are steps of the calls.
LEMMA InCallIs ==
    ASSUME up, InCallStep
    PROVE  StepIs
BY DEF InCallStep, StepIs, Abstract!Next

\* What cannot be called is popped with its arguments, and an exception pushed.
LEMMA RejectIs ==
    ASSUME FramesNested, NEW argc \in Count, sp >= fp + argc, InFrame,
           stk' = Put(sp - argc - 1, <<Exc>>), ret' = ErrFail, globals' = globals
    PROVE  InCallStep
<1>. DEFINE L == Len(Cur.vals)
            n == sp - argc - 1
            m == L - argc - 1
            u == SubSeq(Cur.vals, 1, m)
<1>0. /\ sp \in Nat /\ fp \in Nat /\ 1 <= fp /\ L = sp - fp + 1 /\ argc \in Nat
      /\ Cur.vals \in Seq(Value) /\ <<Exc>> \in Seq(Value) /\ Exc \in Value
  BY StackIs, CurVals, ClientNumbers, AtomsAreValues
<1>1. Len(Cur.vals) = L
  OBVIOUS
<1>. HIDE DEF L
<1>2. n \in fp - 1 .. sp /\ n - fp + 1 = m /\ m \in Nat /\ m <= L /\ L > argc
  BY <1>0
<1>. HIDE DEF n, m
<1>3. /\ Abstract!Becomes(SubSeq(Cur.vals, 1, n - fp + 1) \o <<Exc>>)
      /\ Callees => Callees'
  <2>1. stk' = Put(n, <<Exc>>)
    BY DEF n
  <2>. QED  BY <1>0, <1>2, <2>1, InFrameCalls
<1>4. u \in Seq(Value)
  BY <1>0, <1>1, <1>2, PrefixIs
<1>. HIDE DEF u
<1>5. u \o <<Exc>> = Append(u, Exc)
  BY <1>0, <1>4
<1>6. Abstract!Becomes(Append(u, Exc))
  BY <1>2, <1>3, <1>5 DEF u
<1>7. Abstract!Rejects(argc)
  BY <1>1, <1>2, <1>6, SameValues DEF Abstract!Rejects, Abstract!Prefix, InFrame, u, m
<1>. QED  BY <1>3, <1>6, <1>7 DEF InCallStep, Abstract!InCall, Abstract!Becomes

\* owiz_invoke on a value of the call.
LEMMA InvokeIs ==
    ASSUME FramesNested, up, NEW argc \in Count, NEW noret \in BOOLEAN, Invoke(argc, noret)
    PROVE  StepIs
<1>. DEFINE p == sp - argc
            c == Cur.vals
            L == Len(c)
            n == L - argc
<1>0. /\ sp \in Nat /\ fp \in Nat /\ 1 <= fp /\ sp = Len(stk) /\ stk \in Seq(Value)
      /\ argc \in Nat /\ sp >= fp + argc /\ sp <= StackSize /\ Depth \in Nat
      /\ c \in Seq(Value) /\ L = sp - fp + 1
      /\ \A i \in 1 .. sp - fp + 1 : c[i] = stk[fp + i - 1]
  BY StackIs, CurVals, ClientNumbers DEF Invoke, MayInvoke
<1>1. Call(stk, p, noret) /\ globals' = globals
  BY DEF Invoke
<1>2. L \in Nat /\ L = sp - fp + 1 /\ Len(c) = L
  BY <1>0
<1>. HIDE DEF L
<1>3. /\ p \in Nat /\ fp <= p /\ p <= Len(stk) /\ p <= sp + 1 /\ Len(stk) <= StackSize
      /\ p = fp + n - 1 /\ n \in 1 .. L /\ n \in Nat /\ n + argc = L /\ p - 1 \in fp - 1 .. sp
      /\ (p - 1) - fp + 1 = n - 1 /\ n \in 1 .. sp - fp + 1 /\ 1 <= p
  BY <1>0, <1>2
<1>. HIDE DEF p, n
<1>4. CASE stk[p] # Func(Len(stk) - p)
  <2>1. stk' = Put(p - 1, <<Exc>>) /\ ret' = ErrFail /\ InFrame
    BY <1>1, <1>4 DEF Call, Returns
  <2>2. p - 1 = sp - argc - 1
    BY DEF p
  <2>3. InCallStep
    BY <1>0, <1>1, <2>1, <2>2, RejectIs
  <2>. QED  BY <2>3, InCallIs
<1>5. CASE stk[p] = Func(Len(stk) - p)
  <2>1. Same(stk, stk, p - 1)
    BY <1>0, <1>3 DEF Same
  <2>2. /\ Outer' = Append(Outer, WithVals(Depth, SubSeq(stk, fp, p - 1)))
        /\ Cur' = CallOf(stk[p], SubSeq(stk, p + 1, Len(stk)), <<>>, -1, noret)
        /\ Callees => Callees'
        /\ ret' = ret /\ up' = up
    BY <1>0, <1>1, <1>3, <1>5, <2>1, EnterIs
  <2>3. c[n] = stk[p]
    BY <1>0, <1>3
  <2>4. SubSeq(c, n + 1, n + argc) = SubSeq(stk, p + 1, Len(stk))
    <3>. DEFINE u == SubSeq(c, n + 1, L)
                v == SubSeq(stk, p + 1, sp)
    <3>1. /\ n + 1 \in Nat /\ 1 <= n + 1 /\ (n + 1) - 1 <= L /\ L - (n + 1) + 1 = argc
          /\ p + 1 \in Nat /\ 1 <= p + 1 /\ (p + 1) - 1 <= sp /\ sp - (p + 1) + 1 = argc
      BY <1>0, <1>2, <1>3
    <3>2. /\ u \in Seq(Value) /\ Len(u) = L - (n + 1) + 1
          /\ \A i \in 1 .. L - (n + 1) + 1 : u[i] = c[(n + 1) + i - 1]
      <4>. DEFINE a == n + 1
      <4>1. a \in Nat /\ 1 <= a /\ a - 1 <= L /\ L <= Len(c) /\ c \in Seq(Value) /\ L \in Nat
        BY <1>0, <1>2, <3>1
      <4>. HIDE DEF a, c
      <4>2. /\ SubSeq(c, a, L) \in Seq(Value) /\ Len(SubSeq(c, a, L)) = L - a + 1
            /\ \A i \in 1 .. L - a + 1 : SubSeq(c, a, L)[i] = c[a + i - 1]
        BY <4>1, CellsIs
      <4>. QED  BY <4>2 DEF a
    <3>3. /\ v \in Seq(Value) /\ Len(v) = sp - (p + 1) + 1
          /\ \A i \in 1 .. sp - (p + 1) + 1 : v[i] = stk[(p + 1) + i - 1]
      <4>. DEFINE a == p + 1
      <4>1. a \in Nat /\ 1 <= a /\ a - 1 <= sp /\ sp <= Len(stk) /\ stk \in Seq(Value) /\ sp \in Nat
        BY <1>0, <3>1
      <4>. HIDE DEF a
      <4>2. /\ SubSeq(stk, a, sp) \in Seq(Value) /\ Len(SubSeq(stk, a, sp)) = sp - a + 1
            /\ \A i \in 1 .. sp - a + 1 : SubSeq(stk, a, sp)[i] = stk[a + i - 1]
        BY <4>1, CellsIs
      <4>. QED  BY <4>2 DEF a
    <3>. HIDE DEF u, v
    <3>4. ASSUME NEW i \in 1 .. argc
          PROVE  u[i] = v[i]
      <4>1. (n + 1) + i - 1 \in 1 .. sp - fp + 1
            /\ fp + ((n + 1) + i - 1) - 1 = (p + 1) + i - 1
        BY <1>0, <1>2, <1>3
      <4>. QED  BY <1>0, <3>1, <3>2, <3>3, <4>1
    <3>5. u = v
      <4>1. Len(u) = argc /\ Len(v) = argc
        BY <3>1, <3>2, <3>3
      <4>. QED  BY <3>2, <3>3, <3>4, <4>1, SeqEqual
    <3>. QED  BY <1>0, <1>3, <3>5 DEF u, v
  <2>5. SubSeq(stk, fp, p - 1) = SubSeq(c, 1, n - 1)
    BY <1>3, FirstVals
  <2>6. WithVals(Depth, SubSeq(c, 1, n - 1)) = [Cur EXCEPT !.vals = SubSeq(c, 1, n - 1)]
    BY ExceptVals DEF Cur
  <2>7. Abstract!Call(c[n], SubSeq(c, n + 1, n + argc), noret)
           = CallOf(c[n], SubSeq(c, n + 1, n + argc), <<>>, -1, noret)
    BY DEF Abstract!Call, CallOf
  <2>8. Abstract!Invokes(argc)
    <3>1. n > 0
      BY <1>3
    <3>2. Outer' = Append(Outer, [Cur EXCEPT !.vals = SubSeq(c, 1, n - 1)])
      BY <2>2, <2>5, <2>6
    <3>3. Cur' = Abstract!Call(c[n], SubSeq(c, n + 1, n + argc), noret)
      BY <2>2, <2>3, <2>4, <2>7
    <3>. QED  BY <1>1, <2>2, <3>1, <3>2, <3>3 DEF Abstract!Invokes, Abstract!Prefix, n, L, c
  <2>. QED  BY <2>2, <2>8 DEF StepIs, Abstract!Next
<1>. QED  BY <1>4, <1>5

\* Invoking a method: there are none.
LEMMA InvokeMethodIs ==
    ASSUME FramesNested, NEW argc \in Count, NEW noret \in BOOLEAN,
           InvokeMethod(argc, noret)
    PROVE  InCallStep
<1>. DEFINE p == sp - argc
            s == [stk EXCEPT ![p] = Exc]
<1>0. /\ sp \in Nat /\ fp \in Nat /\ 1 <= fp /\ sp = Len(stk) /\ stk \in Seq(Value)
      /\ argc \in Nat /\ sp >= fp + argc /\ globals' = globals
  BY StackIs, ClientNumbers DEF InvokeMethod, MayInvoke
<1>1. CASE stk[p] = Sym
  <2>1. Call(s, p, noret)
    BY <1>1 DEF InvokeMethod
  <2>2. s[p] = Exc
    BY <1>0
  <2>3. s[p] # Func(Len(s) - p)
    BY <2>2 DEF Exc, Atom, Func
  <2>. HIDE DEF s, p
  <2>4. stk' = Put(p - 1, <<Exc>>) /\ ret' = ErrFail /\ InFrame
    BY <2>1, <2>3 DEF Call, Returns
  <2>5. p - 1 = sp - argc - 1
    BY DEF p
  <2>. QED  BY <1>0, <2>4, <2>5, RejectIs
<1>2. CASE stk[p] # Sym
  <2>1. PushAll(<<Exc>>, ErrFail)
    BY <1>2 DEF InvokeMethod
  <2>. QED  BY <2>1, PushOneIs, AtomsAreValues, HeldFresh
<1>. QED  BY <1>1, <1>2

\* Running the main function of a module.
LEMMA RunMainIs ==
    ASSUME FramesNested, up, NEW noret \in BOOLEAN, sp >= fp, stk[sp] = Mod, Room(2),
           globals[Main] \in Value, globals' = globals,
           Call(Put(sp, <<globals[Main]>>), sp + 1, noret)
    PROVE  StepIs
<1>. DEFINE v == globals[Main]
            s == Put(sp, <<v>>)
            p == sp + 1
<1>0. /\ sp \in Nat /\ fp \in Nat /\ 1 <= fp /\ sp = Len(stk) /\ stk \in Seq(Value)
      /\ sp + 2 <= StackSize /\ sp + 2 < fp + MaxVals /\ MaxVals \in Int
      /\ sp \in 0 .. sp /\ sp <= sp
  BY StackIs, BoundsAssumption DEF Room
<1>1. v \in Value /\ <<v>> \in Seq(Value) /\ Len(<<v>>) = 1 /\ <<v>>[1] = v
  OBVIOUS
<1>2. Call(s, p, noret)
  OBVIOUS
<1>3. s \in Seq(Value) /\ Len(s) = p /\ \A q \in 1 .. sp : s[q] = stk[q]
  <2>. HIDE DEF v
  <2>. QED  BY <1>0, <1>1, PutIs
<1>4. s[p] = v
  <2>. HIDE DEF v
  <2>. QED  BY <1>0, <1>1 DEF Put
<1>5. p \in Nat /\ fp <= p /\ p <= sp + 1 /\ p <= StackSize /\ p - 1 = sp /\ p <= p
      /\ Len(s) - p = 0
  BY <1>0, <1>3, StackAssumption
<1>. HIDE DEF s
<1>6. CASE v # Func(0)
  <2>1. s[p] # Func(Len(s) - p)
    BY <1>4, <1>5, <1>6
  <2>2. stk' = Put(sp, <<Exc>>) /\ ret' = ErrFail /\ InFrame
    BY <1>2, <1>5, <2>1 DEF Call, Returns
  <2>3. PushAll(<<Exc>>, ErrFail)
    <3>1. Len(<<Exc>>) = 1
      OBVIOUS
    <3>2. Room(1)
      BY <1>0, StackAssumption DEF Room
    <3>. QED  BY <2>2, <3>1, <3>2 DEF PushAll, Returns
  <2>4. InCallStep
    BY <2>3, PushOneIs, AtomsAreValues, HeldFresh
  <2>. QED  BY <2>4, InCallIs
<1>7. CASE v = Func(0)
  <2>1. s[p] = Func(Len(s) - p)
    BY <1>4, <1>5, <1>7
  <2>2. Same(stk, s, p - 1)
    <3>1. sp <= Len(s)
      BY <1>0, <1>3
    <3>2. Same(stk, s, sp)
      BY <1>3, <3>1 DEF Same
    <3>. QED  BY <1>5, <3>2
  <2>3. /\ Outer' = Append(Outer, WithVals(Depth, SubSeq(stk, fp, p - 1)))
        /\ Cur' = CallOf(s[p], SubSeq(s, p + 1, Len(s)), <<>>, -1, noret)
        /\ Callees => Callees'
        /\ ret' = ret /\ up' = up
    <3>. HIDE DEF p, v
    <3>. QED  BY <1>0, <1>2, <1>3, <1>5, <2>1, <2>2, EnterIs
  <2>4. SubSeq(s, p + 1, Len(s)) = <<>>
    BY <1>0, <1>3
  <2>5. WithVals(Depth, SubSeq(stk, fp, p - 1)) = Cur
    BY <1>0, <1>5, CurVals, CallIs, CallParts DEF Cur
  <2>6. Abstract!Call(v, <<>>, noret) = CallOf(v, <<>>, <<>>, -1, noret)
    BY DEF Abstract!Call, CallOf
  <2>7. Cur.vals # <<>> /\ Cur.vals[Len(Cur.vals)] = Mod
    <3>1. sp - fp + 1 \in 1 .. sp - fp + 1 /\ fp + (sp - fp + 1) - 1 = sp /\ sp - fp + 1 > 0
      BY <1>0
    <3>. QED  BY <3>1, CurVals
  <2>8. Abstract!Runs
    <3>1. Outer' = Append(Outer, Cur) /\ Cur' = Abstract!Call(globals[Main], <<>>, noret)
      BY <1>4, <2>3, <2>4, <2>5, <2>6
    <3>. QED  BY <2>3, <2>7, <3>1, ValuesAssumption, SameValues DEF Abstract!Runs
  <2>. QED  BY <2>3, <2>8 DEF StepIs, Abstract!Next
<1>. QED  BY <1>6, <1>7

\* Invoking a module.
LEMMA InvokeModuleIs ==
    ASSUME FramesNested, up, NEW main \in BOOLEAN, NEW noret \in BOOLEAN,
           InvokeModule(main, noret)
    PROVE  StepIs
<1>1. CASE stk[sp] # Mod
  <2>1. PushAll(<<Exc>>, ErrFail)
    BY <1>1 DEF InvokeModule
  <2>2. InCallStep
    BY <2>1, PushOneIs, AtomsAreValues, HeldFresh
  <2>. QED  BY <2>2, InCallIs
<1>2. CASE stk[sp] = Mod /\ main /\ globals[Main] \notin {None, Nil}
  <2>1. /\ Room(2) /\ Call(Put(sp, <<globals[Main]>>), sp + 1, noret)
        /\ globals' = globals /\ sp >= fp + 0
    BY <1>2 DEF InvokeModule, MayInvoke
  <2>2. globals[Main] \in Value /\ sp >= fp
    BY <1>2, <2>1, GlobalIn, ValuesAssumption, StackIs
  <2>. QED  BY <1>2, <2>1, <2>2, RunMainIs
<1>3. CASE stk[sp] = Mod /\ ~ (main /\ globals[Main] \notin {None, Nil})
  <2>. DEFINE vs == IF noret THEN <<>> ELSE <<Nil>>
  <2>1. PushAll(vs, 0)
    BY <1>3 DEF InvokeModule
  <2>2. vs \in Seq(Value) /\ \A i \in DOMAIN vs : vs[i] \in Abstract!Held
    BY AtomsAreValues, HeldFresh
  <2>. HIDE DEF vs
  <2>3. InCallStep
    BY <2>1, <2>2, PushIs
  <2>. QED  BY <2>3, InCallIs
<1>. QED  BY <1>1, <1>2, <1>3

\* The top of the stack is the last of a call's callee, arguments and values.
LEMMA LastIs ==
    ASSUME FramesNested, Depth > 0
    PROVE  LET all == (<<Cur.fn>> \o Cur.args) \o Cur.vals
           IN  all[Len(all)] = stk[sp]
<1>. DEFINE a == Cur.args
            c == Cur.vals
            f == Cur.fn
            x == <<f>> \o a
            all == x \o c
<1>0. /\ sp \in Nat /\ fp \in Nat /\ arg_list \in Nat /\ 2 <= arg_list /\ arg_list <= fp
      /\ fp <= sp + 1 /\ sp = Len(stk) /\ stk \in Seq(Value)
  BY StackIs, ArgList
<1>1. /\ c \in Seq(Value) /\ Len(c) = sp - fp + 1
      /\ \A i \in 1 .. sp - fp + 1 : c[i] = stk[fp + i - 1]
  BY CurVals
<1>2. /\ a \in Seq(Value) /\ Len(a) = fp - arg_list
      /\ \A i \in 1 .. fp - arg_list : a[i] = stk[arg_list + i - 1]
  BY CurArgs
<1>3. f = stk[arg_list - 1] /\ f \in Value
  <2>1. Depth # 0
    BY StackIs
  <2>2. f = stk[arg_list - 1]
    BY <2>1, CallParts DEF Cur, FnOf, arg_list
  <2>3. arg_list - 1 \in 1 .. Len(stk)
    BY <1>0
  <2>. QED  BY <1>0, <2>2, <2>3, ElementIn
<1>. HIDE DEF a, c, f
<1>4. /\ <<f>> \in Seq(Value) /\ Len(<<f>>) = 1 /\ <<f>>[1] = f
  BY <1>3
<1>5. /\ x \in Seq(Value) /\ Len(x) = 1 + Len(a)
      /\ \A i \in 1 .. 1 + Len(a) : x[i] = IF i <= 1 THEN <<f>>[i] ELSE a[i - 1]
  BY <1>2, <1>4, ConcatProperties
<1>. HIDE DEF x
<1>6. /\ Len(all) = Len(x) + Len(c)
      /\ \A i \in 1 .. Len(x) + Len(c) : all[i] = IF i <= Len(x) THEN x[i] ELSE c[i - Len(x)]
  BY <1>1, <1>5, ConcatProperties
<1>. HIDE DEF all
<1>7. Len(all) \in 1 .. Len(x) + Len(c) /\ Len(x) \in Nat /\ Len(c) \in Nat /\ Len(a) \in Nat
  BY <1>0, <1>1, <1>2, <1>5, <1>6
<1>8. all[Len(all)] = stk[sp]
  <2>1. CASE fp <= sp
    <3>1. Len(c) \in 1 .. sp - fp + 1 /\ fp + Len(c) - 1 = sp /\ Len(all) - Len(x) = Len(c)
          /\ ~ (Len(all) <= Len(x))
      BY <1>0, <1>1, <1>6, <1>7, <2>1
    <3>. QED  BY <1>1, <1>6, <1>7, <3>1
  <2>2. CASE ~ (fp <= sp)
    <3>0. sp = fp - 1 /\ sp - fp + 1 = 0
      BY <1>0, <2>2
    <3>1. Len(c) = 0 /\ Len(all) = Len(x) /\ Len(x) \in 1 .. 1 + Len(a)
      <4>1. Len(c) = 0
        BY <1>1, <3>0
      <4>2. Len(all) = Len(x)
        BY <1>6, <1>7, <4>1
      <4>. QED  BY <1>5, <1>7, <4>1, <4>2
    <3>2. all[Len(all)] = x[Len(x)]
      BY <1>6, <1>7, <3>1
    <3>3. CASE Len(a) = 0
      <4>1. arg_list - 1 = sp /\ Len(x) = 1
        BY <1>0, <1>2, <1>5, <2>2, <3>3
      <4>2. 1 \in 1 .. 1 + Len(a)
        BY <1>7
      <4>3. x[1] = f
        BY <1>4, <1>5, <4>2
      <4>. QED  BY <1>3, <3>2, <4>1, <4>3
    <3>4. CASE Len(a) # 0
      <4>1. ~ (Len(x) <= 1) /\ Len(x) - 1 = Len(a) /\ Len(a) \in 1 .. fp - arg_list
            /\ arg_list + Len(a) - 1 = sp
        <5>1. Len(x) = 1 + Len(a) /\ Len(a) = fp - arg_list
          BY <1>2, <1>5
        <5>. QED  BY <1>0, <1>7, <3>0, <3>4, <5>1
      <4>. QED  BY <1>2, <1>5, <3>1, <3>2, <4>1
    <3>. QED  BY <3>3, <3>4
  <2>. QED  BY <2>1, <2>2
<1>. QED  BY <1>8 DEF all, x, a, c, f

\* A native function returns.
LEMMA ReturnIs ==
    ASSUME FramesNested, up, NEW status \in -1 .. 1, Return(status)
    PROVE  StepIs
<1>. DEFINE f == frames[Depth]
            v == IF status = 0 THEN Nil ELSE stk[sp]
            vs == IF status < 0 \/ ~ f.noret THEN <<v>> ELSE <<>>
            n == f.argl - 2
<1>. PICK m \in Nat : m = Depth - 1
  BY StackIs DEF Return
<1>0. /\ Depth > 0 /\ fp' = f.pfp /\ stk' = Put(n, vs)
      /\ frames' = SubSeq(frames, 1, Depth - 1) /\ jb' = SubSeq(jb, 1, Depth)
      /\ ret' = (IF status < 0 THEN ErrFail ELSE 0) /\ globals' = globals /\ up' = up
  BY DEF Return, Returns
<1>1. /\ Depth \in Nat /\ Depth \in 1 .. Depth /\ m \in 0 .. Depth /\ m + 1 = Depth /\ m < Depth
      /\ m # Depth /\ sp \in Nat /\ fp \in Nat /\ 1 <= fp /\ fp <= sp + 1 /\ stk \in Seq(Value)
      /\ sp = Len(stk)
  BY <1>0, StackIs
<1>2. f.noret \in BOOLEAN /\ f.argl \in Nat /\ 2 <= f.argl
  BY <1>1, FrameIs
<1>3. FpOf(m) = f.pfp /\ EndOf(m) = n
  BY <1>1 DEF FpOf, EndOf
<1>4. n \in 0 .. sp /\ FpOf(m) - 1 <= n /\ FpOf(m) \in Nat /\ 1 <= FpOf(m) /\ n \in Nat
  <2>1. EndOf(m) \in Nat /\ FpOf(m) - 1 <= EndOf(m) /\ EndOf(m) <= sp
        /\ FpOf(m) \in Nat /\ 1 <= FpOf(m)
    BY <1>1, FrameBounds
  <2>. QED  BY <1>1, <1>3, <2>1
<1>5. v \in Value /\ vs \in Seq(Value)
  <2>1. stk[sp] \in Value
    <3>1. sp \in 1 .. Len(stk)
      <4>1. f.argl <= fp
        BY <1>0, ArgList DEF arg_list
      <4>. QED  BY <1>1, <1>2, <4>1
    <3>. QED  BY <1>1, <3>1, ElementIn
  <2>. QED  BY <2>1, AtomsAreValues
<1>. HIDE DEF v, n
<1>6. /\ Outer' = SubSeq(Outer, 1, m)
      /\ Cur' = WithVals(m, SubSeq(stk, FpOf(m), n) \o vs)
      /\ Callees => Callees'
  <2>1. fp' = FpOf(m) /\ frames' = SubSeq(frames, 1, m) /\ jb' = SubSeq(jb, 1, m + 1)
    BY <1>0, <1>1, <1>3
  <2>. HIDE DEF vs
  <2>. QED  BY <1>0, <1>1, <1>4, <1>5, <2>1, CutBack
<1>7. Len(Outer) = Depth /\ Outer[Depth] = CallAt(m)
  BY <1>1 DEF Outer
<1>8. ValsOf(m) = SubSeq(stk, FpOf(m), n) /\ ValsOf(m) \in Seq(Value)
  <2>1. SubSeq(stk, FpOf(m), n) \in Seq(Value)
    BY <1>1, <1>4, CellsIs
  <2>. QED  BY <1>3, <2>1 DEF ValsOf
<1>9. Cur.noret = f.noret
  <2>1. Cur.noret = NoretOf(Depth)
    BY CallParts DEF Cur
  <2>. QED  BY <1>0, <1>2, <2>1 DEF NoretOf
<1>. DEFINE u == ValsOf(m)
            t == IF status < 0 \/ ~ Cur.noret THEN Append(u, v) ELSE u
<1>10. u \o vs = t
  <2>. HIDE DEF u
  <2>. QED  BY <1>5, <1>8, <1>9 DEF u
<1>11. Cur' = [Outer[Depth] EXCEPT !.vals = t]
  <2>1. Cur' = WithVals(m, t)
    <3>. HIDE DEF t, vs
    <3>. QED  BY <1>6, <1>8, <1>10
  <2>. HIDE DEF t
  <2>. QED  BY <1>7, <2>1, ExceptVals
<1>12. CallAt(m).vals = u
  BY CallParts
<1>13. Abstract!Returns(status)
  <2>. DEFINE all == (<<Cur.fn>> \o Cur.args) \o Cur.vals
              w == IF status = 0 THEN Abstract!Nil ELSE all[Len(all)]
  <2>1. w = v
    BY <1>0, LastIs, SameValues DEF v
  <2>2. Outer[Depth].vals = u
    BY <1>7, <1>12
  <2>3. Cur' = [Outer[Depth] EXCEPT !.vals = IF status < 0 \/ ~ Cur.noret
                                              THEN Append(@, w) ELSE @]
    <3>. HIDE DEF w, v, u
    <3>. QED  BY <1>11, <2>1, <2>2
  <2>4. Outer' = SubSeq(Outer, 1, Depth - 1)
    BY <1>1, <1>6
  <2>. HIDE DEF v, u, t, vs
  <2>. QED  BY <1>0, <1>7, <2>3, <2>4, SameValues DEF Abstract!Returns, Abstract!Prefix
<1>. QED  BY <1>6, <1>13 DEF StepIs, Abstract!Next

\* owiz_setjmp: only the mark of the innermost call changes.
LEMMA SetjmpIs ==
    ASSUME FramesNested, Setjmp
    PROVE  InCallStep
<1>. PICK D \in Nat : D = Depth
  BY StackIs
<1>. DEFINE b == [sp |-> sp, fp |-> fp, fi |-> Depth]
<1>0. /\ UNCHANGED <<stk, fp, frames, globals, ret, up>>
      /\ jb' = [jb EXCEPT ![D + 1] = b]
  BY DEF Setjmp
<1>1. /\ sp \in Nat /\ fp \in Nat /\ 1 <= fp /\ Len(Cur.vals) = sp - fp + 1
      /\ Len(jb) = D + 1 /\ DOMAIN jb = 1 .. D + 1
  BY StackIs, CurVals DEF FramesNested, TypeOK
<1>2. /\ jb'[D + 1] = b /\ \A d \in 1 .. D : jb'[d] = jb[d]
      /\ Depth' = D /\ sp' = sp
  BY <1>0, <1>1 DEF Depth, sp
<1>3. b # NoJmp /\ b.sp - b.fp + 1 = Len(Cur.vals)
  BY <1>1 DEF NoJmp
<1>. HIDE DEF b
<1>4. \A d \in 0 .. D : /\ FpOf(d)' = FpOf(d) /\ EndOf(d)' = EndOf(d) /\ FnOf(d)' = FnOf(d)
                        /\ NoretOf(d)' = NoretOf(d)
  BY <1>0, <1>2 DEF FpOf, EndOf, FnOf, NoretOf
<1>5. \A d \in 0 .. D : ArgsOf(d)' = ArgsOf(d) /\ ValsOf(d)' = ValsOf(d)
  BY <1>0, <1>4 DEF ArgsOf, ValsOf
<1>6. ASSUME NEW d \in 0 .. D, d # D
      PROVE  CallAt(d)' = CallAt(d)
  <2>1. d + 1 \in 1 .. D
    BY <1>6
  <2>2. MarkOf(d)' = MarkOf(d)
    BY <1>2, <2>1 DEF MarkOf
  <2>3. CallAt(d)' = WithVals(d, ValsOf(d))'
    BY CallIs
  <2>. QED  BY <1>4, <1>5, <2>2, <2>3, CallIs DEF WithVals
<1>7. Cur' = CallOf(FnOf(D), ArgsOf(D), ValsOf(D), Len(Cur.vals), NoretOf(D))
  <2>1. MarkOf(D)' = Len(Cur.vals)
    BY <1>2, <1>3 DEF MarkOf
  <2>2. Cur' = CallAt(D)'
    BY <1>2 DEF Cur, CallAt
  <2>3. CallAt(D)' = WithVals(D, ValsOf(D))'
    BY CallIs
  <2>4. D \in 0 .. D
    OBVIOUS
  <2>. QED  BY <1>4, <1>5, <2>1, <2>2, <2>3, <2>4 DEF WithVals
<1>8. Cur' = [Cur EXCEPT !.mark = Len(Cur.vals)]
  <2>1. Cur = CallOf(FnOf(D), ArgsOf(D), ValsOf(D), MarkOf(D), NoretOf(D))
    BY CallIs DEF Cur, WithVals
  <2>. DEFINE l == Len(Cur.vals)
  <2>. HIDE DEF l
  <2>2. [Cur EXCEPT !.mark = l] = CallOf(FnOf(D), ArgsOf(D), ValsOf(D), l, NoretOf(D))
    BY <2>1 DEF CallOf
  <2>. QED  BY <1>7, <2>2 DEF l
<1>9. Outer' = Outer
  <2>1. Outer' = [d \in 1 .. D |-> CallAt(d - 1)'] /\ Outer = [d \in 1 .. D |-> CallAt(d - 1)]
    BY <1>2 DEF Outer
  <2>2. \A d \in 1 .. D : d - 1 \in 0 .. D /\ d - 1 # D
    OBVIOUS
  <2>. QED  BY <1>6, <2>1, <2>2
<1>10. Callees => Callees'
  BY <1>2, <1>4 DEF Callees
<1>11. Abstract!Marks
  BY <1>0, <1>8, <1>9 DEF Abstract!Marks
<1>. QED  BY <1>9, <1>10, <1>11 DEF InCallStep, Abstract!InCall

\* owiz_longjmp to a buffer that is accepted.
LEMMA JumpIs ==
    ASSUME FramesNested, up, NEW d \in 0 .. Depth, jb[d + 1] # NoJmp, Accepts(jb[d + 1]),
           Longjmp(d)
    PROVE  StepIs
<1>. PICK D \in Nat : D = Depth
  BY StackIs
<1>. PICK n : n = jb[d + 1].sp
  OBVIOUS
<1>0. /\ stk' = Put(n, <<>>) /\ fp' = jb[d + 1].fp
      /\ frames' = SubSeq(frames, 1, jb[d + 1].fi) /\ jb' = SubSeq(jb, 1, jb[d + 1].fi + 1)
      /\ ret' = 0 /\ globals' = globals /\ up' = up
  BY DEF Longjmp, Returns
<1>1. jb[d + 1].fi = d /\ jb[d + 1].fp = FpOf(d) /\ n >= FpOf(d) - 1
  BY DEF FramesNested, BuffersMatch
<1>2. n <= sp /\ d # 0
  BY <1>1 DEF Accepts
<1>3. /\ d \in Nat /\ sp \in Nat /\ stk \in Seq(Value) /\ sp = Len(stk)
      /\ FpOf(d) \in Nat /\ 1 <= FpOf(d) /\ EndOf(d) \in Nat /\ FpOf(d) - 1 <= EndOf(d)
      /\ EndOf(d) <= sp
  BY StackIs, FrameBounds
<1>4. n \in 0 .. sp /\ n \in Nat /\ FpOf(d) - 1 <= n
  <2>1. n \in Int
    <3>. DEFINE J == [sp : 0 .. StackSize, fp : 0 .. StackSize + 1, fi : Nat]
    <3>1. jb \in Seq(J) /\ d + 1 \in 1 .. Len(jb)
      BY <1>3 DEF FramesNested, TypeOK
    <3>. HIDE DEF J
    <3>2. jb[d + 1] \in J
      BY <3>1, ElementIn
    <3>. QED  BY <3>2 DEF J
  <2>. QED  BY <1>1, <1>2, <1>3, <2>1
<1>. DEFINE u == SubSeq(stk, FpOf(d), n)
<1>5. u \in Seq(Value) /\ Len(u) = n - FpOf(d) + 1
      /\ \A i \in 1 .. n - FpOf(d) + 1 : u[i] = stk[FpOf(d) + i - 1]
  <2>. DEFINE a == FpOf(d)
  <2>1. /\ a \in Nat /\ 1 <= a /\ a - 1 <= n /\ n \in Nat /\ n <= Len(stk)
        /\ stk \in Seq(Value)
    BY <1>2, <1>3, <1>4
  <2>. HIDE DEF a
  <2>2. /\ SubSeq(stk, a, n) \in Seq(Value) /\ Len(SubSeq(stk, a, n)) = n - a + 1
        /\ \A i \in 1 .. n - a + 1 : SubSeq(stk, a, n)[i] = stk[a + i - 1]
    BY <2>1, CellsIs, SMTT(30)
  <2>. QED  BY <2>2 DEF a
<1>6. /\ Outer' = SubSeq(Outer, 1, d)
      /\ Cur' = WithVals(d, u)
      /\ Callees => Callees'
  <2>1. /\ Outer' = SubSeq(Outer, 1, d)
        /\ Cur' = WithVals(d, SubSeq(stk, FpOf(d), n) \o <<>>)
        /\ Callees => Callees'
    <3>1. fp' = FpOf(d) /\ frames' = SubSeq(frames, 1, d) /\ jb' = SubSeq(jb, 1, d + 1)
          /\ <<>> \in Seq(Value)
      BY <1>0, <1>1
    <3>. QED  BY <1>0, <1>4, <3>1, CutBack
  <2>2. u \o <<>> = u
    <3>. HIDE DEF u
    <3>. QED  BY <1>5
  <2>. QED  BY <2>1, <2>2
<1>. HIDE DEF u
<1>7. Len(Outer) = D /\ (IF d + 1 > Len(Outer) THEN Cur ELSE Outer[d + 1]) = CallAt(d)
  <2>1. Len(Outer) = D
    BY DEF Outer
  <2>2. CASE d = D
    BY <2>1, <2>2 DEF Cur
  <2>3. CASE d # D
    <3>1. ~ (d + 1 > D) /\ d + 1 \in 1 .. Depth /\ (d + 1) - 1 = d
      BY <2>3, <1>3
    <3>2. Outer[d + 1] = CallAt(d)
      BY <3>1 DEF Outer
    <3>. QED  BY <2>1, <3>1, <3>2
  <2>. QED  BY <2>1, <2>2, <2>3
<1>8. CallAt(d).mark = n - FpOf(d) + 1
  <2>1. MarkOf(d) = n - FpOf(d) + 1
    BY <1>1 DEF MarkOf
  <2>. QED  BY <2>1, CallParts
<1>9. Cur'.vals = u /\ Cur' = [CallAt(d) EXCEPT !.vals = u]
  BY <1>6, ExceptVals DEF WithVals, CallOf
<1>. DEFINE v == CallAt(d).vals
<1>10. v = SubSeq(stk, FpOf(d), EndOf(d))
  BY CallParts DEF ValsOf
<1>11. /\ v \in Seq(Value) /\ Len(v) = EndOf(d) - FpOf(d) + 1
       /\ \A i \in 1 .. EndOf(d) - FpOf(d) + 1 : v[i] = stk[FpOf(d) + i - 1]
  <2>. HIDE DEF v
  <2>. QED  BY <1>3, <1>10, CellsIs, SMTT(30)
<1>. HIDE DEF v
<1>12. \A i \in 1 .. Abstract!Least(Len(u), Len(v)) : u[i] = v[i]
  <2>. SUFFICES ASSUME NEW i \in 1 .. Abstract!Least(Len(u), Len(v))
                PROVE  u[i] = v[i]
    OBVIOUS
  <2>1. i \in 1 .. n - FpOf(d) + 1 /\ i \in 1 .. EndOf(d) - FpOf(d) + 1
    <3>. DEFINE k == n - FpOf(d) + 1
                l == EndOf(d) - FpOf(d) + 1
    <3>1. k \in Int /\ l \in Int /\ Len(u) = k /\ Len(v) = l
      BY <1>3, <1>4, <1>5, <1>11
    <3>. HIDE DEF k, l
    <3>2. i \in 1 .. k /\ i \in 1 .. l
      BY <3>1 DEF Abstract!Least
    <3>. QED  BY <3>2 DEF k, l
  <2>. QED  BY <1>5, <1>11, <2>1
<1>13. Abstract!Jumps(d + 1)
  <2>1. d + 1 > 1 /\ CallAt(d).mark >= 0 /\ (d + 1) - 1 = d /\ Len(u) = CallAt(d).mark
    BY <1>2, <1>3, <1>4, <1>5, <1>8
  <2>2. \A i \in 1 .. Abstract!Least(Len(u), Len(CallAt(d).vals)) : u[i] = CallAt(d).vals[i]
    BY <1>12 DEF v
  <2>3. Outer' = SubSeq(Outer, 1, (d + 1) - 1)
    BY <1>6, <2>1
  <2>. QED  BY <1>0, <1>7, <1>9, <2>1, <2>2, <2>3 DEF Abstract!Jumps, Abstract!Prefix
<1>14. d + 1 \in 1 .. Len(Outer) + 1
  BY <1>3, <1>7
<1>. QED  BY <1>6, <1>13, <1>14 DEF StepIs, Abstract!Next

\* Invoking, returning, saving a jump buffer and jumping.
LEMMA ControlsAre ==
    ASSUME FramesNested, up, ClientControls
    PROVE  StepIs
<1>1. CASE \E argc \in Count, noret \in BOOLEAN : Invoke(argc, noret)
  BY <1>1, InvokeIs
<1>2. CASE \E argc \in Count, noret \in BOOLEAN : InvokeMethod(argc, noret)
  BY <1>2, InvokeMethodIs, InCallIs
<1>3. CASE \E main, noret \in BOOLEAN : InvokeModule(main, noret)
  BY <1>3, InvokeModuleIs
<1>4. CASE \E status \in -1 .. 1 : Return(status)
  BY <1>4, ReturnIs
<1>5. CASE Setjmp
  BY <1>5, SetjmpIs, InCallIs
<1>6. CASE \E d \in 0 .. Depth : Longjmp(d)
  <2>. PICK d \in 0 .. Depth : Longjmp(d)
    BY <1>6
  <2>1. jb[d + 1] # NoJmp
    BY DEF Longjmp
  <2>2. CASE Accepts(jb[d + 1])
    BY <2>1, <2>2, JumpIs
  <2>3. CASE ~ Accepts(jb[d + 1])
    <3>1. Fails(ErrFail)
      BY <2>3 DEF Longjmp
    <3>. QED  BY <3>1, FailsIs, InCallIs
  <2>. QED  BY <2>2, <2>3
<1>. QED
  BY <1>1, <1>2, <1>3, <1>4, <1>5, <1>6 DEF ClientControls

-----------------------------------------------------------------------------
(* The refinement *)

\* At first there is only the host, which has no values and has marked that.
LEMMA InitIs ==
    ASSUME Init
    PROVE  Abstract!Init /\ Callees
<1>1. Depth = 0 /\ sp = 0 /\ fp = 1 /\ stk = <<>> /\ frames = <<>>
      /\ jb[1] = [sp |-> 0, fp |-> 1, fi |-> 0]
  BY DEF Init, Depth, sp
<1>2. FpOf(0) = 1 /\ EndOf(0) = 0
  BY <1>1 DEF FpOf, EndOf
<1>3. ValsOf(0) = <<>> /\ ArgsOf(0) = <<>> /\ FnOf(0) = None /\ NoretOf(0) = FALSE
  BY <1>1, <1>2 DEF ValsOf, ArgsOf, FnOf, NoretOf
<1>4. MarkOf(0) = 0
  BY <1>1 DEF MarkOf, NoJmp
<1>5. Cur = CallOf(None, <<>>, <<>>, 0, FALSE)
  BY <1>1, <1>3, <1>4, CallIs DEF Cur, WithVals
<1>6. [Abstract!Call(Abstract!None, <<>>, FALSE) EXCEPT !.mark = 0]
         = CallOf(None, <<>>, <<>>, 0, FALSE)
  <2>1. Abstract!Call(Abstract!None, <<>>, FALSE) = CallOf(None, <<>>, <<>>, -1, FALSE)
    BY SameValues DEF Abstract!Call, CallOf
  <2>. DEFINE e == <<>>
              no == FALSE
              m == -1
              o == 0
              x == Abstract!Call(Abstract!None, <<>>, FALSE)
  <2>2. x = CallOf(None, e, e, m, no)
    BY <2>1
  <2>. HIDE DEF e, no, m, o, x
  <2>3. [CallOf(None, e, e, m, no) EXCEPT !.mark = o] = CallOf(None, e, e, o, no)
    BY MarkExcept
  <2>4. [x EXCEPT !.mark = o] = CallOf(None, e, e, o, no)
    BY <2>2, <2>3
  <2>. QED  BY <2>4 DEF x, e, no, o
<1>7. Outer = <<>>
  BY <1>1 DEF Outer
<1>8. Callees
  BY <1>1 DEF Callees
<1>. QED  BY <1>5, <1>6, <1>7, <1>8 DEF Abstract!Init, Init

\* Every step on the shared stack is a step of the calls, or none.
LEMMA StepAbstract ==
    ASSUME FramesNested, Callees, [Next]_vars
    PROVE  [Abstract!Next]_(Abstract!vars) /\ Callees'
<1>1. CASE Next
  <2>1. up
    BY <1>1 DEF Next
  <2>2. StepIs
    BY <1>1, <2>1, PushesAre, ReadsAre, StoresAre, ControlsAre, InCallIs DEF Next
  <2>. QED  BY <2>2 DEF StepIs
<1>2. CASE UNCHANGED vars
  <2>1. Cur' = Cur /\ Outer' = Outer /\ (Callees => Callees')
    BY <1>2, StackStays DEF vars
  <2>. QED  BY <1>2, <2>1 DEF vars, Abstract!vars
<1>. QED  BY <1>1, <1>2

\* For every stack size and every client, the functions of the C API that share
\* one stack implement calls that have callees, arguments and values of their
\* own (toplevels/api.c, machine/invoke.c, ow_machine_longjmp).
THEOREM ImplementsFrames == Spec => IsFrames
<1>1. Init => FramesNested /\ Abstract!Init /\ Callees
  BY InitNested, InitIs
<1>2. FramesNested /\ Callees /\ [Next]_vars
         => FramesNested' /\ Callees' /\ [Abstract!Next]_(Abstract!vars)
  BY StepNested, StepAbstract
<1>. QED  BY <1>1, <1>2, PTL DEF Spec, IsFrames, Abstract!Spec
=============================================================================
