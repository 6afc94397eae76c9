--------------------------- MODULE AssemblerProofs ---------------------------
(***************************************************************************)
(* Proofs about Assembler, for functions of any size and integers of any   *)
(* width: the second pass stays inside the buffer the first one measured,  *)
(* and the jumps land on their labels.                                     *)
(*                                                                         *)
(* The inductive invariant says what the first pass has established for    *)
(* each instruction it has left behind (Laid), that addresses are at most  *)
(* three bytes apart per instruction (Spread, which is what justifies      *)
(* INT8_MAX / 3), and how the bytes written follow the addresses.          *)
(***************************************************************************)
EXTENDS Assembler, TLAPS

LabelsOK ==
    /\ Len(labels) <= MaxLabels
    /\ \A l \in 1 .. Len(labels) : labels[l] <= Len(instr_seq) + 1

TargetsOK ==
    \A k \in 1 .. Len(instr_seq) :
        /\ instr_seq[k].target <= Len(labels)
        /\ instr_seq[k].operand_is_label => instr_seq[k].target # 0

\* A jump not yet looked at by the first pass.
Fresh(instr) == instr.target # 0 => instr.operand_is_label /\ instr.width = 1

EditOK ==
    pc = "edit" =>
        /\ i = 1 /\ addr_map = <<>> /\ code_seq_len = 0
        /\ code = <<>> /\ code_seq_ptr = 0
        /\ \A k \in 1 .. Len(instr_seq) : Fresh(instr_seq[k])

PlacedOK ==
    pc # "edit" =>
        \A k \in 1 .. Len(instr_seq) :
            instr_seq[k].target # 0 => labels[instr_seq[k].target] # 0

\* What the first pass leaves of the instruction at k, whose label is at
\* lbl, when the addresses are a.
Laid(instr, lbl, a, k) ==
    /\ a[k + 1] - a[k] >= 1 + instr.width
    /\ instr.target = 0 => a[k + 1] - a[k] = 1 + instr.width
    /\ instr.target # 0 /\ lbl > k =>
          /\ instr.operand_is_label
          /\ instr.width = IF UseWidthOperand(lbl - k) THEN 2 ELSE 1
          /\ a[k + 1] - a[k] = 1 + instr.width
    /\ instr.target # 0 /\ lbl <= k =>
          /\ ~ instr.operand_is_label
          /\ instr.width = 1
          /\ instr.operand = a[lbl] - a[k]
          /\ instr.operand >= - I8Max - 1 => a[k + 1] - a[k] = 2

Spread(a) ==
    \A j, k \in 1 .. Len(a) : j <= k => a[j] <= a[k] /\ a[k] - a[j] <= 3 * (k - j)

\* The addresses known in the first pass: that of the next instruction too.
Known == Append(addr_map, code_seq_len)

MeasureOK ==
    pc = "measure" =>
        /\ i \in 1 .. Len(instr_seq) + 1
        /\ Len(addr_map) = i - 1
        /\ code = <<>> /\ code_seq_ptr = 0
        /\ \A k \in i .. Len(instr_seq) : Fresh(instr_seq[k])
        /\ \A k \in 1 .. i - 1 :
              Laid(instr_seq[k], labels[instr_seq[k].target], Known, k)
        /\ Spread(Known)
        /\ Known[1] = 0

\* One byte is enough for every jump back.
Narrow ==
    \A k \in 1 .. Len(instr_seq) :
        instr_seq[k].target # 0 /\ labels[instr_seq[k].target] <= k
            => addr_map[k] - addr_map[labels[instr_seq[k].target]] <= I8Max + 1

\* What the second pass writes of the instruction at k.
OperandOf(instr, lbl, a, k) ==
    IF instr.operand_is_label THEN a[lbl] - a[k] ELSE instr.operand

OutputOK ==
    /\ Len(code) = i - 1
    /\ code_seq_ptr <= addr_map[i]
    /\ Narrow => code_seq_ptr = addr_map[i]
    /\ \A k \in 1 .. i - 1 :
          /\ code[k].operand = Stored(instr_seq[k].width,
                OperandOf(instr_seq[k], labels[instr_seq[k].target], addr_map, k))
          /\ Narrow => code[k].addr = addr_map[k]

EmitOK ==
    pc \in {"emit", "done"} =>
        /\ i \in 1 .. Len(instr_seq) + 1
        /\ Len(addr_map) = Len(instr_seq) + 1
        /\ \A k \in 1 .. Len(instr_seq) :
              Laid(instr_seq[k], labels[instr_seq[k].target], addr_map, k)
        /\ Spread(addr_map)
        /\ OutputOK
        /\ pc = "done" => i = Len(instr_seq) + 1

\* The inductive invariant.
IInv ==
    /\ TypeOK /\ LabelsOK /\ TargetsOK
    /\ EditOK /\ PlacedOK /\ MeasureOK /\ EmitOK

-----------------------------------------------------------------------------
\* The fields of an instruction.
LEMMA InstrType ==
  ASSUME NEW s \in Seq(Instr), NEW k \in 1 .. Len(s)
  PROVE  /\ s[k] \in Instr
         /\ s[k].target \in Nat /\ s[k].target <= MaxLabels
         /\ s[k].width \in 0 .. 2 /\ s[k].operand \in Int
         /\ s[k].operand_is_label \in BOOLEAN
  <1>1. s[k] \in Instr OBVIOUS
  <1> QED BY <1>1, WidthAssumption DEF Instr

\* An element of a sequence of addresses.
LEMMA ElemNat ==
  ASSUME NEW a \in Seq(Nat), NEW j \in 1 .. Len(a)
  PROVE  a[j] \in Nat
  OBVIOUS

\* A sequence with one more element.
LEMMA Appended ==
  ASSUME NEW S, NEW s \in Seq(S), NEW e \in S
  PROVE  /\ Append(s, e) \in Seq(S) /\ Len(Append(s, e)) = Len(s) + 1
         /\ Append(s, e)[Len(s) + 1] = e
         /\ \A k \in 1 .. Len(s) : Append(s, e)[k] = s[k]
  OBVIOUS

\* The label of a jump whose target is in range has a position.
LEMMA LabelType ==
  ASSUME IInv, NEW k \in 1 .. Len(instr_seq), instr_seq[k].target # 0
  PROVE  /\ instr_seq[k].target \in 1 .. Len(labels)
         /\ labels[instr_seq[k].target] \in Nat
         /\ labels[instr_seq[k].target] <= Len(instr_seq) + 1
         /\ pc # "edit" => labels[instr_seq[k].target] # 0
  <1>1. instr_seq[k].target \in 1 .. Len(labels)
    BY InstrType DEF IInv, TypeOK, TargetsOK
  <1> QED BY SMTT(40), <1>1 DEF IInv, TypeOK, LabelsOK, PlacedOK

\* The initial state satisfies the invariant.
LEMMA InitInv == Init => IInv
  <1> SUFFICES ASSUME Init PROVE IInv
    OBVIOUS
  <1>1. TypeOK BY WidthAssumption DEF Init, TypeOK
  <1> QED BY <1>1, WidthAssumption
          DEF Init, IInv, LabelsOK, TargetsOK, EditOK, PlacedOK, MeasureOK, EmitOK

\* A label is placed or prepared before the output begins.
LEMMA LabelStep ==
  ASSUME IInv, pc = "edit", pc' = "edit", UNCHANGED layout, instr_seq' = instr_seq,
         labels' \in Seq(Nat), Len(labels') >= Len(labels), Len(labels') <= MaxLabels,
         \A l \in 1 .. Len(labels') : labels'[l] <= Len(instr_seq) + 1
  PROVE  IInv'
  <1>1. TypeOK' BY DEF IInv, TypeOK, layout
  <1>2. LabelsOK' BY DEF LabelsOK
  <1>3. TargetsOK'
    <2> SUFFICES ASSUME NEW k \in 1 .. Len(instr_seq)
                 PROVE  /\ instr_seq[k].target <= Len(labels')
                        /\ instr_seq[k].operand_is_label => instr_seq[k].target # 0
      BY DEF TargetsOK
    <2>1. instr_seq[k].target \in Nat BY InstrType DEF IInv, TypeOK
    <2>2. labels \in Seq(Nat) BY DEF IInv, TypeOK
    <2> QED BY <2>1, <2>2 DEF IInv, TargetsOK
  <1>4. EditOK' BY DEF IInv, EditOK, layout
  <1> QED BY <1>1, <1>2, <1>3, <1>4 DEF IInv, PlacedOK, MeasureOK, EmitOK

\* An instruction is appended before the output begins.
LEMMA InstrStep ==
  ASSUME IInv, pc = "edit", pc' = "edit", UNCHANGED layout, labels' = labels,
         NEW instr \in Instr, instr_seq' = Append(instr_seq, instr),
         instr.target <= Len(labels), instr.operand_is_label => instr.target # 0,
         Fresh(instr)
  PROVE  IInv'
  <1>1. instr_seq \in Seq(Instr) /\ labels \in Seq(Nat) BY DEF IInv, TypeOK
  <1>2. TypeOK' BY <1>1 DEF IInv, TypeOK, layout
  <1>3. LabelsOK' BY <1>1 DEF IInv, LabelsOK
  <1>4. TargetsOK' BY <1>1 DEF IInv, TargetsOK
  <1>5. EditOK' BY <1>1 DEF IInv, EditOK, layout
  <1> QED BY <1>2, <1>3, <1>4, <1>5 DEF IInv, PlacedOK, MeasureOK, EmitOK

\* Addresses stay spread when one more instruction of 1 to 3 bytes follows.
LEMMA SpreadExtends ==
  ASSUME NEW a \in Seq(Nat), Len(a) > 0, Spread(a), NEW size \in 1 .. 3
  PROVE  Spread(Append(a, a[Len(a)] + size))
  <1> DEFINE b == Append(a, a[Len(a)] + size)
             n == Len(a)
  <1>1. /\ n \in Nat /\ n > 0 /\ Len(b) = n + 1 /\ b[n + 1] = a[n] + size
        /\ \A k \in 1 .. n : b[k] = a[k] /\ a[k] \in Nat
    OBVIOUS
  <1> SUFFICES ASSUME NEW j \in 1 .. n + 1, NEW k \in 1 .. n + 1, j <= k
               PROVE  b[j] <= b[k] /\ b[k] - b[j] <= 3 * (k - j)
    BY <1>1 DEF Spread
  <1> HIDE DEF b
  <1>2. CASE k <= n BY <1>1, <1>2, SMTT(30) DEF Spread
  <1>3. CASE k = n + 1 /\ j <= n
    <2>1. a[j] <= a[n] /\ a[n] - a[j] <= 3 * (n - j) BY <1>1, <1>3 DEF Spread
    <2> QED BY <1>1, <1>3, <2>1, SMTT(30)
  <1>4. CASE k = n + 1 /\ j = n + 1 BY <1>1, <1>4
  <1> QED BY <1>1, <1>2, <1>3, <1>4

\* An instruction laid out stays so when an address is added.
LEMMA LaidExtends ==
  ASSUME NEW a \in Seq(Nat), NEW x \in Nat, NEW instr \in Instr, NEW lbl,
         instr.target # 0 => lbl \in Nat \ {0},
         NEW k \in 1 .. Len(a) - 1, Laid(instr, lbl, a, k)
  PROVE  Laid(instr, lbl, Append(a, x), k)
  <1>1. /\ \A j \in 1 .. Len(a) : Append(a, x)[j] = a[j] /\ a[j] \in Nat
        /\ k \in 1 .. Len(a) /\ k + 1 \in 1 .. Len(a)
    OBVIOUS
  <1>2. instr.target # 0 /\ lbl <= k => lbl \in 1 .. Len(a) BY <1>1
  <1> QED BY <1>1, <1>2 DEF Laid

\* One iteration of the first pass.
LEMMA SizedStep ==
  ASSUME IInv, Measuring, NEW instr \in Instr, NEW size \in 1 .. 3, Sized(instr, size),
         instr.target = instr_seq[i].target,
         instr.operand_is_label => instr.target # 0,
         Laid(instr, labels[instr.target], Append(Known, Known[i] + size), i)
  PROVE  IInv'
  <1>1. /\ instr_seq \in Seq(Instr) /\ labels \in Seq(Nat)
        /\ i \in 1 .. Len(instr_seq) /\ pc = "measure" /\ pc' = "measure"
        /\ addr_map \in Seq(Nat) /\ Len(addr_map) = i - 1 /\ code_seq_len \in Nat
    BY DEF IInv, TypeOK, MeasureOK, Measuring, Sized
  <1>2. /\ instr_seq' \in Seq(Instr) /\ Len(instr_seq') = Len(instr_seq) /\ labels' = labels
        /\ \A k \in 1 .. Len(instr_seq) : k # i => instr_seq'[k] = instr_seq[k]
        /\ instr_seq'[i] = instr
        /\ i' = i + 1
    BY <1>1 DEF Sized
  <1>3. /\ Known \in Seq(Nat) /\ Len(Known) = i /\ Known[i] = code_seq_len
        /\ addr_map' = Known
        /\ code_seq_len' = code_seq_len + size
        /\ Known' = Append(Known, Known[i] + size)
    BY <1>1 DEF Known, Sized
  <1>4. \A k \in 1 .. Len(instr_seq) : instr_seq'[k].target = instr_seq[k].target
    BY <1>1, <1>2
  <1>5. TypeOK' BY <1>1, <1>2, <1>3 DEF IInv, TypeOK, Sized
  <1>6. LabelsOK' BY <1>2 DEF IInv, LabelsOK
  <1>7. TargetsOK' BY <1>1, <1>2, <1>4 DEF IInv, TargetsOK
  <1>8. PlacedOK' BY <1>1, <1>2, <1>4 DEF IInv, PlacedOK
  <1>9. \A k \in i + 1 .. Len(instr_seq) : Fresh(instr_seq'[k])
    <2> SUFFICES ASSUME NEW k \in i + 1 .. Len(instr_seq) PROVE Fresh(instr_seq'[k])
      OBVIOUS
    <2>1. k \in i .. Len(instr_seq) /\ k \in 1 .. Len(instr_seq) /\ k # i BY <1>1
    <2>2. Fresh(instr_seq[k]) BY <1>1, <2>1 DEF IInv, MeasureOK
    <2> QED BY <1>2, <2>1, <2>2
  <1>10. ASSUME NEW k \in 1 .. i
         PROVE  Laid(instr_seq'[k], labels'[instr_seq'[k].target], Known', k)
    <2>1. CASE k < i
      <3>1. /\ k \in 1 .. Len(instr_seq) /\ k \in 1 .. Len(Known) - 1
            /\ instr_seq'[k] = instr_seq[k] /\ instr_seq[k] \in Instr
        <4>1. k \in 1 .. Len(instr_seq) /\ k # i BY <1>1, <2>1
        <4>2. k \in 1 .. Len(Known) - 1 BY <1>1, <1>3, <2>1
        <4> QED BY <1>1, <1>2, <4>1, <4>2
      <3>2. Laid(instr_seq[k], labels[instr_seq[k].target], Known, k)
        BY <1>1, <2>1 DEF IInv, MeasureOK
      <3>3. instr_seq[k].target # 0 => labels[instr_seq[k].target] \in Nat \ {0}
        BY <1>1, <3>1, LabelType
      <3>4. Known[i] + size \in Nat BY <1>1, <1>3
      <3>5. Laid(instr_seq[k], labels[instr_seq[k].target], Append(Known, Known[i] + size), k)
        BY <1>3, <3>1, <3>2, <3>3, <3>4, LaidExtends
      <3> QED BY <1>2, <1>3, <3>1, <3>5
    <2>2. CASE k = i BY <1>2, <1>3, <2>2
    <2> QED BY <1>1, <2>1, <2>2
  <1>11. Spread(Known')
    <2>1. Spread(Known) BY <1>1 DEF IInv, MeasureOK
    <2>2. Len(Known) = i /\ i > 0 BY <1>1, <1>3
    <2>3. Spread(Append(Known, Known[Len(Known)] + size))
      BY <1>3, <2>1, <2>2, SpreadExtends
    <2> QED BY <1>3, <2>2, <2>3
  <1>12. code' = <<>> /\ code_seq_ptr' = 0 BY <1>1 DEF IInv, MeasureOK, Sized
  <1>13. Known'[1] = 0 BY <1>1, <1>3 DEF IInv, MeasureOK
  <1>14. MeasureOK'
    <2>1. /\ i' \in 1 .. Len(instr_seq') + 1 /\ Len(addr_map') = i' - 1
          /\ \A k \in i' .. Len(instr_seq') : Fresh(instr_seq'[k])
          /\ \A k \in 1 .. i' - 1 :
                Laid(instr_seq'[k], labels'[instr_seq'[k].target], Known', k)
      BY SMTT(40), <1>1, <1>2, <1>3, <1>9, <1>10
    <2> QED BY <1>11, <1>12, <1>13, <2>1 DEF MeasureOK
  <1> QED BY <1>1, <1>5, <1>6, <1>7, <1>8, <1>14 DEF IInv, EditOK, EmitOK

\* An instruction whose jump is resolved, or whose opcode is the wide one.
LEMMA Rewritten ==
  ASSUME NEW r \in Instr, NEW x \in Int
  PROVE  /\ [r EXCEPT !.operand_is_label = FALSE, !.operand = x] \in Instr
         /\ [r EXCEPT !.operand_is_label = FALSE, !.operand = x].target = r.target
         /\ [r EXCEPT !.operand_is_label = FALSE, !.operand = x].operand = x
         /\ ~ [r EXCEPT !.operand_is_label = FALSE, !.operand = x].operand_is_label
         /\ [r EXCEPT !.operand_is_label = FALSE, !.operand = x].width = r.width
         /\ [r EXCEPT !.width = 2] \in Instr
         /\ [r EXCEPT !.width = 2].target = r.target
         /\ [r EXCEPT !.width = 2].operand_is_label = r.operand_is_label
         /\ [r EXCEPT !.width = 2].width = 2
  <1>1. [r EXCEPT !.operand_is_label = FALSE, !.operand = x] \in Instr BY DEF Instr
  <1>2. [r EXCEPT !.operand_is_label = FALSE, !.operand = x].target = r.target BY DEF Instr
  <1>3. [r EXCEPT !.operand_is_label = FALSE, !.operand = x].operand = x BY DEF Instr
  <1>4. ~ [r EXCEPT !.operand_is_label = FALSE, !.operand = x].operand_is_label BY DEF Instr
  <1>5. [r EXCEPT !.operand_is_label = FALSE, !.operand = x].width = r.width BY DEF Instr
  <1>6. [r EXCEPT !.width = 2] \in Instr BY DEF Instr
  <1>7. [r EXCEPT !.width = 2].target = r.target BY DEF Instr
  <1>8. [r EXCEPT !.width = 2].operand_is_label = r.operand_is_label BY DEF Instr
  <1>9. [r EXCEPT !.width = 2].width = 2 BY DEF Instr
  <1> QED BY ONLY <1>1, <1>2, <1>3, <1>4, <1>5, <1>6, <1>7, <1>8, <1>9

\* A backward jump is laid out.
LEMMA BackwardStep ==
  ASSUME IInv, MeasureBackward
  PROVE  IInv'
  <1> DEFINE l == labels[instr_seq[i].target]
             offset == BackOffset(l)
             resolved == [instr_seq[i] EXCEPT !.operand_is_label = FALSE, !.operand = offset]
  <1>1. /\ instr_seq \in Seq(Instr) /\ labels \in Seq(Nat) /\ i \in 1 .. Len(instr_seq)
        /\ addr_map \in Seq(Nat) /\ Len(addr_map) = i - 1 /\ code_seq_len \in Nat
        /\ Measuring /\ pc = "measure" /\ instr_seq[i].operand_is_label
        /\ i \in i .. Len(instr_seq)
    BY DEF IInv, TypeOK, MeasureOK, Measuring, MeasureBackward
  <1>2. Fresh(instr_seq[i]) BY <1>1 DEF IInv, MeasureOK
  <1>3. instr_seq[i].target # 0 /\ instr_seq[i].width = 1
    BY <1>1, <1>2 DEF IInv, TargetsOK, Fresh
  <1>4. l \in 1 .. i
    <2>1. l \in Nat /\ l # 0 BY <1>1, <1>3, LabelType
    <2>2. l <= i BY DEF MeasureBackward
    <2> QED BY <1>1, <2>1, <2>2
  <1>5. /\ Known \in Seq(Nat) /\ Len(Known) = i /\ Known[i] = code_seq_len
        /\ \A k \in 1 .. i - 1 : Known[k] = addr_map[k]
    BY <1>1 DEF Known
  <1>6. offset = Known[l] - Known[i] /\ offset \in Int
    <2>1. Known[l] = (IF l = i THEN code_seq_len ELSE addr_map[l]) /\ Known[l] \in Nat
      <3> HIDE DEF l
      <3>1. CASE l = i BY <1>1, <1>5, <3>1
      <3>2. CASE l \in 1 .. i - 1 BY <1>1, <1>5, <3>2
      <3> QED BY <1>1, <1>4, <3>1, <3>2
    <2> HIDE DEF l
    <2> QED BY <1>1, <1>5, <2>1 DEF BackOffset
  <1> HIDE DEF l, offset
  <1>7. /\ resolved \in Instr /\ resolved.target = instr_seq[i].target
        /\ resolved.operand = offset /\ ~ resolved.operand_is_label /\ resolved.width = 1
    <2>1. instr_seq[i] \in Instr BY <1>1
    <2> QED BY <1>3, <1>6, <2>1, Rewritten
  <1> HIDE DEF resolved
  <1>8. ASSUME NEW size \in 2 .. 3, Sized(resolved, size), offset >= - I8Max - 1 => size = 2
        PROVE  IInv'
    <2> DEFINE b == Append(Known, Known[i] + size)
    <2>1. b[i + 1] = Known[i] + size /\ \A k \in 1 .. i : b[k] = Known[k] /\ Known[k] \in Nat
      BY SMTT(40), <1>1, <1>5
    <2>2. Laid(resolved, l, b, i)
      <3> HIDE DEF b
      <3> QED BY <1>1, <1>3, <1>4, <1>6, <1>7, <1>8, <2>1, SMTT(30) DEF Laid
    <2>3. size \in 1 .. 3 BY <1>8
    <2>4. labels[resolved.target] = l BY <1>7 DEF l
    <2> QED BY <1>1, <1>7, <1>8, <2>2, <2>3, <2>4, SizedStep
  <1>9. CASE offset >= - I8Max - 1 /\ Sized(resolved, 2) BY <1>8, <1>9
  <1>10. CASE offset < - I8Max - 1 /\ offset >= - I16Max - 1 /\ Sized(resolved, 3)
    BY <1>6, <1>8, <1>10, WidthAssumption
  <1>11. CASE pc' = "aborted" /\ UNCHANGED <<instr_seq, labels, layout>>
    BY <1>1, <1>11 DEF IInv, TypeOK, LabelsOK, TargetsOK, EditOK, PlacedOK, MeasureOK, EmitOK,
                       layout
  <1> QED BY <1>9, <1>10, <1>11 DEF MeasureBackward, l, offset, resolved

\* A forward jump is laid out.
LEMMA ForwardStep ==
  ASSUME IInv, MeasureForward
  PROVE  IInv'
  <1> DEFINE l == labels[instr_seq[i].target]
             wide == UseWidthOperand(l - i)
             instr == IF wide THEN [instr_seq[i] EXCEPT !.width = 2] ELSE instr_seq[i]
             size == IF wide THEN 3 ELSE 2
             b == Append(Known, Known[i] + size)
  <1>1. /\ instr_seq \in Seq(Instr) /\ labels \in Seq(Nat) /\ i \in 1 .. Len(instr_seq)
        /\ addr_map \in Seq(Nat) /\ Len(addr_map) = i - 1 /\ code_seq_len \in Nat
        /\ Measuring /\ pc = "measure" /\ instr_seq[i].operand_is_label
        /\ i \in i .. Len(instr_seq)
    BY DEF IInv, TypeOK, MeasureOK, Measuring, MeasureForward
  <1>2. Fresh(instr_seq[i]) BY <1>1 DEF IInv, MeasureOK
  <1>3. instr_seq[i].target # 0 /\ instr_seq[i].width = 1 /\ instr_seq[i] \in Instr
    BY <1>1, <1>2 DEF IInv, TargetsOK, Fresh
  <1>4. l > i BY DEF MeasureForward
  <1>5. /\ instr \in Instr /\ instr.target = instr_seq[i].target
        /\ instr.operand_is_label /\ instr.width = (IF wide THEN 2 ELSE 1)
    <2> HIDE DEF wide
    <2>1. CASE wide
      <3>1. instr = [instr_seq[i] EXCEPT !.width = 2] BY <2>1
      <3>2. instr_seq[i].operand_is_label BY <1>1
      <3>3. /\ [instr_seq[i] EXCEPT !.width = 2] \in Instr
            /\ [instr_seq[i] EXCEPT !.width = 2].target = instr_seq[i].target
            /\ [instr_seq[i] EXCEPT !.width = 2].operand_is_label
                  = instr_seq[i].operand_is_label
            /\ [instr_seq[i] EXCEPT !.width = 2].width = 2
        <4>1. 0 \in Int OBVIOUS
        <4> QED BY <1>3, <4>1, Rewritten
      <3> QED BY ONLY <2>1, <3>1, <3>2, <3>3
    <2>2. CASE ~ wide BY <1>1, <1>3, <2>2
    <2> QED BY <2>1, <2>2
  <1>6. size \in 1 .. 3 /\ Sized(instr, size) BY DEF MeasureForward
  <1>7. b[i + 1] = Known[i] + size /\ b[i] = Known[i] /\ Known[i] \in Nat
    BY <1>1 DEF Known
  <1>8. LabelOf(i) = l /\ l \in Nat BY <1>1, <1>3, LabelType DEF LabelOf
  <1>9. Laid(instr, l, b, i)
    <2> HIDE DEF b, l, instr
    <2> QED BY <1>1, <1>3, <1>4, <1>5, <1>6, <1>7, <1>8 DEF Laid
  <1>10. labels[instr.target] = l BY <1>5
  <1> HIDE DEF l, instr, size
  <1> QED BY <1>1, <1>3, <1>5, <1>6, <1>9, <1>10, SizedStep

\* An instruction that is no jump is laid out.
LEMMA PlainStep ==
  ASSUME IInv, MeasurePlain
  PROVE  IInv'
  <1> DEFINE size == 1 + instr_seq[i].width
             b == Append(Known, Known[i] + size)
  <1>1. /\ instr_seq \in Seq(Instr) /\ i \in 1 .. Len(instr_seq)
        /\ addr_map \in Seq(Nat) /\ Len(addr_map) = i - 1 /\ code_seq_len \in Nat
        /\ Measuring /\ pc = "measure" /\ ~ instr_seq[i].operand_is_label
        /\ i \in i .. Len(instr_seq)
    BY DEF IInv, TypeOK, MeasureOK, Measuring, MeasurePlain
  <1>2. Fresh(instr_seq[i]) BY <1>1 DEF IInv, MeasureOK
  <1>3. instr_seq[i].target = 0 /\ instr_seq[i] \in Instr /\ instr_seq[i].width \in 0 .. 2
    BY <1>1, <1>2, InstrType DEF Fresh
  <1>4. size \in 1 .. 3 /\ Sized(instr_seq[i], size) BY <1>3 DEF MeasurePlain
  <1>5. b[i + 1] = Known[i] + size /\ b[i] = Known[i] /\ Known[i] \in Nat
    BY <1>1, <1>3 DEF Known
  <1>6. Laid(instr_seq[i], labels[instr_seq[i].target], b, i)
    <2> HIDE DEF b
    <2> QED BY <1>1, <1>3, <1>4, <1>5 DEF Laid
  <1> QED BY <1>1, <1>3, <1>4, <1>6, SizedStep

-----------------------------------------------------------------------------
\* The second pass begins with what the first one established.
LEMMA MeasureDoneStep ==
  ASSUME IInv, MeasureDone
  PROVE  IInv'
  <1>1. /\ instr_seq \in Seq(Instr) /\ addr_map \in Seq(Nat) /\ code_seq_len \in Nat
        /\ i = Len(instr_seq) + 1 /\ Len(addr_map) = i - 1
        /\ pc = "measure" /\ pc' = "emit" /\ i' = 1 /\ addr_map' = Known
        /\ instr_seq' = instr_seq /\ labels' = labels
        /\ code' = <<>> /\ code_seq_ptr' = 0
        /\ code_seq_len' = code_seq_len
    BY DEF IInv, TypeOK, MeasureOK, MeasureDone, Known
  <1>2. Known \in Seq(Nat) /\ Len(Known) = Len(instr_seq) + 1 BY <1>1 DEF Known
  <1>3. Known[1] \in Nat BY <1>1, <1>2
  <1>4. TypeOK' BY <1>1, <1>2 DEF IInv, TypeOK
  <1>5. OutputOK'
    <2>1. code_seq_ptr' <= addr_map'[1] BY <1>1, <1>3
    <2>2. Narrow' => code_seq_ptr' = addr_map'[1] BY <1>1, <1>3 DEF IInv, MeasureOK
    <2> QED BY <1>1, <2>1, <2>2 DEF OutputOK
  <1>6. EmitOK' BY <1>1, <1>2, <1>5 DEF IInv, MeasureOK, EmitOK
  <1> QED BY <1>1, <1>4, <1>6 DEF IInv, LabelsOK, TargetsOK, EditOK, PlacedOK, MeasureOK

\* One iteration of the second pass.
LEMMA WriteStep ==
  ASSUME IInv, Emitting,
         Write(instr_seq[i].width,
               OperandOf(instr_seq[i], labels[instr_seq[i].target], addr_map, i))
  PROVE  IInv'
  <1> DEFINE instr == instr_seq[i]
             operand == OperandOf(instr, labels[instr.target], addr_map, i)
             w == [addr |-> code_seq_ptr, width |-> instr.width,
                   operand |-> Stored(instr.width, operand)]
  <1>1. /\ instr_seq \in Seq(Instr) /\ labels \in Seq(Nat) /\ addr_map \in Seq(Nat)
        /\ i \in 1 .. Len(instr_seq) /\ Len(addr_map) = Len(instr_seq) + 1
        /\ code \in Seq(Written) /\ Len(code) = i - 1 /\ code_seq_ptr \in Nat
        /\ code_seq_len \in Nat /\ pc = "emit"
    BY DEF IInv, TypeOK, EmitOK, OutputOK, Emitting
  <1>2. /\ instr_seq' = instr_seq /\ labels' = labels /\ addr_map' = addr_map
        /\ code_seq_len' = code_seq_len /\ pc' = pc /\ i' = i + 1
        /\ code' = Append(code, w) /\ code_seq_ptr' = code_seq_ptr + 1 + instr.width
    BY DEF Write
  <1>3. instr \in Instr /\ instr.width \in 0 .. 2 /\ instr.operand \in Int
        /\ instr.target \in Nat /\ instr.operand_is_label \in BOOLEAN
    BY <1>1, InstrType
  <1>4. Laid(instr, labels[instr.target], addr_map, i) BY <1>1 DEF IInv, EmitOK
  <1>5. operand \in Int
    <2>1. CASE instr.operand_is_label
      <3>1. instr.target # 0 BY <1>1, <2>1 DEF IInv, TargetsOK
      <3>2. /\ labels[instr.target] \in 1 .. Len(addr_map)
        BY SMTT(40), <1>1, <3>1, LabelType
      <3>3. addr_map[labels[instr.target]] \in Nat /\ addr_map[i] \in Nat
        <4>1. i \in 1 .. Len(addr_map) BY <1>1
        <4> HIDE DEF instr
        <4> QED BY <1>1, <3>2, <4>1, ElemNat
      <3> QED BY <2>1, <3>3 DEF OperandOf
    <2>2. CASE ~ instr.operand_is_label BY <1>3, <2>2 DEF OperandOf
    <2> QED BY <1>3, <2>1, <2>2
  <1> HIDE DEF operand
  <1>6. Stored(instr.width, operand) \in Int
    BY <1>3, <1>5, WidthAssumption DEF Stored, Truncate
  <1>7. w \in Written BY <1>1, <1>3, <1>6 DEF Written
  <1>8. /\ code' \in Seq(Written) /\ Len(code') = i /\ code'[i] = w
        /\ \A k \in 1 .. i - 1 : code'[k] = code[k]
    <2>1. code' = Append(code, w) BY <1>2
    <2>2. code \in Seq(Written) /\ Len(code) = i - 1 /\ i \in Nat BY <1>1
    <2> HIDE DEF w
    <2>3. /\ code' \in Seq(Written) /\ Len(code') = Len(code) + 1
          /\ code'[Len(code) + 1] = w
          /\ \A k \in 1 .. Len(code) : code'[k] = code[k]
      BY <1>7, <2>1, <2>2, Appended
    <2> QED BY <2>2, <2>3
  <1>9. addr_map[i] \in Nat /\ addr_map[i + 1] \in Nat
        /\ addr_map[i + 1] - addr_map[i] >= 1 + instr.width
    <2>1. i \in 1 .. Len(addr_map) /\ i + 1 \in 1 .. Len(addr_map) BY SMTT(40), <1>1
    <2>2. addr_map[i] \in Nat /\ addr_map[i + 1] \in Nat BY <1>1, <2>1, ElemNat
    <2> HIDE DEF instr
    <2> QED BY <1>4, <2>2 DEF Laid
  <1>10. code_seq_ptr <= addr_map[i] /\ (Narrow => code_seq_ptr = addr_map[i])
    BY <1>1 DEF IInv, EmitOK, OutputOK
  <1>11. Narrow' <=> Narrow BY <1>2 DEF Narrow
  <1>12. Narrow => addr_map[i + 1] - addr_map[i] = 1 + instr.width
    <2> SUFFICES ASSUME Narrow PROVE addr_map[i + 1] - addr_map[i] = 1 + instr.width
      OBVIOUS
    <2>1. CASE instr.target = 0 BY <1>4, <2>1 DEF Laid
    <2>2. CASE instr.target # 0
      <3>1. labels[instr.target] \in Nat /\ labels[instr.target] \in 1 .. Len(addr_map)
        BY SMTT(40), <1>1, <2>2, LabelType
      <3>2. CASE labels[instr.target] > i
        <4> HIDE DEF instr, w
        <4> QED BY <1>4, <2>2, <3>2 DEF Laid
      <3>3. CASE labels[instr.target] <= i
        <4>1. addr_map[i] - addr_map[labels[instr.target]] <= I8Max + 1
          BY <1>1, <2>2, <3>3 DEF Narrow
        <4>2. addr_map[labels[instr.target]] \in Nat
          <5> HIDE DEF instr
          <5> QED BY <1>1, <3>1, ElemNat
        <4>3. instr.operand >= - I8Max - 1
          BY <1>4, <1>9, <2>2, <3>3, <4>1, <4>2, WidthAssumption DEF Laid
        <4> QED BY <1>4, <2>2, <3>3, <4>3 DEF Laid
      <3> QED BY SMTT(40), <1>1, <3>1, <3>2, <3>3
    <2> QED BY <2>1, <2>2
  <1>13. /\ code_seq_ptr' <= addr_map'[i']
         /\ Narrow' => code_seq_ptr' = addr_map'[i']
    <2>1. code_seq_ptr' = code_seq_ptr + 1 + instr.width /\ addr_map'[i'] = addr_map[i + 1]
      BY <1>2
    <2>2. code_seq_ptr \in Nat BY <1>1
    <2>3. instr.width \in Nat BY <1>3
    <2> HIDE DEF instr
    <2>4. code_seq_ptr' <= addr_map'[i'] BY <1>9, <1>10, <2>1, <2>2, <2>3
    <2>5. Narrow => code_seq_ptr' = addr_map'[i'] BY <1>9, <1>10, <1>12, <2>1, <2>2, <2>3
    <2> QED BY <1>11, <2>4, <2>5
  <1>14. ASSUME NEW k \in 1 .. i
         PROVE  /\ code'[k].operand = Stored(instr_seq[k].width,
                     OperandOf(instr_seq[k], labels[instr_seq[k].target], addr_map, k))
                /\ Narrow => code'[k].addr = addr_map[k]
    <2>1. CASE k = i BY <1>8, <1>10, <2>1 DEF operand
    <2>2. CASE k \in 1 .. i - 1
      BY <1>1, <1>8, <2>2 DEF IInv, EmitOK, OutputOK
    <2> QED BY <1>1, <2>1, <2>2
  <1>15. OutputOK'
    <2>1. Len(code') = i' - 1 /\ i' - 1 = i BY <1>1, <1>2, <1>8
    <2>2. instr_seq' = instr_seq /\ labels' = labels /\ addr_map' = addr_map BY <1>2
    <2> HIDE DEF instr, w
    <2> QED BY <1>11, <1>13, <1>14, <2>1, <2>2 DEF OutputOK
  <1>16. EmitOK'
    <2>1. /\ i' \in 1 .. Len(instr_seq') + 1 /\ pc' = "emit"
          /\ instr_seq' = instr_seq /\ labels' = labels /\ addr_map' = addr_map
      BY <1>1, <1>2
    <2> HIDE DEF instr, w
    <2> QED BY <1>1, <1>15, <2>1 DEF IInv, EmitOK
  <1>17. TypeOK'
    <2>1. code_seq_ptr' \in Nat /\ i' \in Nat
      <3>1. instr.width \in Nat BY <1>3
      <3>2. code_seq_ptr' = code_seq_ptr + 1 + instr.width /\ i' = i + 1 BY <1>2
      <3>3. code_seq_ptr \in Nat /\ i \in Nat BY <1>1
      <3> HIDE DEF instr
      <3> QED BY <3>1, <3>2, <3>3
    <2>2. /\ instr_seq' = instr_seq /\ labels' = labels /\ addr_map' = addr_map
          /\ code_seq_len' = code_seq_len /\ pc' = pc
      BY <1>2
    <2> HIDE DEF instr, w
    <2> QED BY <1>1, <1>8, <2>1, <2>2 DEF IInv, TypeOK
  <1> QED BY <1>1, <1>2, <1>16, <1>17
          DEF IInv, LabelsOK, TargetsOK, EditOK, PlacedOK, MeasureOK

-----------------------------------------------------------------------------
\* Every step preserves the invariant.
LEMMA NextInv == IInv /\ [Next]_vars => IInv'
  <1> SUFFICES ASSUME IInv, [Next]_vars PROVE IInv'
    OBVIOUS
  <1>0. instr_seq \in Seq(Instr) /\ labels \in Seq(Nat) /\ Len(instr_seq) \in Nat
    BY DEF IInv, TypeOK
  <1>1. CASE PrepareLabel
    <2>1. /\ labels' = Append(labels, 0) /\ Len(labels) < MaxLabels /\ pc = "edit" /\ pc' = "edit"
          /\ instr_seq' = instr_seq /\ UNCHANGED layout
      BY <1>1, WidthAssumption DEF PrepareLabel
    <2>2. labels' \in Seq(Nat) /\ Len(labels') >= Len(labels) /\ Len(labels') <= MaxLabels
      BY <1>0, <2>1, WidthAssumption
    <2>3. \A l \in 1 .. Len(labels') : labels'[l] <= Len(instr_seq) + 1
      BY <1>0, <2>1 DEF IInv, LabelsOK
    <2> QED BY <2>1, <2>2, <2>3, LabelStep
  <1>2. CASE PlaceNewLabel
    <2>1. /\ labels' = Append(labels, Len(instr_seq) + 1) /\ Len(labels) < MaxLabels
          /\ pc = "edit" /\ pc' = "edit"
          /\ instr_seq' = instr_seq /\ UNCHANGED layout
      BY <1>2 DEF PlaceNewLabel
    <2>2. labels' \in Seq(Nat) /\ Len(labels') >= Len(labels) /\ Len(labels') <= MaxLabels
      BY <1>0, <2>1, WidthAssumption
    <2>3. \A l \in 1 .. Len(labels') : labels'[l] <= Len(instr_seq) + 1
      BY <1>0, <2>1 DEF IInv, LabelsOK
    <2> QED BY <2>1, <2>2, <2>3, LabelStep
  <1>3. ASSUME NEW l \in 1 .. Len(labels), PlaceLabel(l) PROVE IInv'
    <2>1. /\ labels' = [labels EXCEPT ![l] = Len(instr_seq) + 1]
          /\ pc = "edit" /\ pc' = "edit" /\ instr_seq' = instr_seq /\ UNCHANGED layout
      BY <1>3 DEF PlaceLabel
    <2>2. labels' \in Seq(Nat) /\ Len(labels') >= Len(labels) /\ Len(labels') <= MaxLabels
      BY <1>0, <2>1 DEF IInv, LabelsOK
    <2>3. \A k \in 1 .. Len(labels') : labels'[k] <= Len(instr_seq) + 1
      BY <1>0, <2>1 DEF IInv, LabelsOK
    <2> QED BY <2>1, <2>2, <2>3, LabelStep
  <1>4. ASSUME NEW width \in 0 .. 2, AppendInstr(width) PROVE IInv'
    <2> DEFINE r == [width |-> width, operand_is_label |-> FALSE, operand |-> 0, target |-> 0]
    <2>1. r \in Instr /\ r.target <= Len(labels) /\ ~ r.operand_is_label /\ Fresh(r)
      BY <1>0, WidthAssumption DEF Instr, Fresh
    <2>2. /\ instr_seq' = Append(instr_seq, r) /\ pc = "edit" /\ pc' = "edit"
          /\ labels' = labels /\ UNCHANGED layout
      BY <1>4 DEF AppendInstr
    <2> HIDE DEF r
    <2> QED BY <2>1, <2>2, InstrStep
  <1>5. ASSUME NEW l \in 1 .. Len(labels), AppendJump(l) PROVE IInv'
    <2> DEFINE r == [width |-> 1, operand_is_label |-> TRUE, operand |-> l, target |-> l]
    <2>1. Len(labels) <= MaxLabels
      BY DEF IInv, LabelsOK
    <2>2. r \in Instr /\ r.target <= Len(labels) /\ r.target # 0 /\ Fresh(r)
      BY <1>0, <2>1, WidthAssumption DEF Instr, Fresh
    <2>3. /\ instr_seq' = Append(instr_seq, r) /\ pc = "edit" /\ pc' = "edit"
          /\ labels' = labels /\ UNCHANGED layout
      BY <1>5 DEF AppendJump
    <2> HIDE DEF r
    <2> QED BY <2>2, <2>3, InstrStep
  <1>6. CASE Clear
    <2>1. Init' BY <1>6 DEF Clear, Init
    <2> QED BY <2>1, InitInv, PTL
  <1>7. CASE BeginOutput
    <2>1. /\ pc = "edit" /\ pc' = "measure" /\ instr_seq' = instr_seq /\ labels' = labels
          /\ UNCHANGED <<i, addr_map, code_seq_len, code, code_seq_ptr>>
          /\ i = 1 /\ addr_map = <<>> /\ code_seq_len = 0 /\ code = <<>> /\ code_seq_ptr = 0
          /\ \A k \in 1 .. Len(instr_seq) : Fresh(instr_seq[k])
      BY <1>7 DEF BeginOutput, layout, IInv, EditOK
    <2>2. PlacedOK' BY <1>7, <2>1, WidthAssumption DEF BeginOutput, PlacedOK, Fresh
    <2>3. Known' \in Seq(Nat) /\ Len(Known') = 1 /\ Known'[1] = 0 BY <2>1 DEF Known
    <2>4. Spread(Known') BY <2>3 DEF Spread
    <2>5. MeasureOK' BY <1>0, <2>1, <2>3, <2>4 DEF MeasureOK
    <2>6. TypeOK' BY <2>1 DEF IInv, TypeOK
    <2> QED BY <2>1, <2>2, <2>5, <2>6
            DEF IInv, LabelsOK, TargetsOK, EditOK, EmitOK
  <1>8. CASE MeasurePlain BY <1>8, PlainStep
  <1>9. CASE MeasureBackward BY <1>9, BackwardStep
  <1>10. CASE MeasureForward BY <1>10, ForwardStep
  <1>11. CASE MeasureDone BY <1>11, MeasureDoneStep
  <1>12. CASE EmitResolved
    <2>1. Emitting /\ Write(instr_seq[i].width,
              OperandOf(instr_seq[i], labels[instr_seq[i].target], addr_map, i))
      BY <1>12 DEF EmitResolved, OperandOf
    <2> QED BY <2>1, WriteStep
  <1>13. CASE EmitForward
    <2>1. Emitting /\ Write(instr_seq[i].width,
              OperandOf(instr_seq[i], labels[instr_seq[i].target], addr_map, i))
      BY <1>13 DEF EmitForward, OperandOf
    <2> QED BY <2>1, WriteStep
  <1>14. CASE EmitDone
    <2>1. /\ pc = "emit" /\ pc' = "done" /\ i > Len(instr_seq) /\ code_seq_len' = code_seq_ptr
          /\ UNCHANGED <<instr_seq, labels, i, addr_map, code, code_seq_ptr>>
      BY <1>14 DEF EmitDone
    <2>2. TypeOK' BY <2>1 DEF IInv, TypeOK
    <2>3. Narrow' <=> Narrow BY <2>1 DEF Narrow
    <2>4. OutputOK' BY <2>1, <2>3 DEF IInv, EmitOK, OutputOK
    <2>5. i = Len(instr_seq) + 1 BY <1>0, <2>1 DEF IInv, EmitOK
    <2>6. EmitOK' BY <2>1, <2>4, <2>5 DEF IInv, EmitOK
    <2> QED BY <2>1, <2>2, <2>6
            DEF IInv, LabelsOK, TargetsOK, EditOK, PlacedOK, MeasureOK
  <1>15. CASE UNCHANGED vars
    BY <1>15 DEF vars, IInv, TypeOK, LabelsOK, TargetsOK, EditOK, PlacedOK,
                 MeasureOK, EmitOK, OutputOK, Narrow, Known
  <1>16. CASE Aborted BY <1>15, <1>16 DEF Aborted
  <1> QED BY <1>1, <1>2, <1>3, <1>4, <1>5, <1>6, <1>7, <1>8, <1>9, <1>10, <1>11, <1>12,
             <1>13, <1>14, <1>15, <1>16 DEF Next

\* The invariant holds in every state of every run.
LEMMA Inductive == Spec => []IInv
  BY InitInv, NextInv, PTL DEF Spec

\* Every variable of the assembler stays in its range.
THEOREM TypeCorrect == Spec => []TypeOK
  <1>1. IInv => TypeOK BY DEF IInv
  <1> QED BY <1>1, Inductive, PTL

\* The second pass of ow_assembler_output() never writes past the buffer the
\* first one asked for.
THEOREM CodeFitsAlways == Spec => []CodeFits
  <1>1. IInv => CodeFits
    <2> SUFFICES ASSUME IInv, pc \in {"emit", "done"}
                 PROVE  code_seq_ptr <= addr_map[Len(addr_map)]
      BY DEF CodeFits
    <2>1. /\ i \in 1 .. Len(addr_map) /\ Len(addr_map) \in 1 .. Len(addr_map)
          /\ addr_map \in Seq(Nat) /\ code_seq_ptr \in Nat /\ instr_seq \in Seq(Instr)
          /\ i <= Len(addr_map)
      BY DEF IInv, TypeOK, EmitOK
    <2>2. addr_map[i] <= addr_map[Len(addr_map)] BY <2>1 DEF IInv, EmitOK, Spread
    <2>3. code_seq_ptr <= addr_map[i] BY DEF IInv, EmitOK, OutputOK
    <2>4. addr_map[i] \in Nat /\ addr_map[Len(addr_map)] \in Nat BY <2>1, ElemNat
    <2> QED BY <2>1, <2>2, <2>3, <2>4
  <1> QED BY <1>1, Inductive, PTL

\* A value in the range of the integer type is stored unchanged.
LEMMA StoredExactly ==
  ASSUME NEW x \in Int, NEW width \in 1 .. 2,
         width = 1 => x >= - I8Max - 1 /\ x <= I8Max,
         width = 2 => x >= - I16Max - 1 /\ x <= I16Max
  PROVE  Stored(width, x) = x
  BY WidthAssumption DEF Stored, Truncate

\* Every jump of the finished code lands on its label when the code fits in
\* INT16_MAX and no loop is longer than one byte can express.
THEOREM JumpsLandAlways == Spec => []JumpsLand
  <1>1. IInv => JumpsLand
    <2> SUFFICES ASSUME IInv, pc = "done", ShortLoops, addr_map[Len(addr_map)] <= I16Max,
                        NEW k \in Jumps
                 PROVE  Lands(k)
      BY DEF JumpsLand
    <2> DEFINE n == Len(instr_seq)
               l == labels[instr_seq[k].target]
               off == addr_map[l] - addr_map[k]
    <2>1. /\ instr_seq \in Seq(Instr) /\ addr_map \in Seq(Nat) /\ code_seq_ptr \in Nat
          /\ n \in Nat /\ i = n + 1 /\ Len(addr_map) = n + 1 /\ Len(code) = n
      BY DEF IInv, TypeOK, EmitOK, OutputOK
    <2>2. k \in 1 .. n /\ instr_seq[k].target # 0 BY <2>1 DEF Jumps
    <2>3. l \in 1 .. n + 1 BY <2>1, <2>2, LabelType
    <2>4. addr_map[k] \in Nat /\ addr_map[l] \in Nat /\ addr_map[n + 1] \in Nat /\ off \in Int
      <3>1. k \in 1 .. Len(addr_map) /\ n + 1 \in 1 .. Len(addr_map) BY <2>1, <2>2
      <3> HIDE DEF l
      <3> QED BY <2>1, <2>3, <3>1, ElemNat
    <2>5. Narrow
      <3> SUFFICES ASSUME NEW j \in 1 .. n, instr_seq[j].target # 0,
                          labels[instr_seq[j].target] <= j
                   PROVE  addr_map[j] - addr_map[labels[instr_seq[j].target]] <= I8Max + 1
        BY DEF Narrow
      <3>1. j \in Jumps BY <2>1 DEF Jumps
      <3> QED BY <3>1 DEF ShortLoops, LabelOf
    <2>6. /\ code_seq_ptr = addr_map[n + 1]
          /\ \A j \in 1 .. n : code[j].addr = addr_map[j]
      BY <2>1, <2>5 DEF IInv, EmitOK, OutputOK
    <2>7. Start(l) = addr_map[l]
      <3> HIDE DEF l
      <3>1. CASE l = n + 1 BY <2>1, <2>6, <3>1 DEF Start
      <3>2. CASE l \in 1 .. n BY <2>1, <2>6, <3>2 DEF Start
      <3> QED BY <2>1, <2>3, <3>1, <3>2
    <2>8. code[k].operand = Stored(instr_seq[k].width, OperandOf(instr_seq[k], l, addr_map, k))
      <3>1. k \in 1 .. i - 1 BY <2>1, <2>2
      <3> QED BY <3>1 DEF IInv, EmitOK, OutputOK
    <2>9. Laid(instr_seq[k], l, addr_map, k) BY <2>2 DEF IInv, EmitOK
    <2>10. Stored(instr_seq[k].width, OperandOf(instr_seq[k], l, addr_map, k)) = off
      <3>1. CASE l <= k
        <4>1. /\ instr_seq[k].width = 1 /\ ~ instr_seq[k].operand_is_label
              /\ instr_seq[k].operand = off
          <5> HIDE DEF l
          <5> QED BY <2>2, <2>9, <3>1 DEF Laid
        <4>2. addr_map[k] - addr_map[l] <= I8Max + 1 BY <2>2, <2>5, <3>1 DEF Narrow
        <4>3. addr_map[l] <= addr_map[k]
          <5>1. l \in 1 .. Len(addr_map) /\ k \in 1 .. Len(addr_map) BY <2>1, <2>2, <2>3
          <5> HIDE DEF l
          <5> QED BY <3>1, <5>1 DEF IInv, EmitOK, Spread
        <4>4. OperandOf(instr_seq[k], l, addr_map, k) = off BY <4>1 DEF OperandOf
        <4>5. off >= - I8Max - 1 /\ off <= I8Max
          <5> HIDE DEF l
          <5> QED BY <2>4, <4>2, <4>3, WidthAssumption, SMTT(30)
        <4>6. Stored(1, off) = off
          <5> HIDE DEF off
          <5> QED BY <2>4, <4>5, StoredExactly
        <4> QED BY <4>1, <4>4, <4>6
      <3>2. CASE l > k
        <4>1. /\ instr_seq[k].width = (IF UseWidthOperand(l - k) THEN 2 ELSE 1)
              /\ instr_seq[k].operand_is_label
          <5> HIDE DEF l
          <5> QED BY <2>2, <2>9, <3>2 DEF Laid
        <4>2. OperandOf(instr_seq[k], l, addr_map, k) = off BY <4>1 DEF OperandOf
        <4>3. /\ addr_map[k] <= addr_map[l] /\ off <= 3 * (l - k)
              /\ addr_map[l] <= addr_map[n + 1]
          <5>1. /\ l \in 1 .. Len(addr_map) /\ k \in 1 .. Len(addr_map)
                /\ n + 1 \in 1 .. Len(addr_map) /\ k <= l /\ l <= n + 1
            BY <2>1, <2>2, <2>3, <3>2
          <5> HIDE DEF l
          <5> QED BY <5>1 DEF IInv, EmitOK, Spread
        <4>4. off >= 0 /\ off <= I16Max
          <5> HIDE DEF l
          <5> QED BY <2>1, <2>4, <4>3, WidthAssumption
        <4>5. CASE UseWidthOperand(l - k)
          <5>1. Stored(2, off) = off
            <6> HIDE DEF off
            <6> QED BY <2>4, <4>4, StoredExactly, WidthAssumption
          <5> QED BY <4>1, <4>2, <4>5, <5>1
        <4>6. CASE ~ UseWidthOperand(l - k)
          <5>1. off <= I8Max
            <6>1. l - k <= I8Max \div 3 /\ l \in Nat /\ k \in Nat
              BY <2>1, <2>2, <2>3, <4>6, WidthAssumption DEF UseWidthOperand
            <6>2. 3 * (I8Max \div 3) <= I8Max BY WidthAssumption
            <6> HIDE DEF l
            <6> QED BY <2>4, <4>3, <6>1, <6>2, WidthAssumption
          <5>2. Stored(1, off) = off
            <6> HIDE DEF off
            <6> QED BY <2>4, <4>4, <5>1, StoredExactly, WidthAssumption
          <5> QED BY <4>1, <4>2, <4>6, <5>2
        <4> QED BY <4>5, <4>6
      <3> QED BY <2>2, <2>3, <3>1, <3>2
    <2>11. code[k].addr = addr_map[k] BY <2>2, <2>6
    <2>12. code[k].addr + code[k].operand = Start(l)
      <3>1. code[k].operand = addr_map[l] - addr_map[k] BY <2>8, <2>10
      <3> HIDE DEF l
      <3> QED BY <2>4, <2>7, <2>11, <3>1
    <2> QED BY <2>12 DEF Lands, LabelOf
  <1> QED BY <1>1, Inductive, PTL
=============================================================================
