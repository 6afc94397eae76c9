------------------------------ MODULE Assembler ------------------------------
(***************************************************************************)
(* The assembler of compiler/assembler.c: instructions and labels are      *)
(* collected, then ow_assembler_output() lays them out in two passes.  The *)
(* first computes the address of each instruction and the width of each    *)
(* jump, the second writes the code.  Nothing but the arithmetic keeps the *)
(* two passes in agreement.                                                *)
(*                                                                         *)
(* Positions are 1-based (the code's index + 1).  An instruction is known  *)
(* by the width of its operand; the constants and symbols of the assembler *)
(* are in module Codegen.                                                  *)
(***************************************************************************)
EXTENDS Integers, Sequences

CONSTANTS
    I8Max,     \* INT8_MAX
    I16Max,    \* INT16_MAX
    MaxInstr,  \* bound on the instructions of one function
    MaxLabels, \* bound on the labels of one function
    Unplaced   \* UINTPTR_MAX, the position of a label not yet placed

ASSUME WidthAssumption ==
    /\ I8Max \in Nat /\ I16Max \in Nat /\ I8Max <= I16Max
    /\ MaxInstr \in Nat /\ MaxLabels \in Nat
    /\ Unplaced = 0

VARIABLES
    pc,           \* where ow_assembler_output() is
    instr_seq, labels,
    i,            \* loop variable of the two passes
    addr_map, code_seq_len,
    code,         \* the instructions written, in order
    code_seq_ptr  \* how many bytes they take

vars == <<pc, instr_seq, labels, i, addr_map, code_seq_len, code, code_seq_ptr>>

Instr == [width : 0 .. 2, operand_is_label : BOOLEAN, operand : Int,
          target : 0 .. MaxLabels]  \* the label of a jump, 0 if no jump
Written == [addr : Nat, width : 0 .. 2, operand : Int]

\* Every variable stays in its range.
TypeOK ==
    /\ pc \in {"edit", "measure", "emit", "done", "aborted"}
    /\ instr_seq \in Seq(Instr)
    /\ labels \in Seq(Nat)
    /\ i \in Nat
    /\ addr_map \in Seq(Nat)
    /\ code_seq_len \in Nat
    /\ code \in Seq(Written)
    /\ code_seq_ptr \in Nat

Init ==
    /\ pc = "edit"
    /\ instr_seq = <<>> /\ labels = <<>>
    /\ i = 1
    /\ addr_map = <<>> /\ code_seq_len = 0
    /\ code = <<>> /\ code_seq_ptr = 0

layout == <<i, addr_map, code_seq_len, code, code_seq_ptr>>

-----------------------------------------------------------------------------
\* Collecting instructions.

\* ow_assembler_prepare_label()
PrepareLabel ==
    /\ pc = "edit" /\ Len(labels) < MaxLabels
    /\ labels' = Append(labels, Unplaced)
    /\ UNCHANGED <<pc, instr_seq, layout>>

\* ow_assembler_place_label() of a label that was prepared.
PlaceLabel(l) ==
    /\ pc = "edit"
    /\ labels[l] = Unplaced
    /\ labels' = [labels EXCEPT ![l] = Len(instr_seq) + 1]
    /\ UNCHANGED <<pc, instr_seq, layout>>

\* ow_assembler_place_label() of a new label.
PlaceNewLabel ==
    /\ pc = "edit" /\ Len(labels) < MaxLabels
    /\ labels' = Append(labels, Len(instr_seq) + 1)
    /\ UNCHANGED <<pc, instr_seq, layout>>

\* ow_assembler_append()
AppendInstr(width) ==
    /\ pc = "edit" /\ Len(instr_seq) < MaxInstr
    /\ instr_seq' = Append(instr_seq,
        [width |-> width, operand_is_label |-> FALSE, operand |-> 0, target |-> 0])
    /\ UNCHANGED <<pc, labels, layout>>

\* ow_assembler_append_jump()
AppendJump(l) ==
    /\ pc = "edit" /\ Len(instr_seq) < MaxInstr
    /\ instr_seq' = Append(instr_seq,
        [width |-> 1, operand_is_label |-> TRUE, operand |-> l, target |-> l])
    /\ UNCHANGED <<pc, labels, layout>>

\* ow_assembler_clear()
Clear ==
    /\ pc = "done"
    /\ pc' = "edit"
    /\ instr_seq' = <<>> /\ labels' = <<>>
    /\ i' = 1
    /\ addr_map' = <<>> /\ code_seq_len' = 0
    /\ code' = <<>> /\ code_seq_ptr' = 0

-----------------------------------------------------------------------------
\* ow_assembler_output(), first pass.

\* Mutant: the size of the instructions is forgotten.
UseWidthOperandByCount(idx_diff) == idx_diff > I8Max

UseWidthOperand(idx_diff) == idx_diff > I8Max \div 3

\* The code generator places every label it jumps to.
BeginOutput ==
    /\ pc = "edit"
    /\ \A k \in 1 .. Len(instr_seq) :
          instr_seq[k].operand_is_label => labels[instr_seq[k].target] # Unplaced
    /\ pc' = "measure"
    /\ UNCHANGED <<instr_seq, labels, layout>>

Measuring == pc = "measure" /\ i <= Len(instr_seq)

\* The next instruction is sized and the loop goes on.
Sized(instr, size) ==
    /\ instr_seq' = [instr_seq EXCEPT ![i] = instr]
    /\ addr_map' = Append(addr_map, code_seq_len)
    /\ code_seq_len' = code_seq_len + size
    /\ i' = i + 1
    /\ UNCHANGED <<pc, labels, code, code_seq_ptr>>

MeasurePlain ==
    /\ Measuring /\ ~ instr_seq[i].operand_is_label
    /\ Sized(instr_seq[i], 1 + instr_seq[i].width)

\* The offset of a backward jump; a jump to itself has its own address.
BackOffset(l) ==
    (IF l = i THEN code_seq_len ELSE addr_map[l]) - code_seq_len

\* The reserved size of a backward jump follows its offset, but the opcode
\* is not replaced by the wide one.
MeasureBackward ==
    /\ Measuring /\ instr_seq[i].operand_is_label
    /\ labels[instr_seq[i].target] <= i
    /\ LET offset == BackOffset(labels[instr_seq[i].target])
           resolved == [instr_seq[i] EXCEPT !.operand_is_label = FALSE,
                                            !.operand = offset]
       IN \/ offset >= - I8Max - 1 /\ Sized(resolved, 2)
          \/ offset < - I8Max - 1 /\ offset >= - I16Max - 1 /\ Sized(resolved, 3)
          \/ /\ offset < - I16Max - 1
             /\ pc' = "aborted"
             /\ UNCHANGED <<instr_seq, labels, layout>>

\* Mutant: the opcode is widened, but the size of the narrow one reserved.
MeasureForwardNarrow ==
    /\ Measuring /\ instr_seq[i].operand_is_label
    /\ labels[instr_seq[i].target] > i
    /\ Sized([instr_seq[i] EXCEPT
                !.width = IF UseWidthOperand(labels[instr_seq[i].target] - i) THEN 2 ELSE @], 2)

\* Mutant: the opcode after the wide one is taken.
MeasureForwardBeyond ==
    /\ Measuring /\ instr_seq[i].operand_is_label
    /\ labels[instr_seq[i].target] > i
    /\ IF UseWidthOperand(labels[instr_seq[i].target] - i)
       THEN Sized([instr_seq[i] EXCEPT !.width = @ + 2], 4)
       ELSE Sized(instr_seq[i], 2)

\* _opcode_to_wide() replaces the opcode.
MeasureForward ==
    /\ Measuring /\ instr_seq[i].operand_is_label
    /\ labels[instr_seq[i].target] > i
    /\ IF UseWidthOperand(labels[instr_seq[i].target] - i)
       THEN Sized([instr_seq[i] EXCEPT !.width = 2], 3)
       ELSE Sized(instr_seq[i], 2)

MeasureDone ==
    /\ pc = "measure" /\ i > Len(instr_seq)
    /\ addr_map' = Append(addr_map, code_seq_len)
    /\ i' = 1 /\ pc' = "emit"
    /\ UNCHANGED <<instr_seq, labels, code_seq_len, code, code_seq_ptr>>

-----------------------------------------------------------------------------
\* ow_assembler_output(), second pass.

\* Conversion to the signed integer type with maximum m.
Truncate(x, m) ==
    IF x \in (- m - 1) .. m THEN x
    ELSE ((x + m + 1) % (2 * m + 2)) - m - 1

\* The operand as the interpreter will read it: only the bytes the opcode
\* asks for are written.
Stored(width, operand) ==
    CASE width = 1 -> Truncate(operand, I8Max)
      [] width = 2 -> Truncate(operand, I16Max)
      [] OTHER -> 0

Write(width, operand) ==
    /\ code' = Append(code, [addr |-> code_seq_ptr, width |-> width,
                             operand |-> Stored(width, operand)])
    /\ code_seq_ptr' = code_seq_ptr + 1 + width
    /\ i' = i + 1
    /\ UNCHANGED <<pc, instr_seq, labels, addr_map, code_seq_len>>

Emitting == pc = "emit" /\ i <= Len(instr_seq)

EmitResolved ==
    /\ Emitting /\ ~ instr_seq[i].operand_is_label
    /\ Write(instr_seq[i].width, instr_seq[i].operand)

EmitForward ==
    /\ Emitting /\ instr_seq[i].operand_is_label
    /\ Write(instr_seq[i].width,
             addr_map[labels[instr_seq[i].target]] - addr_map[i])

EmitDone ==
    /\ pc = "emit" /\ i > Len(instr_seq)
    /\ code_seq_len' = code_seq_ptr
    /\ pc' = "done"
    /\ UNCHANGED <<instr_seq, labels, i, addr_map, code, code_seq_ptr>>

\* abort() ends the process.
Aborted == pc = "aborted" /\ UNCHANGED vars

Next ==
    \/ PrepareLabel
    \/ \E l \in 1 .. Len(labels) : PlaceLabel(l)
    \/ PlaceNewLabel
    \/ \E width \in 0 .. 2 : AppendInstr(width)
    \/ \E l \in 1 .. Len(labels) : AppendJump(l)
    \/ Clear
    \/ BeginOutput
    \/ MeasurePlain \/ MeasureBackward \/ MeasureForward \/ MeasureDone
    \/ EmitResolved \/ EmitForward \/ EmitDone
    \/ Aborted

Spec == Init /\ [][Next]_vars

-----------------------------------------------------------------------------
\* Properties.

\* The buffer allocated after the first pass is never overrun by the second:
\* the assertion at the end of ow_assembler_output(), while it writes.
CodeFits == pc \in {"emit", "done"} => code_seq_ptr <= addr_map[Len(addr_map)]

\* Where the code of position k starts; the end of the code for Len(code) + 1.
Start(k) == IF k <= Len(code) THEN code[k].addr ELSE code_seq_ptr

Jumps == {k \in 1 .. Len(code) : instr_seq[k].target # 0}
LabelOf(k) == labels[instr_seq[k].target]
Lands(k) == code[k].addr + code[k].operand = Start(LabelOf(k))

\* The jumps back that one byte can express.
ShortLoops ==
    \A k \in Jumps : LabelOf(k) <= k => addr_map[k] - addr_map[LabelOf(k)] <= I8Max + 1

\* Whatever was appended, every jump of the finished code lands on the first
\* byte of the instruction its label was placed at, provided no loop is
\* longer than one byte can express and the code is no longer than INT16_MAX.
JumpsLand ==
    pc = "done" /\ ShortLoops /\ addr_map[Len(addr_map)] <= I16Max
        => \A k \in Jumps : Lands(k)

\* The same of loops of any length.
LongJumpsLand ==
    pc = "done" /\ addr_map[Len(addr_map)] <= I16Max => \A k \in Jumps : Lands(k)
=============================================================================
