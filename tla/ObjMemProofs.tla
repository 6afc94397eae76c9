---------------------------- MODULE ObjMemProofs ----------------------------
(***************************************************************************)
(* Proofs about the object memory, for every heap size, number of fields   *)
(* and stack slots.  The inductive invariant MarkInv says what holds       *)
(* between two visits of a marking phase: whatever a marked object (or a   *)
(* root, or a remembered object already scanned) refers to is marked or is *)
(* still on the stack of pending visits.                                   *)
(***************************************************************************)
EXTENDS ObjMem, FiniteSetTheorems, TLAPS

\* A visit of x is pending.
Pending(x) == \E j \in 1 .. Len(stack) : stack[j].obj = x

\* x is marked or will be.
Seen(x) == x \in mrk \/ Pending(x)

\* The remembered objects whose fields have been pushed already.
Scanned ==
    IF pc = "mark_old" THEN (rem \cap In("old")) \ todo
    ELSE IF pc \in {"mark_big", "sweep"} THEN rem \ todo
    ELSE {}

\* Control: which phases and visits a collection of each type goes through.
PhaseInv ==
    /\ mid \subseteq In("new")
    /\ rem \subseteq In("old") \cup In("big")
    /\ pc \notin GcPhases => mrk = {} /\ stack = <<>> /\ todo = {}
    /\ pc \in GcPhases => current_gc \in {"fast", "full"}
    /\ pc = "mark_roots" => todo = {}
    /\ todo \subseteq rem
    /\ pc = "sweep" => stack = <<>> /\ todo = {}
    /\ pc \in GcPhases /\ current_gc = "full" => pc \in {"mark_roots", "sweep"}

\* Nothing freed is ever visited.
VisitInv ==
    pc \in GcPhases =>
        /\ HeapSound
        /\ mrk \subseteq ReachAll(RootObjs \cup rem)
        /\ \A j \in 1 .. Len(stack) :
              stack[j].obj \in ReachAll(RootObjs \cup rem) \cup {SmallInt}

\* gc_full: marked objects have no unseen neighbour, and all are live.
FullInv ==
    pc \in GcPhases /\ current_gc = "full" =>
        /\ \A x \in RootObjs : Seen(x)
        /\ \A o \in mrk : \A x \in Refs(o) : Seen(x)
        /\ mrk \subseteq LiveWithClasses
        /\ \A j \in 1 .. Len(stack) :
              /\ stack[j].obj \in LiveWithClasses \cup {SmallInt}
              /\ stack[j].op \in {"MARK_REC", "MARK_REC_O2X"}

\* gc_fast: the same for young neighbours, of the scanned objects too.
FastInv ==
    pc \in GcPhases /\ current_gc = "fast" =>
        /\ \A x \in RootObjs : space[x] = "new" => Seen(x)
        /\ \A o \in mrk \cup Scanned : \A x \in Refs(o) :
              space[x] = "new" => Seen(x)

MarkInv == TypeOK /\ PhaseInv /\ VisitInv /\ FullInv /\ FastInv

-----------------------------------------------------------------------------
\* Sequences of visits.

\* Concatenation and tail keep sequences of visits well typed.
LEMMA VisitSeqs ==
    ASSUME NEW s \in Seq(Visit), NEW t \in Seq(Visit)
    PROVE  /\ s \o t \in Seq(Visit)
           /\ s # <<>> => Head(s) \in Visit /\ Tail(s) \in Seq(Visit)
OBVIOUS

\* A function on an initial segment of the naturals is a sequence.
LEMMA FunctionIsSeq ==
    ASSUME NEW n \in Nat, NEW f \in [1 .. n -> Visit]
    PROVE  f \in Seq(Visit) /\ Len(f) = n
OBVIOUS

\* The visits a visit pushes are visits.
LEMMA ChildVisitsType ==
    ASSUME TypeOK, NEW o \in Obj, NEW op \in VisitOp
    PROVE  /\ FieldVisits(o, op) \in Seq(Visit)
           /\ Len(FieldVisits(o, op)) = NumFields
           /\ ChildVisits(o, op) \in Seq(Visit)
<1>1. FieldVisits(o, op) \in [1 .. NumFields -> Visit]
  <2>1. \A i \in Field : [obj |-> fld[o][i], op |-> op] \in Visit
    BY DEF TypeOK, Visit
  <2> QED
    BY <2>1 DEF FieldVisits, Field
<1>2. FieldVisits(o, op) \in Seq(Visit) /\ Len(FieldVisits(o, op)) = NumFields
  BY <1>1, FunctionIsSeq, SizeAssumption
<1>3. << [obj |-> cls[o], op |-> op] >> \in Seq(Visit)
  BY DEF TypeOK, Visit, Value
<1> QED
  BY <1>2, <1>3, VisitSeqs DEF ChildVisits

\* The visits of the roots, in list order.
LEMMA RootVisitsType ==
    ASSUME TypeOK, NEW op \in VisitOp
    PROVE  /\ [i \in Slot |-> [obj |-> roots[i], op |-> op]] \in Seq(Visit)
           /\ Len([i \in Slot |-> [obj |-> roots[i], op |-> op]]) = NumSlots
           /\ RootVisits(op) \in Seq(Visit)
<1> DEFINE R == [i \in Slot |-> [obj |-> roots[i], op |-> op]]
<1>1. R \in [1 .. NumSlots -> Visit]
  BY DEF TypeOK, Visit, Slot, Value
<1>2. R \in Seq(Visit) /\ Len(R) = NumSlots
  BY <1>1, FunctionIsSeq, SizeAssumption
<1>3. << [obj |-> Builtin, op |-> op] >> \in Seq(Visit)
  BY ObjAssumption DEF Visit, Value
<1>4. R \o << [obj |-> Builtin, op |-> op] >> \in Seq(Visit)
  BY <1>2, <1>3, VisitSeqs
<1> QED
  BY <1>2, <1>4 DEF RootVisits

\* The number of chunks a compaction needs is a natural number.
LEMMA CeilingNat ==
    ASSUME NEW n \in Nat
    PROVE  (n + OldCap - 1) \div OldCap \in Nat
BY SizeAssumption

\* A pending allocation is told from no allocation by its kind.
LEMMA RequestNotNoReq ==
    ASSUME NEW r \in Request
    PROVE  r # NoReq
<1>1. r.kind \in {"auto", "surv", "huge", "large"}
  BY DEF Request
<1>2. NoReq.kind = "none"
  BY DEF NoReq
<1> QED
  BY <1>1, <1>2

-----------------------------------------------------------------------------
\* Type correctness.

\* Every action keeps the types.
LEMMA TypeStep == TypeOK /\ [Next]_vars => TypeOK'
<1> SUFFICES ASSUME TypeOK, [Next]_vars PROVE TypeOK'
  OBVIOUS
<1> USE ObjAssumption, SizeAssumption, KindAssumption
<1>1. ASSUME NEW o \in Obj, NEW i \in Field, NEW v \in Value, SetField(o, i, v)
      PROVE  TypeOK'
  BY <1>1 DEF TypeOK, SetField, RecordO2Y, Remember, gcVars
<1>2. ASSUME NEW s \in Slot, NEW v \in Value, SetSlot(s, v)
      PROVE  TypeOK'
  BY <1>2 DEF TypeOK, SetSlot, heap, gcVars
<1>3. CASE PushNgc
  BY <1>3 DEF TypeOK, PushNgc, heap, gcVars
<1>4. CASE PopNgc
  BY <1>4 DEF TypeOK, PopNgc, heap, gcVars
<1>5. ASSUME NEW type \in {"auto", "fast", "full"}, StartGc(type),
             req' \in Request \cup {NoReq}
      PROVE  TypeOK'
  <2>1. RootVisits("MARK_REC") \in Seq(Visit) /\ RootVisits("MARK_REC_Y") \in Seq(Visit)
    BY RootVisitsType DEF VisitOp
  <2> QED
    BY <1>5, <2>1 DEF TypeOK, StartGc, heap, GcType, GcPhases, MarkPhases
<1>6. ASSUME NEW type \in GcTypes, CallGc(type)
      PROVE  TypeOK'
  BY <1>5, <1>6 DEF CallGc, TypeOK
<1>7. ASSUME NEW kind \in AllocKinds, NEW c \in Obj, NEW s \in Slot,
             BeginAlloc(kind, c, s)
      PROVE  TypeOK'
  <2>1. req' \in Request /\ req' # NoReq
    BY <1>7, RequestNotNoReq DEF BeginAlloc, Request
  <2> QED
    BY <1>7, <2>1 DEF TypeOK, BeginAlloc, heap, gcVars
<1>8. ASSUME NEW o \in Obj, AllocDone(o)
      PROVE  TypeOK'
  <2>1. req \in Request
    BY <1>8 DEF AllocDone, TypeOK
  <2> QED
    BY <1>8, <2>1 DEF TypeOK, AllocDone, gcVars, SpaceFor, Request, Value
<1>9. CASE AllocRetry
  <2>0. req \in Request
    BY <1>9 DEF AllocRetry, TypeOK
  <2>1. req' \in Request /\ req' # NoReq
    BY <1>9, <2>0, RequestNotNoReq DEF AllocRetry, Request
  <2>2. CASE StartGc(IF req.kind = "auto" THEN "fast" ELSE "full")
    BY <1>5, <2>1, <2>2 DEF Request
  <2>3. CASE UNCHANGED <<heap, roots, no_gc_count, pc, gcVars>>
    BY <2>1, <2>3 DEF TypeOK, heap, gcVars
  <2> QED
    BY <1>9, <2>2, <2>3 DEF AllocRetry
<1>10. CASE AllocGrow
  <2>1. Cardinality(In("big")) \in Nat
    BY FS_Subset, FS_CardinalityType DEF In
  <2> QED
    BY <1>10, <2>1 DEF TypeOK, AllocGrow, gcVars
<1>11. CASE VisitObject
  <2> DEFINE o == Head(stack).obj
             op == Head(stack).op
  <2>1. Head(stack) \in Visit /\ Tail(stack) \in Seq(Visit)
    BY <1>11, VisitSeqs DEF VisitObject, TypeOK
  <2>2. o \in Value /\ op \in VisitOp
    BY <2>1 DEF Visit
  <2>3. CASE Skips(o, op)
    BY <1>11, <2>1, <2>3 DEF VisitObject, TypeOK
  <2>4. CASE ~Skips(o, op)
    <3>1. o \in Obj
      BY <2>2, <2>4 DEF Skips, Value
    <3>2. FieldOp(o, op) \in VisitOp
      BY <2>2 DEF FieldOp, VisitOp
    <3>3. ChildVisits(o, FieldOp(o, op)) \o Tail(stack) \in Seq(Visit)
      BY <2>1, <3>1, <3>2, ChildVisitsType, VisitSeqs
    <3> QED
      BY <1>11, <2>4, <3>1, <3>3 DEF VisitObject, TypeOK
  <2> QED
    BY <2>3, <2>4
<1>12. ASSUME NEW o \in Obj, ScanRemembered(o)
       PROVE  TypeOK'
  <2>1. FieldVisits(o, "MARK_REC_O2Y") \in Seq(Visit)
    BY ChildVisitsType DEF VisitOp
  <2> QED
    BY <1>12, <2>1 DEF TypeOK, ScanRemembered, heap
<1>13. CASE NextPhase
  BY <1>13 DEF TypeOK, NextPhase, heap, GcPhases, MarkPhases
<1>14. ASSUME NEW promoted \in SUBSET Obj, FastCopy(promoted)
       PROVE  TypeOK'
  BY <1>14 DEF TypeOK, FastCopy, Reclaim, EndGc, In, Value
<1>15. CASE FullCompact
  <2>1. Cardinality((In("old") \cap mrk) \cup Promotable) \in Nat
    <3>1. (In("old") \cap mrk) \cup Promotable \subseteq Obj
      BY DEF In, Promotable
    <3> QED
      BY <3>1, FS_Subset, FS_CardinalityType
  <2>2. old_chunks' \in Nat
    BY <1>15, <2>1, CeilingNat DEF FullCompact
  <2> QED
    BY <1>15, <2>2 DEF TypeOK, FullCompact, Reclaim, EndGc, In, Value
<1>16. CASE UNCHANGED vars
  BY <1>16 DEF TypeOK, vars
<1>17. CASE Undefined
  BY <1>16, <1>17 DEF Undefined
<1> QED
  BY <1>1, <1>2, <1>3, <1>4, <1>6, <1>7, <1>8, <1>9, <1>10, <1>11, <1>12,
     <1>13, <1>14, <1>15, <1>16, <1>17
  DEF Next, Mutator, Allocator, Collector

\* Initially the heap holds the builtin classes only.
LEMMA TypeInit == Init => TypeOK
<1> SUFFICES ASSUME Init PROVE TypeOK
  OBVIOUS
<1>1. stack \in Seq(Visit)
  BY DEF Init
<1> QED
  BY <1>1, ObjAssumption, SizeAssumption DEF Init, TypeOK, Value

\* The object memory is type correct: in particular every pending visit is a
\* visit of an object or of a small int, whatever the object graph.
THEOREM TypeCorrect == Spec => []TypeOK
BY TypeInit, TypeStep, PTL DEF Spec

-----------------------------------------------------------------------------
\* Reachability.

\* ReachAll is the least set closed under fields and class pointers.
LEMMA ReachAllLeast ==
    ASSUME TypeOK, NEW from \in SUBSET Obj
    PROVE  /\ ReachAll(from) \subseteq Obj
           /\ from \subseteq ReachAll(from)
           /\ \A o \in ReachAll(from) : cls[o] \in ReachAll(from)
           /\ \A o \in ReachAll(from) : Refs(o) \subseteq ReachAll(from)
           /\ \A S \in SUBSET Obj :
                 from \subseteq S /\ ClassClosed(S) => ReachAll(from) \subseteq S
<1>1. ReachAll(from) \subseteq Obj /\ from \subseteq ReachAll(from)
  BY DEF ReachAll
<1>2. ASSUME NEW S \in SUBSET Obj, from \subseteq S, ClassClosed(S)
      PROVE  ReachAll(from) \subseteq S
  BY <1>2 DEF ReachAll
<1>3. ASSUME NEW o \in ReachAll(from), NEW x \in Refs(o) \cup {cls[o]}
      PROVE  x \in ReachAll(from)
  <2>1. x \in Obj /\ o \in Obj
    BY <1>1 DEF TypeOK, Refs
  <2>2. ASSUME NEW S \in SUBSET Obj, from \subseteq S, ClassClosed(S)
        PROVE  x \in S
    BY <1>2, <1>3, <2>2 DEF ClassClosed
  <2> QED
    BY <2>1, <2>2 DEF ReachAll
<1> QED
  BY <1>1, <1>2, <1>3

\* ReachFields is the least set closed under fields.
LEMMA ReachFieldsLeast ==
    ASSUME NEW from \in SUBSET Obj
    PROVE  /\ ReachFields(from) \subseteq Obj
           /\ from \subseteq ReachFields(from)
           /\ \A o \in ReachFields(from) : Refs(o) \subseteq ReachFields(from)
           /\ \A S \in SUBSET Obj :
                 from \subseteq S /\ FieldClosed(S) => ReachFields(from) \subseteq S
<1>1. ReachFields(from) \subseteq Obj /\ from \subseteq ReachFields(from)
  BY DEF ReachFields
<1>2. ASSUME NEW S \in SUBSET Obj, from \subseteq S, FieldClosed(S)
      PROVE  ReachFields(from) \subseteq S
  BY <1>2 DEF ReachFields
<1>3. ASSUME NEW o \in ReachFields(from), NEW x \in Refs(o)
      PROVE  x \in ReachFields(from)
  <2>1. x \in Obj
    BY DEF Refs
  <2>2. ASSUME NEW S \in SUBSET Obj, from \subseteq S, FieldClosed(S)
        PROVE  x \in S
    BY <1>2, <1>3, <2>2 DEF FieldClosed
  <2> QED
    BY <2>1, <2>2 DEF ReachFields
<1> QED
  BY <1>1, <1>2, <1>3

\* The roots are objects.
LEMMA RootsAreObjects == RootObjs \subseteq Obj
BY ObjAssumption DEF RootObjs

\* What the program reaches through fields, a collection can visit.
LEMMA LiveIsVisitable ==
    ASSUME TypeOK
    PROVE  Live \subseteq ReachAll(RootObjs \cup rem)
<1> DEFINE R == ReachAll(RootObjs \cup rem)
<1>1. RootObjs \cup rem \in SUBSET Obj
  BY RootsAreObjects DEF TypeOK
<1>2. R \in SUBSET Obj /\ RootObjs \subseteq R /\ FieldClosed(R)
  BY <1>1, ReachAllLeast DEF FieldClosed
<1> QED
  BY <1>2, RootsAreObjects, ReachFieldsLeast DEF Live

\* While no reference changes, nothing reachability rests on does.
LEMMA Frame ==
    ASSUME UNCHANGED <<space, rem, cls, fld, roots>>
    PROVE  /\ RootObjs' = RootObjs
           /\ \A o \in Obj : Refs(o)' = Refs(o)
           /\ In("new")' = In("new") /\ In("old")' = In("old") /\ In("big")' = In("big")
           /\ ReachAll(RootObjs \cup rem)' = ReachAll(RootObjs \cup rem)
           /\ LiveWithClasses' = LiveWithClasses
           /\ HeapSound' = HeapSound
<1>1. RootObjs' = RootObjs
  BY DEF RootObjs
<1>2. ASSUME NEW o \in Obj PROVE Refs(o)' = Refs(o)
  BY DEF Refs
<1>3. ASSUME NEW S \in SUBSET Obj PROVE ClassClosed(S)' = ClassClosed(S)
  BY DEF ClassClosed, Refs
<1>4. ReachAll(RootObjs \cup rem)' = ReachAll(RootObjs \cup rem)
  BY <1>1, <1>3 DEF ReachAll
<1>5. LiveWithClasses' = LiveWithClasses
  BY <1>1, <1>3 DEF LiveWithClasses, ReachAll
<1>6. HeapSound' = HeapSound
  BY <1>4 DEF HeapSound
<1> QED
  BY <1>1, <1>2, <1>4, <1>5, <1>6 DEF In

-----------------------------------------------------------------------------
\* The stack of pending visits.

\* The elements of a concatenation are those of its parts.
LEMMA ConcatElements ==
    ASSUME NEW s \in Seq(Visit), NEW t \in Seq(Visit)
    PROVE  /\ \A j \in 1 .. Len(s \o t) :
                 \/ \E k \in 1 .. Len(s) : (s \o t)[j] = s[k]
                 \/ \E k \in 1 .. Len(t) : (s \o t)[j] = t[k]
           /\ \A k \in 1 .. Len(s) : \E j \in 1 .. Len(s \o t) : (s \o t)[j] = s[k]
           /\ \A k \in 1 .. Len(t) : \E j \in 1 .. Len(s \o t) : (s \o t)[j] = t[k]
<1>1. ASSUME NEW j \in 1 .. Len(s \o t)
      PROVE  \/ \E k \in 1 .. Len(s) : (s \o t)[j] = s[k]
             \/ \E k \in 1 .. Len(t) : (s \o t)[j] = t[k]
  <2>1. CASE j <= Len(s)
    BY <2>1
  <2>2. CASE j > Len(s)
    <3>1. j - Len(s) \in 1 .. Len(t) /\ (s \o t)[j] = t[j - Len(s)]
      BY <2>2
    <3> QED
      BY <3>1
  <2> QED
    BY <2>1, <2>2
<1>2. ASSUME NEW k \in 1 .. Len(s)
      PROVE  \E j \in 1 .. Len(s \o t) : (s \o t)[j] = s[k]
  <2>1. k \in 1 .. Len(s \o t) /\ (s \o t)[k] = s[k]
    OBVIOUS
  <2> QED
    BY <2>1
<1>3. ASSUME NEW k \in 1 .. Len(t)
      PROVE  \E j \in 1 .. Len(s \o t) : (s \o t)[j] = t[k]
  <2>1. k + Len(s) \in 1 .. Len(s \o t) /\ (s \o t)[k + Len(s)] = t[k]
    OBVIOUS
  <2> QED
    BY <2>1
<1> QED
  BY <1>1, <1>2, <1>3

\* Popping a visit removes that visit only.
LEMMA TailElements ==
    ASSUME NEW s \in Seq(Visit), s # <<>>
    PROVE  /\ \A j \in 1 .. Len(s) :
                 s[j] = Head(s) \/ \E k \in 1 .. Len(Tail(s)) : Tail(s)[k] = s[j]
           /\ \A k \in 1 .. Len(Tail(s)) : \E j \in 1 .. Len(s) : s[j] = Tail(s)[k]
           /\ \E j \in 1 .. Len(s) : s[j] = Head(s)
<1>1. ASSUME NEW j \in 1 .. Len(s), j # 1
      PROVE  \E k \in 1 .. Len(Tail(s)) : Tail(s)[k] = s[j]
  <2>1. j - 1 \in 1 .. Len(Tail(s)) /\ Tail(s)[j - 1] = s[j]
    BY <1>1
  <2> QED
    BY <2>1
<1>2. ASSUME NEW k \in 1 .. Len(Tail(s))
      PROVE  \E j \in 1 .. Len(s) : s[j] = Tail(s)[k]
  <2>1. k + 1 \in 1 .. Len(s) /\ s[k + 1] = Tail(s)[k]
    OBVIOUS
  <2> QED
    BY <2>1
<1>3. 1 \in 1 .. Len(s) /\ s[1] = Head(s)
  OBVIOUS
<1> QED
  BY <1>1, <1>2, <1>3

\* The visits pushed for an object cover its references, and nothing but its
\* references, its class and small ints.
LEMMA ChildVisitsCover ==
    ASSUME TypeOK, NEW o \in Obj, NEW op \in VisitOp
    PROVE  /\ \A x \in Refs(o) : /\ \E j \in 1 .. Len(FieldVisits(o, op)) :
                                       FieldVisits(o, op)[j].obj = x
                                 /\ \E j \in 1 .. Len(ChildVisits(o, op)) :
                                       ChildVisits(o, op)[j].obj = x
           /\ \A j \in 1 .. Len(FieldVisits(o, op)) :
                 /\ FieldVisits(o, op)[j].obj \in Refs(o) \cup {SmallInt}
                 /\ FieldVisits(o, op)[j].op = op
           /\ \A j \in 1 .. Len(ChildVisits(o, op)) :
                 /\ ChildVisits(o, op)[j].obj \in Refs(o) \cup {cls[o], SmallInt}
                 /\ ChildVisits(o, op)[j].op = op
<1> DEFINE F == FieldVisits(o, op)
           C == << [obj |-> cls[o], op |-> op] >>
<1>1. F \in Seq(Visit) /\ Len(F) = NumFields
  BY ChildVisitsType
<1>2. \A j \in Field : F[j].obj = fld[o][j] /\ F[j].op = op
  BY DEF FieldVisits
<1>3. ASSUME NEW j \in 1 .. Len(F)
      PROVE  F[j].obj \in Refs(o) \cup {SmallInt} /\ F[j].op = op
  <2>1. j \in Field /\ fld[o][j] \in Value
    BY <1>1 DEF Field, TypeOK
  <2> QED
    BY <1>2, <2>1 DEF Refs, Value
<1>4. ASSUME NEW x \in Refs(o)
      PROVE  \E j \in 1 .. Len(F) : F[j].obj = x
  BY <1>1, <1>2 DEF Refs, Field
<1>5. CASE op # "MARK_REC"
  BY <1>3, <1>4, <1>5 DEF ChildVisits
<1>6. CASE op = "MARK_REC"
  <2>1. C \in Seq(Visit) /\ Len(C) = 1 /\ C[1].obj = cls[o] /\ C[1].op = op
    BY DEF TypeOK, Visit, Value
  <2>2. ChildVisits(o, op) = C \o F
    BY <1>6 DEF ChildVisits
  <2>3. ASSUME NEW x \in Refs(o)
        PROVE  \E j \in 1 .. Len(C \o F) : (C \o F)[j].obj = x
    <3>1. PICK k \in 1 .. Len(F) : F[k].obj = x
      BY <1>4
    <3>2. PICK j \in 1 .. Len(C \o F) : (C \o F)[j] = F[k]
      BY <1>1, <2>1, ConcatElements
    <3> QED
      BY <3>1, <3>2
  <2>4. ASSUME NEW j \in 1 .. Len(C \o F)
        PROVE  /\ (C \o F)[j].obj \in Refs(o) \cup {cls[o], SmallInt}
               /\ (C \o F)[j].op = op
    <3>1. CASE \E k \in 1 .. Len(C) : (C \o F)[j] = C[k]
      BY <2>1, <3>1
    <3>2. CASE \E k \in 1 .. Len(F) : (C \o F)[j] = F[k]
      BY <1>3, <3>2
    <3> QED
      BY <1>1, <2>1, <3>1, <3>2, ConcatElements
  <2> QED
    BY <1>3, <1>4, <2>2, <2>3, <2>4
<1> QED
  BY <1>5, <1>6

\* The first visits of a collection are those of the roots.
LEMMA RootVisitsCover ==
    ASSUME TypeOK, NEW op \in VisitOp
    PROVE  /\ \A x \in RootObjs : \E j \in 1 .. Len(RootVisits(op)) :
                                     RootVisits(op)[j].obj = x
           /\ \A j \in 1 .. Len(RootVisits(op)) :
                 /\ RootVisits(op)[j].obj \in RootObjs \cup {SmallInt}
                 /\ RootVisits(op)[j].op = op
<1> DEFINE R == [i \in Slot |-> [obj |-> roots[i], op |-> op]]
           B == << [obj |-> Builtin, op |-> op] >>
<1>1. R \in Seq(Visit) /\ Len(R) = NumSlots /\ RootVisits(op) = R \o B
  BY RootVisitsType DEF RootVisits
<1>2. B \in Seq(Visit) /\ Len(B) = 1 /\ B[1].obj = Builtin /\ B[1].op = op
  BY ObjAssumption DEF Visit, Value
<1>3. \A j \in Slot : R[j].obj = roots[j] /\ R[j].op = op
  OBVIOUS
<1> HIDE DEF R, B
<1>4. ASSUME NEW j \in 1 .. Len(R)
      PROVE  R[j].obj \in RootObjs \cup {SmallInt} /\ R[j].op = op
  <2>1. j \in Slot /\ roots[j] \in Value
    BY <1>1 DEF Slot, TypeOK
  <2> QED
    BY <1>3, <2>1 DEF RootObjs, Value
<1>5. ASSUME NEW x \in RootObjs
      PROVE  \E j \in 1 .. Len(R \o B) : (R \o B)[j].obj = x
  <2>1. CASE x = Builtin
    <3>0. 1 \in 1 .. Len(B)
      BY <1>2
    <3>1. PICK j \in 1 .. Len(R \o B) : (R \o B)[j] = B[1]
      <4>1. \A k \in 1 .. Len(B) : \E j \in 1 .. Len(R \o B) : (R \o B)[j] = B[k]
        BY <1>1, <1>2, ConcatElements
      <4> QED
        BY <3>0, <4>1, Zenon
    <3> QED
      BY <1>2, <2>1, <3>1
  <2>2. CASE x # Builtin
    <3>1. PICK i \in Slot : roots[i] = x
      BY <2>2 DEF RootObjs
    <3>2. i \in 1 .. Len(R) /\ R[i].obj = x
      BY <1>1, <1>3, <3>1 DEF Slot
    <3> QED
      BY <1>1, <1>2, <3>2, ConcatElements
  <2> QED
    BY <2>1, <2>2
<1>6. ASSUME NEW j \in 1 .. Len(R \o B)
      PROVE  (R \o B)[j].obj \in RootObjs \cup {SmallInt} /\ (R \o B)[j].op = op
  <2>1. CASE \E k \in 1 .. Len(R) : (R \o B)[j] = R[k]
    BY <1>4, <2>1
  <2>2. CASE \E k \in 1 .. Len(B) : (R \o B)[j] = B[k]
    BY <1>2, <2>2 DEF RootObjs
  <2> QED
    BY <1>1, <1>2, <2>1, <2>2, ConcatElements
<1> QED
  BY <1>1, <1>5, <1>6

-----------------------------------------------------------------------------
\* Marking.

\* What one visit does to the marks and to the pending visits.
LEMMA VisitEffect ==
    ASSUME TypeOK, VisitObject
    PROVE  LET o == Head(stack).obj
               op == Head(stack).op
           IN /\ Head(stack) \in Visit
              /\ \E k \in 1 .. Len(stack) : stack[k] = Head(stack)
              /\ \A x \in Obj : Seen(x) => Seen(x)' \/ (x = o /\ Skips(o, op) /\ x \notin mrk)
              /\ \A x \in mrk' : x \in mrk \/ (x = o /\ o \in Obj /\ ~Skips(o, op))
              /\ ~Skips(o, op) => \A x \in Refs(o) : Seen(x)'
              /\ \A j \in 1 .. Len(stack') :
                    \/ \E k \in 1 .. Len(stack) : stack'[j] = stack[k]
                    \/ /\ o \in Obj /\ ~Skips(o, op)
                       /\ stack'[j].obj \in Refs(o) \cup {cls[o], SmallInt}
                       /\ stack'[j].op = FieldOp(o, op)
<1> DEFINE o == Head(stack).obj
           op == Head(stack).op
           T == Tail(stack)
<1>1. /\ Head(stack) \in Visit /\ T \in Seq(Visit) /\ stack \in Seq(Visit) /\ stack # <<>>
      /\ o \in Value /\ op \in VisitOp
  BY VisitSeqs DEF VisitObject, TypeOK, Visit
<1>2. \E k \in 1 .. Len(stack) : stack[k] = Head(stack)
  BY <1>1, TailElements
<1>3. \A j \in 1 .. Len(T) : \E k \in 1 .. Len(stack) : T[j] = stack[k]
  BY <1>1, TailElements
<1>4. ASSUME NEW x \in Obj, Pending(x)
      PROVE  x = o \/ \E k \in 1 .. Len(T) : T[k].obj = x
  <2>1. PICK j \in 1 .. Len(stack) : stack[j].obj = x
    BY <1>4 DEF Pending
  <2>2. stack[j] = Head(stack) \/ \E k \in 1 .. Len(T) : T[k] = stack[j]
    BY <1>1, TailElements
  <2> QED
    BY <2>1, <2>2
<1>5. CASE Skips(o, op)
  <2>1. mrk' = mrk /\ stack' = T
    BY <1>5 DEF VisitObject
  <2>2. ASSUME NEW x \in Obj, Seen(x), ~(x = o /\ x \notin mrk)
        PROVE  Seen(x)'
    BY <1>4, <2>1, <2>2 DEF Seen, Pending
  <2> QED
    BY <1>1, <1>2, <1>3, <1>5, <2>1, <2>2
<1>6. CASE ~Skips(o, op)
  <2> DEFINE C == ChildVisits(o, FieldOp(o, op))
  <2>1. o \in Obj /\ FieldOp(o, op) \in VisitOp
    BY <1>1, <1>6 DEF Skips, Value, FieldOp, VisitOp
  <2>2. mrk' = mrk \cup {o} /\ stack' = C \o T
    BY <1>6 DEF VisitObject
  <2>3. C \in Seq(Visit)
    BY <2>1, ChildVisitsType
  <2>4. /\ \A x \in Refs(o) : \E j \in 1 .. Len(C) : C[j].obj = x
        /\ \A j \in 1 .. Len(C) : /\ C[j].obj \in Refs(o) \cup {cls[o], SmallInt}
                                  /\ C[j].op = FieldOp(o, op)
    BY <2>1, ChildVisitsCover
  <2> HIDE DEF C
  <2>5. /\ \A j \in 1 .. Len(C \o T) :
                 \/ \E k \in 1 .. Len(C) : (C \o T)[j] = C[k]
                 \/ \E k \in 1 .. Len(T) : (C \o T)[j] = T[k]
        /\ \A k \in 1 .. Len(C) : \E j \in 1 .. Len(C \o T) : (C \o T)[j] = C[k]
        /\ \A k \in 1 .. Len(T) : \E j \in 1 .. Len(C \o T) : (C \o T)[j] = T[k]
    BY <1>1, <2>3, ConcatElements
  <2> HIDE DEF T
  <2>6. ASSUME NEW x \in Obj, Seen(x)
        PROVE  Seen(x)'
    <3>1. CASE x \in mrk
      BY <2>2, <3>1 DEF Seen
    <3>2. CASE x = o
      BY <2>2, <3>2 DEF Seen
    <3>3. CASE Pending(x) /\ x # o
      <4>1. PICK k \in 1 .. Len(T) : T[k].obj = x
        BY <1>4, <3>3
      <4>2. PICK j \in 1 .. Len(C \o T) : (C \o T)[j] = T[k]
        BY <2>5
      <4> QED
        BY <2>2, <4>1, <4>2 DEF Seen, Pending
    <3> QED
      BY <2>6, <3>1, <3>2, <3>3 DEF Seen
  <2>7. ASSUME NEW x \in Refs(o)
        PROVE  Seen(x)'
    <3>1. PICK k \in 1 .. Len(C) : C[k].obj = x
      BY <2>4
    <3>2. PICK j \in 1 .. Len(C \o T) : (C \o T)[j] = C[k]
      BY <2>5
    <3> QED
      BY <2>2, <3>1, <3>2 DEF Seen, Pending
  <2>8. ASSUME NEW j \in 1 .. Len(stack')
        PROVE  \/ \E k \in 1 .. Len(stack) : stack'[j] = stack[k]
               \/ /\ stack'[j].obj \in Refs(o) \cup {cls[o], SmallInt}
                  /\ stack'[j].op = FieldOp(o, op)
    <3>1. CASE \E k \in 1 .. Len(C) : stack'[j] = C[k]
      BY <2>4, <3>1
    <3>2. CASE \E k \in 1 .. Len(T) : stack'[j] = T[k]
      BY <1>3, <3>2
    <3> QED
      BY <2>2, <2>5, <3>1, <3>2
  <2> QED
    BY <1>1, <1>2, <1>6, <2>1, <2>2, <2>6, <2>7, <2>8
<1> QED
  BY <1>5, <1>6

\* A visit keeps the invariant.
LEMMA VisitStep ==
    ASSUME MarkInv, VisitObject
    PROVE  PhaseInv' /\ VisitInv' /\ FullInv' /\ FastInv'
<1> DEFINE o == Head(stack).obj
           op == Head(stack).op
           R == ReachAll(RootObjs \cup rem)
<1> USE DEF MarkInv
<1>1. UNCHANGED <<space, rem, cls, fld, roots, pc, todo, current_gc>>
  BY DEF VisitObject
<1>2. /\ RootObjs' = RootObjs
      /\ \A p \in Obj : Refs(p)' = Refs(p)
      /\ In("new")' = In("new") /\ In("old")' = In("old") /\ In("big")' = In("big")
      /\ ReachAll(RootObjs \cup rem)' = R
      /\ LiveWithClasses' = LiveWithClasses
      /\ HeapSound' = HeapSound
  BY <1>1, Frame
<1>3. pc \in GcPhases /\ pc \in MarkPhases
  BY DEF VisitObject, GcPhases
<1>4. /\ Head(stack) \in Visit
      /\ \E k \in 1 .. Len(stack) : stack[k] = Head(stack)
      /\ \A x \in Obj : Seen(x) => Seen(x)' \/ (x = o /\ Skips(o, op) /\ x \notin mrk)
      /\ \A x \in mrk' : x \in mrk \/ (x = o /\ o \in Obj /\ ~Skips(o, op))
      /\ ~Skips(o, op) => \A x \in Refs(o) : Seen(x)'
      /\ \A j \in 1 .. Len(stack') :
            \/ \E k \in 1 .. Len(stack) : stack'[j] = stack[k]
            \/ /\ o \in Obj /\ ~Skips(o, op)
               /\ stack'[j].obj \in Refs(o) \cup {cls[o], SmallInt}
               /\ stack'[j].op = FieldOp(o, op)
  BY VisitEffect
<1>5. RootObjs \cup rem \in SUBSET Obj
  BY RootsAreObjects DEF TypeOK
<1>6. /\ R \subseteq Obj
      /\ \A p \in R : cls[p] \in R /\ Refs(p) \subseteq R
  BY <1>5, ReachAllLeast
<1>7. o \in R \cup {SmallInt}
  BY <1>3, <1>4 DEF VisitInv
<1>8. PhaseInv'
  <2>1. mid' \subseteq In("new")
    <3>1. CASE Skips(o, op)
      BY <3>1 DEF VisitObject, PhaseInv
    <3>2. CASE ~Skips(o, op)
      <4>1. o \in R /\ space[o] # "free"
        BY <1>3, <1>7, <3>2 DEF Skips, VisitInv, HeapSound
      <4>2. MakesMid(o, op) => space[o] = "new"
        BY <1>6, <4>1 DEF MakesMid, IsOld, TypeOK
      <4> QED
        BY <1>6, <3>2, <4>1, <4>2 DEF VisitObject, PhaseInv, In
    <3> QED
      BY <3>1, <3>2
  <2> QED
    BY <1>1, <1>2, <1>3, <2>1 DEF PhaseInv, MarkPhases, GcPhases
<1>9. VisitInv'
  <2>1. mrk' \subseteq R
    BY <1>3, <1>4, <1>6, <1>7, ObjAssumption DEF VisitInv
  <2>2. ASSUME NEW j \in 1 .. Len(stack')
        PROVE  stack'[j].obj \in R \cup {SmallInt}
    <3>1. CASE \E k \in 1 .. Len(stack) : stack'[j] = stack[k]
      BY <1>3, <3>1 DEF VisitInv
    <3>2. CASE o \in Obj /\ stack'[j].obj \in Refs(o) \cup {cls[o], SmallInt}
      BY <1>6, <1>7, <3>2, ObjAssumption
    <3> QED
      BY <1>4, <3>1, <3>2
  <2> QED
    BY <1>1, <1>2, <1>3, <2>1, <2>2 DEF VisitInv
<1>10. FullInv'
  <2> SUFFICES ASSUME current_gc = "full" PROVE FullInv'
    BY <1>1 DEF FullInv
  <2> DEFINE L == LiveWithClasses
  <2>1. /\ L \subseteq Obj
        /\ \A p \in L : cls[p] \in L /\ Refs(p) \subseteq L
    BY RootsAreObjects, ReachAllLeast DEF LiveWithClasses
  <2>2. o \in L \cup {SmallInt} /\ op \in {"MARK_REC", "MARK_REC_O2X"}
    BY <1>3, <1>4 DEF FullInv
  <2>3. \A x \in Obj : Seen(x) => Seen(x)'
    BY <1>4, <2>2, ObjAssumption DEF Skips
  <2>4. FieldOp(o, op) \in {"MARK_REC", "MARK_REC_O2X"}
    BY <2>2 DEF FieldOp
  <2>5. \A x \in RootObjs' : Seen(x)'
    BY <1>2, <1>3, <2>3, RootsAreObjects DEF FullInv
  <2>6. ASSUME NEW p \in mrk', NEW x \in Refs(p)'
        PROVE  Seen(x)'
    <3>1. p \in Obj /\ x \in Refs(p) /\ x \in Obj
      BY <1>2, <1>4, <2>6 DEF TypeOK, Refs
    <3>2. CASE p \in mrk
      BY <1>3, <2>3, <3>1, <3>2 DEF FullInv
    <3>3. CASE p = o /\ ~Skips(o, op)
      BY <1>4, <3>1, <3>3
    <3> QED
      BY <1>4, <3>2, <3>3
  <2>7. mrk' \subseteq L
    BY <1>3, <1>4, <2>2, ObjAssumption DEF FullInv
  <2>8. ASSUME NEW j \in 1 .. Len(stack')
        PROVE  /\ stack'[j].obj \in L \cup {SmallInt}
               /\ stack'[j].op \in {"MARK_REC", "MARK_REC_O2X"}
    <3>1. CASE \E k \in 1 .. Len(stack) : stack'[j] = stack[k]
      BY <1>3, <3>1 DEF FullInv
    <3>2. CASE /\ o \in Obj
               /\ stack'[j].obj \in Refs(o) \cup {cls[o], SmallInt}
               /\ stack'[j].op = FieldOp(o, op)
      BY <2>1, <2>2, <2>4, <3>2, ObjAssumption
    <3> QED
      BY <1>4, <3>1, <3>2
  <2> QED
    BY <1>2, <2>5, <2>6, <2>7, <2>8 DEF FullInv
<1>11. FastInv'
  <2> SUFFICES ASSUME current_gc = "fast" PROVE FastInv'
    BY <1>1 DEF FastInv
  <2>1. \A x \in Obj : Seen(x) /\ space[x] = "new" => Seen(x)'
    BY <1>4, ObjAssumption DEF Skips, IsOld
  <2>2. \A x \in RootObjs' : space[x] = "new" => Seen(x)'
    BY <1>2, <1>3, <2>1, RootsAreObjects DEF FastInv
  <2>3. Scanned' = Scanned
    BY <1>1, <1>2 DEF Scanned
  <2>4. ASSUME NEW p \in mrk' \cup Scanned', NEW x \in Refs(p)', space[x] = "new"
        PROVE  Seen(x)'
    <3>1. p \in Obj /\ x \in Refs(p) /\ x \in Obj
      <4>1. p \in Obj
        BY <1>4, <2>3, <2>4 DEF TypeOK, Scanned
      <4> QED
        BY <1>2, <2>4, <4>1 DEF Refs
    <3>2. CASE p \in mrk \cup Scanned
      BY <1>3, <2>1, <2>4, <3>1, <3>2 DEF FastInv
    <3>3. CASE p = o /\ ~Skips(o, op)
      BY <1>4, <3>1, <3>3
    <3> QED
      BY <1>4, <2>3, <3>2, <3>3
  <2> QED
    BY <1>1, <1>2, <2>2, <2>4 DEF FastInv
<1> QED
  BY <1>8, <1>9, <1>10, <1>11

\* A collection starts with the roots pending and nothing marked.
LEMMA StartStep ==
    ASSUME MarkInv, pc \notin GcPhases, NEW type \in {"auto", "fast", "full"},
           StartGc(type)
    PROVE  PhaseInv' /\ VisitInv' /\ FullInv' /\ FastInv'
<1> USE DEF MarkInv
<1>1. mrk = {} /\ todo = {} /\ mrk' = {} /\ todo' = {}
      /\ UNCHANGED <<space, rem, cls, fld, roots, mid>>
  BY DEF PhaseInv, StartGc, heap
<1>2. /\ RootObjs' = RootObjs
      /\ In("new")' = In("new") /\ In("old")' = In("old") /\ In("big")' = In("big")
      /\ ReachAll(RootObjs \cup rem)' = ReachAll(RootObjs \cup rem)
      /\ LiveWithClasses' = LiveWithClasses
      /\ HeapSound' = HeapSound
  BY <1>1, Frame
<1>3. CASE ~HeapSound
  <2>1. pc' = "undefined" /\ stack' = stack
    BY <1>3 DEF StartGc
  <2> QED
    BY <1>1, <1>2, <2>1 DEF PhaseInv, VisitInv, FullInv, FastInv, GcPhases, MarkPhases
<1>4. CASE HeapSound
  <2> DEFINE op == IF GcType(type) = "full" THEN "MARK_REC" ELSE "MARK_REC_Y"
  <2>1. /\ pc' = "mark_roots" /\ current_gc' = GcType(type)
        /\ GcType(type) \in {"fast", "full"} /\ stack' = RootVisits(op)
    BY <1>4 DEF StartGc, GcType
  <2>2. op \in VisitOp
    BY DEF VisitOp
  <2>3. /\ \A x \in RootObjs : \E j \in 1 .. Len(stack') : stack'[j].obj = x
        /\ \A j \in 1 .. Len(stack') :
              /\ stack'[j].obj \in RootObjs \cup {SmallInt}
              /\ stack'[j].op = op
    BY <2>1, <2>2, RootVisitsCover
  <2>4. RootObjs \cup rem \in SUBSET Obj
    BY RootsAreObjects DEF TypeOK
  <2>5. RootObjs \subseteq ReachAll(RootObjs \cup rem) /\ RootObjs \subseteq LiveWithClasses
    BY <2>4, RootsAreObjects, ReachAllLeast DEF LiveWithClasses
  <2>6. PhaseInv'
    BY <1>1, <1>2, <2>1 DEF PhaseInv, GcPhases, MarkPhases
  <2>7. VisitInv'
    <3>1. HeapSound'
      BY <1>2, <1>4
    <3>2. \A j \in 1 .. Len(stack') :
             stack'[j].obj \in ReachAll(RootObjs \cup rem)' \cup {SmallInt}
      BY <1>2, <2>3, <2>5
    <3> QED
      BY <1>1, <3>1, <3>2 DEF VisitInv
  <2>8. \A x \in RootObjs' : Seen(x)'
    BY <1>2, <2>3 DEF Seen, Pending
  <2>9. FullInv'
    BY <1>1, <1>2, <2>1, <2>3, <2>5, <2>8 DEF FullInv
  <2>10. Scanned' = {}
    BY <2>1 DEF Scanned
  <2>11. FastInv'
    BY <1>1, <2>8, <2>10 DEF FastInv
  <2> QED
    BY <2>6, <2>7, <2>9, <2>11
<1> QED
  BY <1>3, <1>4

\* Scanning a remembered object pushes all its fields.
LEMMA ScanStep ==
    ASSUME MarkInv, NEW o \in Obj, ScanRemembered(o)
    PROVE  PhaseInv' /\ VisitInv' /\ FullInv' /\ FastInv'
<1> USE DEF MarkInv
<1>1. /\ UNCHANGED <<space, rem, cls, fld, roots, mid, mrk, pc, current_gc>>
      /\ pc \in {"mark_old", "mark_big"} /\ stack = <<>> /\ o \in todo
      /\ stack' = FieldVisits(o, "MARK_REC_O2Y") /\ todo' = todo \ {o}
  BY DEF ScanRemembered, heap
<1>2. /\ RootObjs' = RootObjs
      /\ \A p \in Obj : Refs(p)' = Refs(p)
      /\ In("new")' = In("new") /\ In("old")' = In("old") /\ In("big")' = In("big")
      /\ ReachAll(RootObjs \cup rem)' = ReachAll(RootObjs \cup rem)
      /\ HeapSound' = HeapSound
  BY <1>1, Frame
<1>3. pc \in GcPhases /\ current_gc = "fast"
  BY <1>1 DEF PhaseInv, GcPhases, MarkPhases
<1>4. o \in rem
  BY <1>1 DEF PhaseInv
<1>5. /\ \A x \in Refs(o) : \E j \in 1 .. Len(stack') : stack'[j].obj = x
      /\ \A j \in 1 .. Len(stack') : stack'[j].obj \in Refs(o) \cup {SmallInt}
  <2>1. "MARK_REC_O2Y" \in VisitOp
    BY DEF VisitOp
  <2> QED
    BY <1>1, <2>1, ChildVisitsCover
<1>6. PhaseInv'
  BY <1>1, <1>2 DEF PhaseInv, GcPhases, MarkPhases
<1>7. VisitInv'
  <2>1. RootObjs \cup rem \in SUBSET Obj
    BY RootsAreObjects DEF TypeOK
  <2>2. Refs(o) \subseteq ReachAll(RootObjs \cup rem)
    BY <1>4, <2>1, ReachAllLeast
  <2>3. HeapSound'
    BY <1>2, <1>3 DEF VisitInv
  <2>4. mrk' \subseteq ReachAll(RootObjs \cup rem)'
    BY <1>1, <1>2, <1>3 DEF VisitInv
  <2>5. \A j \in 1 .. Len(stack') :
           stack'[j].obj \in ReachAll(RootObjs \cup rem)' \cup {SmallInt}
    BY <1>2, <1>5, <2>2
  <2> QED
    BY <2>3, <2>4, <2>5 DEF VisitInv
<1>8. FullInv'
  BY <1>1, <1>3 DEF FullInv
<1>9. FastInv'
  <2>1. \A x \in Obj : Seen(x) => Seen(x)'
    BY <1>1 DEF Seen, Pending
  <2>2. Scanned' \subseteq Scanned \cup {o}
    BY <1>1, <1>2 DEF Scanned
  <2>3. \A x \in Refs(o) : Seen(x)'
    BY <1>5 DEF Seen, Pending
  <2>4. Scanned \subseteq Obj /\ mrk \subseteq Obj
    BY DEF Scanned, TypeOK
  <2>5. ASSUME NEW p \in mrk' \cup Scanned', NEW x \in Refs(p)', space[x] = "new"
        PROVE  Seen(x)'
    <3>1. p \in Obj /\ x \in Refs(p) /\ x \in Obj
      <4>1. p \in Obj
        BY <1>1, <2>2, <2>4
      <4> QED
        BY <1>2, <2>5, <4>1 DEF Refs
    <3>2. CASE p \in mrk \cup Scanned
      BY <1>3, <2>1, <2>5, <3>1, <3>2 DEF FastInv
    <3>3. CASE p = o
      BY <2>3, <3>1, <3>3
    <3> QED
      BY <1>1, <2>2, <3>2, <3>3
  <2>6. \A x \in RootObjs' : space[x] = "new" => Seen(x)'
    BY <1>2, <1>3, <2>1, RootsAreObjects DEF FastInv
  <2> QED
    BY <1>1, <2>5, <2>6 DEF FastInv
<1> QED
  BY <1>6, <1>7, <1>8, <1>9

\* Between two phases nothing is pending: what was scanned stays scanned.
LEMMA PhaseStep ==
    ASSUME MarkInv, NextPhase
    PROVE  PhaseInv' /\ VisitInv' /\ FullInv' /\ FastInv'
<1> USE DEF MarkInv
<1>1. /\ UNCHANGED <<space, rem, cls, fld, roots, mid, mrk, stack, current_gc>>
      /\ pc \in MarkPhases /\ stack = <<>> /\ todo = {}
      /\ pc \in GcPhases /\ pc' \in GcPhases
  BY DEF NextPhase, heap, GcPhases, MarkPhases
<1>2. /\ RootObjs' = RootObjs
      /\ \A p \in Obj : Refs(p)' = Refs(p)
      /\ In("new")' = In("new") /\ In("old")' = In("old") /\ In("big")' = In("big")
      /\ ReachAll(RootObjs \cup rem)' = ReachAll(RootObjs \cup rem)
      /\ LiveWithClasses' = LiveWithClasses
      /\ HeapSound' = HeapSound
  BY <1>1, Frame
<1>3. PhaseInv'
  BY <1>1, <1>2 DEF PhaseInv, NextPhase, GcPhases, MarkPhases
<1>4. VisitInv'
  BY <1>1, <1>2 DEF VisitInv
<1>5. \A x \in Obj : Seen(x)' = Seen(x)
  BY <1>1 DEF Seen, Pending
<1>6. FullInv'
  <2> SUFFICES ASSUME current_gc = "full" PROVE FullInv'
    BY <1>1 DEF FullInv
  <2>1. \A x \in RootObjs' : Seen(x)'
    BY <1>1, <1>2, <1>5, RootsAreObjects DEF FullInv
  <2>2. ASSUME NEW p \in mrk', NEW x \in Refs(p)'
        PROVE  Seen(x)'
    <3>1. p \in mrk /\ x \in Refs(p) /\ x \in Obj
      BY <1>1, <1>2 DEF TypeOK, Refs
    <3> QED
      BY <1>1, <1>5, <3>1 DEF FullInv
  <2> QED
    BY <1>1, <1>2, <2>1, <2>2 DEF FullInv
<1>7. FastInv'
  <2> SUFFICES ASSUME current_gc = "fast" PROVE FastInv'
    BY <1>1 DEF FastInv
  <2>1. \A x \in RootObjs' : space[x] = "new" => Seen(x)'
    BY <1>1, <1>2, <1>5, RootsAreObjects DEF FastInv
  <2>2. Scanned' \subseteq Scanned
    <3>1. CASE pc = "mark_roots"
      BY <1>1, <1>2, <3>1 DEF NextPhase, Scanned
    <3>2. CASE pc = "mark_old"
      <4>1. pc' = "mark_big" /\ todo' = rem \cap In("big")
        BY <3>2 DEF NextPhase
      <4>2. Scanned' = rem \ (rem \cap In("big"))
        BY <1>1, <4>1 DEF Scanned
      <4>3. Scanned = rem \cap In("old")
        BY <1>1, <3>2 DEF Scanned
      <4> QED
        BY <4>2, <4>3 DEF PhaseInv
    <3>3. CASE pc = "mark_big"
      BY <1>1, <1>2, <3>3 DEF NextPhase, Scanned
    <3> QED
      BY <1>1, <3>1, <3>2, <3>3 DEF MarkPhases
  <2>3. ASSUME NEW p \in mrk' \cup Scanned', NEW x \in Refs(p)', space[x] = "new"
        PROVE  Seen(x)'
    <3>1. p \in mrk \cup Scanned /\ p \in Obj
      BY <1>1, <2>2, <2>3 DEF TypeOK, Scanned
    <3>2. x \in Refs(p) /\ x \in Obj
      BY <1>2, <2>3, <3>1 DEF Refs
    <3> QED
      BY <1>1, <1>5, <2>3, <3>1, <3>2 DEF FastInv
  <2> QED
    BY <1>1, <2>1, <2>3 DEF FastInv
<1> QED
  BY <1>3, <1>4, <1>6, <1>7

\* Outside a collection only the flags matter.
LEMMA QuietStep ==
    ASSUME PhaseInv', pc' \notin GcPhases
    PROVE  VisitInv' /\ FullInv' /\ FastInv'
BY DEF VisitInv, FullInv, FastInv

\* The invariant is inductive.
LEMMA MarkStep == MarkInv /\ [Next]_vars => MarkInv'
<1> SUFFICES ASSUME MarkInv, [Next]_vars PROVE MarkInv'
  OBVIOUS
<1>0. TypeOK /\ TypeOK'
  BY TypeStep DEF MarkInv
<1> SUFFICES PhaseInv' /\ VisitInv' /\ FullInv' /\ FastInv'
  BY <1>0 DEF MarkInv
<1> USE DEF MarkInv
<1>1. ASSUME NEW o \in Obj, NEW i \in Field, NEW v \in Value, SetField(o, i, v)
      PROVE  PhaseInv' /\ pc' \notin GcPhases
  <2>1. rem' \subseteq In("old") \cup In("big")
    BY <1>1 DEF SetField, RecordO2Y, Remember, IsOld, In, PhaseInv
  <2> QED
    BY <1>1, <2>1 DEF SetField, PhaseInv, In, gcVars, GcPhases, MarkPhases
<1>2. ASSUME NEW s \in Slot, NEW v \in Value, SetSlot(s, v)
      PROVE  PhaseInv' /\ pc' \notin GcPhases
  BY <1>2 DEF SetSlot, PhaseInv, In, heap, gcVars, GcPhases, MarkPhases
<1>3. ASSUME PushNgc \/ PopNgc
      PROVE  PhaseInv' /\ pc' \notin GcPhases
  BY <1>3 DEF PushNgc, PopNgc, PhaseInv, In, heap, gcVars, GcPhases, MarkPhases
<1>4. ASSUME NEW type \in GcTypes, CallGc(type)
      PROVE  PhaseInv' /\ VisitInv' /\ FullInv' /\ FastInv'
  BY <1>4, StartStep, KindAssumption DEF CallGc, GcPhases, MarkPhases
<1>5. ASSUME NEW kind \in AllocKinds, NEW c \in Obj, NEW s \in Slot,
             BeginAlloc(kind, c, s)
      PROVE  PhaseInv' /\ pc' \notin GcPhases
  BY <1>5 DEF BeginAlloc, PhaseInv, In, heap, gcVars, GcPhases, MarkPhases
<1>6. ASSUME NEW o \in Obj, AllocDone(o)
      PROVE  PhaseInv' /\ pc' \notin GcPhases
  <2>1. space[o] = "free" /\ pc' = "mutator" /\ pc = "alloc"
    BY <1>6 DEF AllocDone, Fresh
  <2>2. \A p \in Obj : p # o => space'[p] = space[p]
    BY <1>0, <1>6 DEF AllocDone, TypeOK
  <2>3. mid' \subseteq In("new")' /\ rem' \subseteq In("old")' \cup In("big")'
    BY <1>6, <2>1, <2>2 DEF AllocDone, PhaseInv, In
  <2> QED
    BY <1>6, <2>1, <2>3 DEF AllocDone, PhaseInv, gcVars, GcPhases, MarkPhases
<1>7. CASE AllocRetry
  <2>1. pc \notin GcPhases
    BY <1>7 DEF AllocRetry, GcPhases, MarkPhases
  <2>2. CASE StartGc(IF req.kind = "auto" THEN "fast" ELSE "full")
    BY <2>1, <2>2, StartStep
  <2>3. CASE UNCHANGED <<heap, roots, no_gc_count, pc, gcVars>>
    <3>1. PhaseInv'
      BY <2>3 DEF PhaseInv, In, heap, gcVars
    <3> QED
      BY <2>1, <2>3, <3>1, QuietStep DEF GcPhases, MarkPhases
  <2> QED
    BY <1>7, <2>2, <2>3 DEF AllocRetry
<1>8. ASSUME AllocGrow
      PROVE  PhaseInv' /\ pc' \notin GcPhases
  BY <1>8 DEF AllocGrow, PhaseInv, In, gcVars, GcPhases, MarkPhases
<1>9. ASSUME NEW promoted \in SUBSET Obj, FastCopy(promoted)
      PROVE  PhaseInv' /\ pc' \notin GcPhases
  <2>1. mid' \subseteq In("new")'
    BY <1>9 DEF FastCopy, Reclaim, In, Promotable
  <2> QED
    BY <1>9, <2>1 DEF FastCopy, EndGc, PhaseInv, GcPhases, MarkPhases
<1>10. ASSUME FullCompact
       PROVE  PhaseInv' /\ pc' \notin GcPhases
  <2>1. mid' \subseteq In("new")'
    BY <1>10 DEF FullCompact, Reclaim, In, Promotable
  <2> QED
    BY <1>10, <2>1 DEF FullCompact, EndGc, PhaseInv, GcPhases, MarkPhases
<1>11. CASE UNCHANGED vars
  BY SMTT(40), <1>11 DEF vars, PhaseInv, VisitInv, FullInv, FastInv, In, HeapSound,
       ReachAll, ClassClosed, Refs, RootObjs, LiveWithClasses, Seen, Pending, Scanned
<1>12. CASE Undefined
  BY <1>11, <1>12 DEF Undefined
<1> QED
  BY <1>1, <1>2, <1>3, <1>4, <1>5, <1>6, <1>7, <1>8, <1>9, <1>10, <1>11, <1>12,
     QuietStep, VisitStep, ScanStep, PhaseStep
  DEF Next, Mutator, Allocator, Collector

\* It holds of the empty heap.
LEMMA MarkInit == Init => MarkInv
<1> SUFFICES ASSUME Init PROVE MarkInv
  OBVIOUS
<1>1. PhaseInv /\ pc \notin GcPhases
  BY DEF Init, PhaseInv, GcPhases, MarkPhases
<1> QED
  BY <1>1, TypeInit DEF MarkInv, VisitInv, FullInv, FastInv

\* When a full collection has marked, the marks are exact.
LEMMA FullExact == MarkInv => FullMarkExact
<1> SUFFICES ASSUME MarkInv, pc = "sweep", current_gc = "full"
             PROVE  Live \subseteq mrk /\ mrk \subseteq LiveWithClasses
  BY DEF FullMarkExact
<1>1. pc \in GcPhases /\ stack = <<>> /\ mrk \in SUBSET Obj
  BY DEF MarkInv, PhaseInv, GcPhases, TypeOK
<1>2. \A x : ~Pending(x)
  BY <1>1 DEF Pending
<1>3. RootObjs \subseteq mrk /\ FieldClosed(mrk)
  BY <1>1, <1>2 DEF MarkInv, FullInv, Seen, FieldClosed
<1>4. Live \subseteq mrk
  BY <1>1, <1>3, RootsAreObjects, ReachFieldsLeast DEF Live
<1> QED
  BY <1>1, <1>4 DEF MarkInv, FullInv

\* When a fast collection has marked, no reachable young object is missed.
\* The set S is closed under references: a young object referred to by an old
\* one is marked because the old one was remembered, hence scanned.
LEMMA FastComplete == MarkInv => FastMarkComplete
<1> SUFFICES ASSUME MarkInv, pc = "sweep", current_gc = "fast", RememberedComplete
             PROVE  Live \cap In("new") \subseteq mrk
  BY DEF FastMarkComplete
<1> DEFINE S == {o \in Live : o \in mrk \/ IsOld(o)}
<1>1. pc \in GcPhases /\ stack = <<>> /\ todo = {} /\ TypeOK
  BY DEF MarkInv, PhaseInv, GcPhases
<1>2. \A x : ~Pending(x)
  BY <1>1 DEF Pending
<1>3. Scanned = rem
  BY <1>1 DEF Scanned
<1>4. /\ Live \subseteq Obj /\ RootObjs \subseteq Live
      /\ \A o \in Live : Refs(o) \subseteq Live
  BY RootsAreObjects, ReachFieldsLeast DEF Live
<1>5. \A o \in Live : space[o] = "new" \/ IsOld(o)
  <2>1. Live \subseteq ReachAll(RootObjs \cup rem)
    BY <1>1, LiveIsVisitable
  <2>2. \A o \in Live : space[o] # "free"
    BY <1>1, <2>1 DEF MarkInv, VisitInv, HeapSound
  <2> QED
    BY <1>1, <1>4, <2>2 DEF TypeOK, IsOld
<1>6. RootObjs \subseteq S
  BY <1>1, <1>2, <1>4, <1>5 DEF MarkInv, FastInv, Seen
<1>7. FieldClosed(S)
  <2> SUFFICES ASSUME NEW o \in S, NEW x \in Refs(o)
               PROVE  x \in S
    BY DEF FieldClosed
  <2>1. x \in Live /\ (space[x] = "new" \/ IsOld(x))
    BY <1>4, <1>5
  <2>2. CASE space[x] = "new"
    <3>1. o \in mrk \cup Scanned
      BY <1>3, <1>4, <2>2 DEF RememberedComplete
    <3> QED
      BY <1>1, <1>2, <2>1, <2>2, <3>1 DEF MarkInv, FastInv, Seen
  <2> QED
    BY <2>1, <2>2
<1>8. Live \subseteq S
  <2>1. S \in SUBSET Obj
    BY <1>4
  <2> HIDE DEF S
  <2> QED
    BY <1>6, <1>7, <2>1, RootsAreObjects, ReachFieldsLeast DEF Live
<1> QED
  BY <1>8 DEF In, IsOld

\* Hence no step takes the storage of a reachable object.
LEMMA KeepsLive ==
    ASSUME MarkInv, [Next]_vars, current_gc = "full" \/ RememberedComplete,
           NEW o \in Live, space[o] # "free"
    PROVE  space'[o] # "free"
<1>0. o \in Obj /\ TypeOK
  BY RootsAreObjects, ReachFieldsLeast DEF Live, MarkInv
<1>1. ASSUME NEW promoted \in SUBSET Obj, FastCopy(promoted)
      PROVE  space'[o] # "free"
  <2>1. pc = "sweep" /\ current_gc = "fast"
    BY <1>1 DEF FastCopy
  <2>2. Live \cap In("new") \subseteq mrk
    BY <2>1, FastComplete DEF FastMarkComplete
  <2> QED
    BY <1>0, <1>1, <2>2 DEF FastCopy, Reclaim, In
<1>2. CASE FullCompact
  <2>1. Live \subseteq mrk
    BY <1>2, FullExact DEF FullMarkExact, FullCompact
  <2> QED
    BY <1>0, <1>2, <2>1 DEF FullCompact, Reclaim
<1>3. ASSUME NEW p \in Obj, AllocDone(p)
      PROVE  space'[o] # "free"
  BY <1>0, <1>3 DEF AllocDone, SpaceFor, TypeOK
<1>4. ASSUME NEW type \in {"auto", "fast", "full"}, StartGc(type)
      PROVE  space'[o] # "free"
  BY <1>4 DEF StartGc, heap
<1>5. CASE AllocRetry
  BY <1>4, <1>5 DEF AllocRetry, heap
<1>6. CASE Mutator
  BY <1>4, <1>6, KindAssumption
  DEF Mutator, SetField, SetSlot, PushNgc, PopNgc, CallGc, BeginAlloc, heap
<1>7. CASE AllocGrow \/ VisitObject \/ NextPhase \/ Undefined \/ UNCHANGED vars
  BY <1>7 DEF AllocGrow, VisitObject, NextPhase, Undefined, heap, vars
<1>8. ASSUME NEW p \in Obj, ScanRemembered(p)
      PROVE  space'[o] # "free"
  BY <1>8 DEF ScanRemembered, heap
<1> QED
  BY <1>1, <1>2, <1>3, <1>5, <1>6, <1>7, <1>8 DEF Next, Allocator, Collector

-----------------------------------------------------------------------------
\* Theorems.

\* MarkInv holds throughout.
THEOREM MarkInvariant == Spec => []MarkInv
BY MarkInit, MarkStep, PTL DEF Spec

\* The flags of every object agree with its space, and no mark outlives a
\* collection, whatever the object graph and the sequence of collections.
THEOREM FlagsAreConsistent == Spec => []FlagsConsistent
<1>1. MarkInv => FlagsConsistent
  BY DEF MarkInv, PhaseInv, FlagsConsistent
<1> QED
  BY <1>1, MarkInvariant, PTL

\* A full collection marks all that is reachable through fields and nothing
\* that is unreachable.
THEOREM FullCollectionIsExact == Spec => []FullMarkExact
BY MarkInvariant, FullExact, PTL

\* A fast collection started with complete remembered sets marks every
\* reachable young object.
THEOREM FastCollectionIsComplete == Spec => []FastMarkComplete
BY MarkInvariant, FastComplete, PTL

\* No step frees an object that is reachable through fields; for a fast
\* collection, provided that the remembered sets were complete.
THEOREM LiveObjectsAreKept == Spec => LiveKept
<1>1. MarkInv /\ [Next]_vars =>
         [current_gc = "full" \/ RememberedComplete =>
            \A o \in Live : space[o] # "free" => space'[o] # "free"]_vars
  BY KeepsLive
<1> QED
  BY <1>1, MarkInvariant, PTL DEF Spec, LiveKept
=============================================================================
