------------------------------- MODULE ObjMem -------------------------------
(***************************************************************************)
(* Object memory of the OWIZ machine (objects/objmem.c, objects/objmem.h): *)
(* three spaces (new, old, big), a write barrier feeding the remembered    *)
(* sets, and two stop-the-world collectors, gc_fast and gc_full.           *)
(*                                                                         *)
(* Objects are identities, not addresses: moving an object inside a space  *)
(* changes nothing here (addresses are the subject of Compaction), being   *)
(* promoted changes its space.  All small objects have one size, so a      *)
(* space's capacity is a number of objects.  Marking is modelled visit by  *)
(* visit, with the C recursion as an explicit stack, because the order of  *)
(* the visits decides which objects are promoted.                          *)
(*                                                                         *)
(* The mutator is the interpreter: it reaches objects through its stack    *)
(* slots and the builtin classes only.                                     *)
(***************************************************************************)
EXTENDS Integers, Sequences, FiniteSets

CONSTANTS
    Obj,              \* object identities
    ClassIds,         \* the identities used for user-defined class objects
    Builtin,          \* the builtin classes, one object: always a GC root
    SmallInt,         \* a small int (or an empty slot): not a reference
    NumFields,        \* fields of an object
    NumSlots,         \* slots of the interpreter stack
    NewCap,           \* objects a new-space chunk holds
    OldCap,           \* objects an old-space chunk holds
    BigThresholdInit, \* BIG_SPACE_THRESHOLD_INIT, in objects
    AllocKinds,       \* allocation kinds the mutator uses
    GcTypes,          \* collection types the mutator asks for
    MaxNgc            \* bound on the nesting of no-GC regions

ASSUME ObjAssumption ==
    /\ IsFiniteSet(Obj)
    /\ ClassIds \subseteq Obj
    /\ Builtin \in Obj \ ClassIds
    /\ SmallInt \notin Obj

ASSUME SizeAssumption ==
    /\ NumFields \in Nat \ {0}
    /\ NumSlots \in Nat \ {0}
    /\ NewCap \in Nat \ {0}
    /\ OldCap \in Nat \ {0}
    /\ BigThresholdInit \in Nat
    /\ MaxNgc \in Nat

ASSUME KindAssumption ==
    /\ AllocKinds \subseteq {"auto", "surv", "huge", "large"}
    /\ GcTypes \subseteq {"auto", "fast", "full"}

VARIABLES
    space,         \* the space of an object; "free": not allocated
    mid,           \* young objects with flag MID
    mrk,           \* objects with flag MRK
    rem,           \* old and big objects in a remembered set
    cls,           \* CLS of an object
    fld,           \* fields of an object
    roots,         \* the interpreter's stack slots
    old_chunks,    \* number of chunks of the old space
    big_threshold, \* threshold_size of the big space
    no_gc_count,
    force_full_gc,
    current_gc,    \* current_gc_type
    pc,            \* where the single thread of control is
    stack,         \* visits still to make: the C recursion, unwound
    todo,          \* remembered objects still to scan in this phase
    req            \* the allocation in progress

vars == <<space, mid, mrk, rem, cls, fld, roots, old_chunks, big_threshold,
          no_gc_count, force_full_gc, current_gc, pc, stack, todo, req>>

heap == <<space, mid, rem, cls, fld, old_chunks, big_threshold>>
gcVars == <<mrk, current_gc, stack, todo, force_full_gc>>

Value == Obj \cup {SmallInt}
Field == 1 .. NumFields
Slot == 1 .. NumSlots
VisitOp == {"MARK_REC", "MARK_REC_Y", "MARK_REC_O2X", "MARK_REC_O2Y"}
Visit == [obj : Value, op : VisitOp]
MarkPhases == {"mark_roots", "mark_old", "mark_big"}
GcPhases == MarkPhases \cup {"sweep"}

NoReq == [kind |-> "none"]
Request == [kind : {"auto", "surv", "huge", "large"}, cls : Obj, slot : Slot,
            retrying : 0 .. 1]

-----------------------------------------------------------------------------
\* Spaces and references.

In(s) == {o \in Obj : space[o] = s}
IsOld(o) == space[o] \in {"old", "big"}
Refs(o) == {fld[o][i] : i \in Field} \cap Obj
RootObjs == ({roots[i] : i \in Slot} \cap Obj) \cup {Builtin}

\* Free slots of the tail chunk.  Chunks before the tail are full: one is
\* added only when nothing fits in the tail any more.
OldRoom == old_chunks * OldCap - Cardinality(In("old"))

\* What can be reached from the objects of a set through fields, and through
\* fields and class pointers.
FieldClosed(S) == \A o \in S : Refs(o) \subseteq S
ReachFields(from) == {o \in Obj : \A S \in SUBSET Obj :
                          from \subseteq S /\ FieldClosed(S) => o \in S}
ClassClosed(S) == \A o \in S : Refs(o) \cup {cls[o]} \subseteq S
ReachAll(from) == {o \in Obj : \A S \in SUBSET Obj :
                       from \subseteq S /\ ClassClosed(S) => o \in S}

Live == ReachFields(RootObjs)
LiveWithClasses == ReachAll(RootObjs)

\* An unallocated identity nothing refers to any more: an address handed out
\* again is a new identity for as long as a stale reference to it remains.
Fresh(o) ==
    /\ space[o] = "free"
    /\ o \notin RootObjs
    /\ \A p \in Obj : space[p] # "free" => o \notin Refs(p) \cup {cls[p]}

\* No visit of a collection that starts now meets a freed object.
HeapSound == \A o \in ReachAll(RootObjs \cup rem) : space[o] # "free"

-----------------------------------------------------------------------------
Init ==
    /\ space = [o \in Obj |-> IF o = Builtin THEN "old" ELSE "free"]
    /\ mid = {} /\ mrk = {} /\ rem = {}
    /\ cls = [o \in Obj |-> Builtin]
    /\ fld = [o \in Obj |-> [i \in Field |-> SmallInt]]
    /\ roots = [i \in Slot |-> SmallInt]
    /\ old_chunks = 1
    /\ big_threshold = BigThresholdInit
    /\ no_gc_count = 0
    /\ force_full_gc = FALSE
    /\ current_gc = "none"
    /\ pc = "mutator"
    /\ stack = <<>>
    /\ todo = {}
    /\ req = NoReq

-----------------------------------------------------------------------------
\* The mutator.

\* ow_objmem_record_o2y_object(): the bit of o in the remembered set of its
\* chunk, or the flag in the PTR field of a large object.
Remember(o) == rem \cup {o}

\* ow_object_write_barrier().
RecordO2Y(o, v) ==
    IF IsOld(o) /\ v # SmallInt /\ ~IsOld(v) THEN Remember(o) ELSE rem

\* ow_object_set_field() on an object of a stack slot or on a builtin class.
SetField(o, i, v) ==
    /\ pc = "mutator"
    /\ o \in RootObjs
    /\ v \in RootObjs \cup {SmallInt}
    /\ fld' = [fld EXCEPT ![o][i] = v]
    /\ rem' = RecordO2Y(o, v)
    /\ UNCHANGED <<space, mid, cls, roots, old_chunks, big_threshold,
                   no_gc_count, pc, req, gcVars>>

\* Push a field, or drop a slot (v = SmallInt).
SetSlot(s, v) ==
    /\ pc = "mutator"
    /\ v = SmallInt \/ \E o \in RootObjs, i \in Field : v = fld[o][i]
    /\ roots' = [roots EXCEPT ![s] = v]
    /\ UNCHANGED <<heap, no_gc_count, pc, req, gcVars>>

PushNgc ==
    /\ pc = "mutator"
    /\ no_gc_count < MaxNgc
    /\ no_gc_count' = no_gc_count + 1
    /\ UNCHANGED <<heap, roots, pc, req, gcVars>>

PopNgc ==
    /\ pc = "mutator"
    /\ no_gc_count > 0
    /\ no_gc_count' = no_gc_count - 1
    /\ UNCHANGED <<heap, roots, pc, req, gcVars>>

-----------------------------------------------------------------------------
\* ow_objmem_gc(): choice of the collection, and its first step.

FieldVisits(o, op) == [i \in Field |-> [obj |-> fld[o][i], op |-> op]]

\* The roots, in the order of the list: the call stack was added last and
\* comes first, the builtin classes last.
RootVisits(op) ==
    [i \in Slot |-> [obj |-> roots[i], op |-> op]]
        \o << [obj |-> Builtin, op |-> op] >>

GcType(type) == IF force_full_gc \/ type = "full" THEN "full" ELSE "fast"

StartGc(type) ==
    /\ no_gc_count = 0
    /\ IF HeapSound
       THEN /\ current_gc' = GcType(type)
            /\ force_full_gc' = FALSE
            /\ stack' = RootVisits(IF GcType(type) = "full"
                                   THEN "MARK_REC" ELSE "MARK_REC_Y")
            /\ pc' = "mark_roots"
       ELSE \* What marking a freed object does is undefined: not followed.
            /\ pc' = "undefined"
            /\ UNCHANGED <<current_gc, force_full_gc, stack>>
    /\ UNCHANGED <<heap, roots, no_gc_count, mrk, todo>>

CallGc(type) ==
    /\ pc = "mutator"
    /\ StartGc(type)
    /\ UNCHANGED req

-----------------------------------------------------------------------------
\* ow_objmem_allocate() and ow_objmem_allocate_ex().  Kind "large" is the
\* large object of the former, which never raises the threshold; kind "huge"
\* the large object of the latter.

Room(kind) ==
    IF kind = "auto" THEN Cardinality(In("new")) < NewCap
    ELSE IF kind = "surv" THEN OldRoom > 0
    ELSE Cardinality(In("big")) < big_threshold

SpaceFor(kind) ==
    IF kind = "auto" THEN "new" ELSE IF kind = "surv" THEN "old" ELSE "big"

\* A class object is an instance of a builtin class, of type SURV.
Fits(o, kind, c) == o \in ClassIds => kind = "surv" /\ c = Builtin

BeginAlloc(kind, c, s) ==
    /\ pc = "mutator"
    /\ c \in {Builtin} \cup (ClassIds \cap RootObjs)
    /\ \E o \in Obj : Fresh(o) /\ Fits(o, kind, c)
    /\ req' = [kind |-> kind, cls |-> c, slot |-> s, retrying |-> 0]
    /\ pc' = "alloc"
    /\ UNCHANGED <<heap, roots, no_gc_count, gcVars>>

\* The storage is there.
AllocDone(o) ==
    /\ pc = "alloc"
    /\ Room(req.kind)
    /\ Fresh(o)
    /\ Fits(o, req.kind, req.cls)
    /\ space' = [space EXCEPT ![o] = SpaceFor(req.kind)]
    /\ cls' = [cls EXCEPT ![o] = req.cls]
    /\ roots' = [roots EXCEPT ![req.slot] = o]
    /\ req' = NoReq
    /\ pc' = "mutator"
    /\ UNCHANGED <<mid, rem, fld, old_chunks, big_threshold, no_gc_count, gcVars>>

\* No storage: collect, then try again.  In a no-GC region ow_objmem_gc()
\* returns at once and only the retry counter moves.
AllocRetry ==
    /\ pc = "alloc"
    /\ ~Room(req.kind)
    /\ ~(req.kind = "huge" /\ req.retrying = 1)
    /\ req' = [req EXCEPT !.retrying = IF req.kind = "huge" THEN 1 ELSE 0]
    /\ \/ StartGc(IF req.kind = "auto" THEN "fast" ELSE "full")
       \/ /\ no_gc_count > 0
          /\ UNCHANGED <<heap, roots, no_gc_count, pc, gcVars>>

\* A huge object that does not fit after a collection raises the threshold.
AllocGrow ==
    /\ pc = "alloc"
    /\ ~Room(req.kind)
    /\ req.kind = "huge" /\ req.retrying = 1
    /\ big_threshold' = Cardinality(In("big")) + 1
    /\ UNCHANGED <<space, mid, rem, cls, fld, old_chunks, roots, no_gc_count,
                   pc, req, gcVars>>

-----------------------------------------------------------------------------
\* Marking: _ow_objmem_visit_object_do_mark() and the four functions it calls.

\* Mutant: old objects are skipped by gc_full, too.
SkipsOld(o, op) ==
    \/ o = SmallInt
    \/ o \in mrk
    \/ op # "MARK_REC" /\ IsOld(o)

Skips(o, op) ==
    \/ o = SmallInt
    \/ o \in mrk
    \/ op \in {"MARK_REC_Y", "MARK_REC_O2Y"} /\ IsOld(o)

\* Mutant: the flag is set without a look at the space.
MakesMidAlways(o, op) == op \in {"MARK_REC_O2X", "MARK_REC_O2Y"}

\* Referred to by an old object: it is to become old.
MakesMid(o, op) == op \in {"MARK_REC_O2X", "MARK_REC_O2Y"} /\ ~IsOld(o)

FieldOp(o, op) ==
    IF op = "MARK_REC" /\ (IsOld(o) \/ o \in mid) THEN "MARK_REC_O2X"
    ELSE IF op = "MARK_REC_Y" /\ o \in mid THEN "MARK_REC_O2Y"
    ELSE op

\* Only _ow_objmem_mark_object_fields_rec() visits the class as well.
ChildVisits(o, op) ==
    IF op = "MARK_REC"
    THEN << [obj |-> cls[o], op |-> op] >> \o FieldVisits(o, op)
    ELSE FieldVisits(o, op)

VisitObject ==
    /\ pc \in MarkPhases
    /\ stack # <<>>
    /\ LET o == Head(stack).obj
           op == Head(stack).op
       IN IF Skips(o, op)
          THEN /\ stack' = Tail(stack)
               /\ UNCHANGED <<mrk, mid>>
          ELSE /\ mrk' = mrk \cup {o}
               /\ mid' = IF MakesMid(o, op) THEN mid \cup {o} ELSE mid
               /\ stack' = ChildVisits(o, FieldOp(o, op)) \o Tail(stack)
    /\ UNCHANGED <<space, rem, cls, fld, roots, old_chunks, big_threshold,
                   no_gc_count, force_full_gc, current_gc, pc, todo, req>>

\* Mutant: the scan does not advance.
ScanRememberedAgain(o) ==
    /\ pc \in {"mark_old", "mark_big"}
    /\ stack = <<>>
    /\ o \in todo
    /\ stack' = FieldVisits(o, "MARK_REC_O2Y")
    /\ UNCHANGED <<heap, roots, no_gc_count, mrk, force_full_gc, current_gc,
                   pc, todo, req>>

\* One object of a remembered set, in the order of the set's storage.
ScanRemembered(o) ==
    /\ pc \in {"mark_old", "mark_big"}
    /\ stack = <<>>
    /\ o \in todo
    /\ stack' = FieldVisits(o, "MARK_REC_O2Y")
    /\ todo' = todo \ {o}
    /\ UNCHANGED <<heap, roots, no_gc_count, mrk, force_full_gc, current_gc,
                   pc, req>>

\* Mutant: the big space's remembered objects are forgotten.
NextPhaseNoBig ==
    /\ pc \in MarkPhases
    /\ stack = <<>>
    /\ todo = {}
    /\ \/ /\ pc = "mark_roots" /\ current_gc = "fast"
          /\ pc' = "mark_old"
          /\ todo' = rem \cap In("old")
       \/ /\ pc = "mark_old" \/ (pc = "mark_roots" /\ current_gc = "full")
          /\ pc' = "sweep"
          /\ todo' = {}
    /\ UNCHANGED <<heap, roots, no_gc_count, mrk, force_full_gc, current_gc,
                   stack, req>>

\* Roots, then the old space's remembered sets, then the big space's.
\* Only gc_fast has the last two.
NextPhase ==
    /\ pc \in MarkPhases
    /\ stack = <<>>
    /\ todo = {}
    /\ \/ /\ pc = "mark_roots" /\ current_gc = "fast"
          /\ pc' = "mark_old"
          /\ todo' = rem \cap In("old")
       \/ /\ pc = "mark_old"
          /\ pc' = "mark_big"
          /\ todo' = rem \cap In("big")
       \/ /\ pc = "mark_big" \/ (pc = "mark_roots" /\ current_gc = "full")
          /\ pc' = "sweep"
          /\ todo' = {}
    /\ UNCHANGED <<heap, roots, no_gc_count, mrk, force_full_gc, current_gc,
                   stack, req>>

-----------------------------------------------------------------------------
\* The rest of a collection, from weak references to the last reference update.

\* Storage of the dead is gone, its contents are forgotten.
Reclaim(dead, promoted) ==
    /\ space' = [o \in Obj |-> IF o \in dead THEN "free"
                               ELSE IF o \in promoted THEN "old" ELSE space[o]]
    /\ cls' = [o \in Obj |-> IF o \in dead THEN Builtin ELSE cls[o]]
    /\ fld' = [o \in Obj |-> IF o \in dead THEN [i \in Field |-> SmallInt]
                             ELSE fld[o]]

\* Mutant: every collection returns to the allocator.
EndGcToAllocator ==
    /\ mrk' = {}
    /\ rem' = {}
    /\ current_gc' = "none"
    /\ pc' = "alloc"
    /\ UNCHANGED <<roots, no_gc_count, stack, todo, req, big_threshold>>

EndGc ==
    /\ mrk' = {}
    /\ rem' = {}
    /\ current_gc' = "none"
    /\ pc' = IF req = NoReq THEN "mutator" ELSE "alloc"
    /\ UNCHANGED <<roots, no_gc_count, stack, todo, req, big_threshold>>

Promotable == In("new") \cap mrk \cap mid
Smaller(m, n) == IF m < n THEN m ELSE n

\* Mutant: survivors the old space has no room for are dropped.
FastCopyDrops(promoted) ==
    /\ pc = "sweep" /\ current_gc = "fast"
    /\ promoted \subseteq Promotable
    /\ Cardinality(promoted) = Smaller(OldRoom, Cardinality(Promotable))
    /\ Reclaim((In("new") \ mrk) \cup (Promotable \ promoted), promoted)
    /\ mid' = (In("new") \cap mrk) \ Promotable
    /\ force_full_gc' = (force_full_gc \/ promoted # Promotable)
    /\ old_chunks' = old_chunks
    /\ EndGc

\* Mutant: a promotion that failed does not ask for a full collection.
FastCopyNoForce(promoted) ==
    /\ pc = "sweep" /\ current_gc = "fast"
    /\ promoted \subseteq Promotable
    /\ Cardinality(promoted) = Smaller(OldRoom, Cardinality(Promotable))
    /\ Reclaim(In("new") \ mrk, promoted)
    /\ mid' = (In("new") \cap mrk) \ promoted
    /\ force_full_gc' = force_full_gc
    /\ old_chunks' = old_chunks
    /\ EndGc

\* gc_fast, from step 2 on.  MID objects go to the tail chunk of the old
\* space until it is full, in the order of their addresses; what does not fit
\* stays in new space and the next collection will be a full one.
FastCopy(promoted) ==
    /\ pc = "sweep" /\ current_gc = "fast"
    /\ promoted \subseteq Promotable
    /\ Cardinality(promoted) = Smaller(OldRoom, Cardinality(Promotable))
    /\ Reclaim(In("new") \ mrk, promoted)
    /\ mid' = (In("new") \cap mrk) \ promoted
    /\ force_full_gc' = (force_full_gc \/ promoted # Promotable)
    /\ old_chunks' = old_chunks
    /\ EndGc

\* gc_full, from step 2 on.  Old objects are packed from the first chunk on,
\* MID objects behind them; chunks are added and removed as needed.
FullCompact ==
    /\ pc = "sweep" /\ current_gc = "full"
    /\ Reclaim(Obj \ mrk, Promotable)
    /\ mid' = (In("new") \cap mrk) \ Promotable
    /\ force_full_gc' = force_full_gc
    /\ old_chunks' =
         (Cardinality((In("old") \cap mrk) \cup Promotable) + OldCap - 1) \div OldCap
    /\ EndGc

Undefined ==
    /\ pc = "undefined"
    /\ UNCHANGED vars

-----------------------------------------------------------------------------
Mutator ==
    \/ \E o \in Obj, i \in Field, v \in Value : SetField(o, i, v)
    \/ \E s \in Slot, v \in Value : SetSlot(s, v)
    \/ PushNgc
    \/ PopNgc
    \/ \E type \in GcTypes : CallGc(type)
    \/ \E kind \in AllocKinds, c \in Obj, s \in Slot : BeginAlloc(kind, c, s)

Allocator ==
    \/ \E o \in Obj : AllocDone(o)
    \/ AllocRetry
    \/ AllocGrow

Collector ==
    \/ VisitObject
    \/ \E o \in Obj : ScanRemembered(o)
    \/ NextPhase
    \/ \E promoted \in SUBSET Obj : FastCopy(promoted)
    \/ FullCompact

Next == Mutator \/ Allocator \/ Collector \/ Undefined

Spec == Init /\ [][Next]_vars

\* One thread runs the allocation loop and the collector to their end.
FairSpec == Spec /\ WF_vars(Allocator) /\ WF_vars(Collector)

-----------------------------------------------------------------------------
\* Properties.

\* Every variable holds what the C types and enumerations allow.
TypeOK ==
    /\ space \in [Obj -> {"free", "new", "old", "big"}]
    /\ mid \subseteq Obj /\ mrk \subseteq Obj /\ rem \subseteq Obj
    /\ cls \in [Obj -> Obj]
    /\ fld \in [Obj -> [Field -> Value]]
    /\ roots \in [Slot -> Value]
    /\ old_chunks \in Nat
    /\ big_threshold \in Nat
    /\ no_gc_count \in Nat
    /\ force_full_gc \in BOOLEAN
    /\ current_gc \in {"none", "fast", "full"}
    /\ pc \in {"mutator", "alloc", "undefined"} \cup GcPhases
    /\ stack \in Seq(Visit)
    /\ todo \subseteq Obj
    /\ req \in Request \cup {NoReq}
    /\ pc = "alloc" => req # NoReq

\* The flags an object's meta holds are consistent with its space (objmeta.h:
\* MID only on young objects; the asserts of the remembered-set scans: only
\* old objects are remembered), and no MRK outlives a collection
\* (the *_post_gc_check functions): a stale mark would hide a whole subgraph
\* from the next collection.
FlagsConsistent ==
    /\ mid \subseteq In("new")
    /\ rem \subseteq In("old") \cup In("big")
    /\ pc \notin GcPhases => mrk = {} /\ stack = <<>> /\ todo = {}

\* When gc_full has marked, it has marked every object the program can reach
\* through fields, and nothing that is not reachable through fields and
\* class pointers: a full collection neither loses nor leaks.
FullMarkExact ==
    pc = "sweep" /\ current_gc = "full" =>
        Live \subseteq mrk /\ mrk \subseteq LiveWithClasses

\* Every old or big object with a field that refers to a young object is in
\* a remembered set.
RememberedComplete ==
    \A o \in Obj : IsOld(o) /\ (\E p \in Refs(o) : space[p] = "new") => o \in rem

\* When gc_fast has marked, every reachable young object is marked, provided
\* the remembered sets are complete: young objects reached only through old
\* ones, through any number of young ones behind them, are not missed.
FastMarkComplete ==
    pc = "sweep" /\ current_gc = "fast" /\ RememberedComplete =>
        Live \cap In("new") \subseteq mrk

\* No step of a collection takes the storage of an object the program can
\* still reach through fields (gc_fast: if the remembered sets are complete).
LiveKept ==
    [][current_gc = "full" \/ RememberedComplete =>
         \A o \in Live : space[o] # "free" => space'[o] # "free"]_vars

\* A collection that has started ends: marking terminates on every object
\* graph, cyclic ones included.
CollectionEnds == pc \in GcPhases ~> pc \notin GcPhases

\* The two ways an allocation has of collecting or retrying for ever: in a
\* no-GC region, where only the huge one goes on without a collection; and,
\* for the two kinds that wait for a full collection to make room and never
\* add any themselves, in a space that holds live objects alone.
Exhausted(kind) ==
    \/ kind = "surv" /\ In("old") \subseteq LiveWithClasses /\ In("new") \cap LiveWithClasses = {}
    \/ kind = "large" /\ In("big") \subseteq LiveWithClasses
Stuck ==
    /\ pc = "alloc" /\ ~Room(req.kind)
    /\ \/ no_gc_count > 0 /\ req.kind # "huge"
       \/ Exhausted(req.kind)

\* An allocation gets its storage in the end, however many collections that
\* takes and whatever they promote, but in these two cases.
AllocationReturns == pc = "alloc" ~> (pc \in {"mutator", "undefined"} \/ Stuck)

\* Only dead objects are reclaimed: what the program can reach is allocated.
LiveAllocated == \A o \in Live : space[o] # "free"
=============================================================================
