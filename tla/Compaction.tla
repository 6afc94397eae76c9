----------------------------- MODULE Compaction -----------------------------
(***************************************************************************)
(* The full collection of objects/objmem.c at the level of addresses:      *)
(* gc_full steps 3 to 5 on the chunks of the old space.  Survivors get     *)
(* their new storage from an iterator that slides over the chunks while    *)
(* the objects stay where they are (old_space_fake_alloc), references are  *)
(* updated, and only then are the objects moved, in ascending order.       *)
(*                                                                         *)
(* Every walk over a chunk finds the next object from the size of the      *)
(* current one, and the size is read through the object's class, which is  *)
(* itself an object being moved.  A cell of memory therefore remembers     *)
(* whose content it holds.                                                 *)
(*                                                                         *)
(* Which objects are alive is decided by ObjMem; here the class of a live  *)
(* object is alive, and flag MID is any subset of the live young objects.  *)
(***************************************************************************)
EXTENDS Integers, Sequences, FiniteSets

CONSTANTS
    Meta,       \* the class of classes: first object of the first chunk
    Classes,    \* class objects, Meta among them
    Insts,      \* other objects
    InstSize,   \* size of the instances of each class, in cells
    ChunkCap,   \* cells of a chunk behind its meta data
    MaxChunks,  \* bound on the number of chunks
    MaxYoung,   \* bound on the number of objects in new space
    Nil         \* no object, no address

Id == Classes \cup Insts

ASSUME CompactionAssumption ==
    /\ Meta \in Classes
    /\ Classes \cap Insts = {}
    /\ Nil \notin Id /\ Nil \notin [chunk : Nat, off : Nat]
    /\ MaxChunks \in Nat \ {0}
    /\ MaxYoung \in Nat
    /\ ChunkCap \in Nat
    /\ InstSize \in [Classes -> 1 .. ChunkCap - 1]

VARIABLES
    class,       \* the class of an object; Nil: no such object
    live,        \* the objects the marking phase marks
    mid,         \* live young objects with flag MID
    old,         \* objects of the old space in address order
    young,       \* objects of the new space in address order
    addr,        \* where an old object is
    free,        \* _free of each chunk: the number of chunks is Len(free)
    cell,        \* whose content a memory cell holds
    meta,        \* PTR of an old object: the chunk whose meta it points to
    pc,          \* phase of the collection
    walk, at,    \* the objects a walk visits, and the next one's place there
    kept, stay,  \* objects that have got new storage, in the old space and in
                 \* the new one, in the order in which they got it
    iter,        \* the storage iterator
    visited_end, \* iter_visited_end of each chunk
    fwd,         \* PTR while collecting: new storage of a survivor
    clsptr,      \* CLS: the address an object's class is looked up at
    this_chunk   \* where old_space_init_reallocated_obj_meta() searches from

vars == <<class, live, mid, old, young, addr, free, cell, meta, pc, walk, at, kept,
          stay, iter, visited_end, fwd, clsptr, this_chunk>>
gcVars == <<mid, walk, at, kept, stay, iter, visited_end, fwd, this_chunk>>

Chunk == 1 .. MaxChunks
Offset == 0 .. ChunkCap
Addr == [chunk : Chunk, off : Offset]
Size(o) == InstSize[class[o]]
Cell(a, i) == [chunk |-> a.chunk, off |-> a.off + i]
Units(o) == 0 .. Size(o) - 1
NoAddr == [o \in Id |-> Nil]
NoMark == [c \in Chunk |-> Nil]

RangeOf(s) == {s[i] : i \in 1 .. Len(s)}
IsBefore(a, b) == a.chunk < b.chunk \/ (a.chunk = b.chunk /\ a.off <= b.off)

Write(a, o) ==
    [x \in DOMAIN cell |->
        IF \E i \in Units(o) : x = Cell(a, i)
        THEN [id |-> o, unit |-> x.off - a.off] ELSE cell[x]]

-----------------------------------------------------------------------------
Init ==
    /\ class = [o \in Id |-> IF o = Meta THEN Meta ELSE Nil]
    /\ live = {Meta}
    /\ mid = {}
    /\ old = <<Meta>>
    /\ young = <<>>
    /\ addr = [NoAddr EXCEPT ![Meta] = [chunk |-> 1, off |-> 0]]
    /\ free = <<InstSize[Meta]>>
    /\ cell = [a \in Addr |-> IF a.chunk = 1 /\ a.off < InstSize[Meta]
                              THEN [id |-> Meta, unit |-> a.off] ELSE Nil]
    /\ meta = [o \in Id |-> IF o = Meta THEN 1 ELSE 0]
    /\ pc = "run"
    /\ walk = <<>> /\ at = 1
    /\ kept = <<>> /\ stay = <<>>
    /\ iter = [chunk |-> 1, off |-> 0]
    /\ visited_end = NoMark
    /\ fwd = NoAddr
    /\ clsptr = [NoAddr EXCEPT ![Meta] = [chunk |-> 1, off |-> 0]]
    /\ this_chunk = 1

-----------------------------------------------------------------------------
\* The mutator.

IsNewObject(o, k) ==
    /\ class[o] = Nil
    /\ k \in live \cap Classes
    /\ o \in Classes <=> k = Meta

\* old_space_alloc(), for SURV allocations and the promotions of gc_fast.
AllocOld(o, k) ==
    LET a == [chunk |-> Len(free), off |-> free[Len(free)]]
    IN /\ pc = "run"
       /\ IsNewObject(o, k)
       /\ a.off + InstSize[k] < ChunkCap
       /\ class' = [class EXCEPT ![o] = k]
       /\ live' = live \cup {o}
       /\ old' = Append(old, o)
       /\ addr' = [addr EXCEPT ![o] = a]
       /\ free' = [free EXCEPT ![Len(free)] = @ + InstSize[k]]
       /\ cell' = [x \in DOMAIN cell |->
                     IF x.chunk = a.chunk /\ x.off \in a.off .. a.off + InstSize[k] - 1
                     THEN [id |-> o, unit |-> x.off - a.off] ELSE cell[x]]
       /\ meta' = [meta EXCEPT ![o] = a.chunk]
       /\ clsptr' = [clsptr EXCEPT ![o] = addr[k]]
       /\ UNCHANGED <<young, pc, gcVars>>

\* new_space_alloc().  Class objects are never young.
AllocYoung(o, k) ==
    /\ pc = "run"
    /\ IsNewObject(o, k)
    /\ o \in Insts
    /\ Len(young) < MaxYoung
    /\ class' = [class EXCEPT ![o] = k]
    /\ live' = live \cup {o}
    /\ young' = Append(young, o)
    /\ clsptr' = [clsptr EXCEPT ![o] = addr[k]]
    /\ UNCHANGED <<old, addr, free, cell, meta, pc, gcVars>>

\* The program loses its last reference to an object.
Die(o) ==
    /\ pc = "run"
    /\ o \in live \ {Meta}
    /\ \A p \in live : class[p] # o
    /\ live' = live \ {o}
    /\ UNCHANGED <<class, old, young, addr, free, cell, meta, clsptr, pc, gcVars>>

-----------------------------------------------------------------------------
\* Step 3: new storage for the survivors.

\* Mutant: the iterator starts behind the last object.
BeginGcAtEnd(m) ==
    /\ pc = "run"
    /\ m \subseteq live \cap RangeOf(young)
    /\ mid' = m
    /\ walk' = old /\ at' = 1
    /\ kept' = <<>> /\ stay' = <<>>
    /\ iter' = [chunk |-> Len(free), off |-> free[Len(free)]]
    /\ pc' = "realloc_old"
    /\ UNCHANGED <<class, live, old, young, addr, free, cell, meta, visited_end,
                   fwd, clsptr, this_chunk>>

\* gc_full after marking.
BeginGc(m) ==
    /\ pc = "run"
    /\ m \subseteq live \cap RangeOf(young)
    /\ mid' = m
    /\ walk' = old /\ at' = 1
    /\ kept' = <<>> /\ stay' = <<>>
    /\ iter' = [chunk |-> 1, off |-> 0]
    /\ pc' = "realloc_old"
    /\ UNCHANGED <<class, live, old, young, addr, free, cell, meta, visited_end,
                   fwd, clsptr, this_chunk>>

\* Mutant: the iterator ignores the end of the chunk.
FakeAllocUnbounded(o) ==
    /\ kept' = Append(kept, o)
    /\ fwd' = [fwd EXCEPT ![o] = iter]
    /\ iter' = Cell(iter, Size(o))
    /\ UNCHANGED <<visited_end, free>>

\* old_space_iterator_forward(): stay in the chunk if the object fits there,
\* else note where the chunk ends and go to the next one.
Stays(o) == iter.off + Size(o) < ChunkCap
Forward(o) == IF Stays(o) THEN iter ELSE [chunk |-> iter.chunk + 1, off |-> 0]

\* old_space_fake_alloc(): a chunk is added if there is no next one.
FakeAlloc(o) ==
    /\ Forward(o).chunk <= MaxChunks
    /\ kept' = Append(kept, o)
    /\ fwd' = [fwd EXCEPT ![o] = Forward(o)]
    /\ iter' = Cell(Forward(o), Size(o))
    /\ visited_end' = IF Stays(o) THEN visited_end
                      ELSE [visited_end EXCEPT ![iter.chunk] = iter.off]
    /\ free' = IF Forward(o).chunk <= Len(free) THEN free ELSE Append(free, 0)

\* A dead object is finalized and gets no storage.
Realloc(o, moves) ==
    IF moves
    THEN FakeAlloc(o)
    ELSE UNCHANGED <<kept, fwd, iter, visited_end, free>>

Walking == at <= Len(walk)

\* old_space_realloc_survivors_and_forget_remembered_objects().
ReallocOld ==
    /\ pc = "realloc_old"
    /\ IF Walking
       THEN /\ Realloc(walk[at], walk[at] \in live)
            /\ at' = at + 1
            /\ UNCHANGED <<pc, walk>>
       ELSE /\ walk' = young /\ at' = 1
            /\ pc' = "realloc_young"
            /\ UNCHANGED <<kept, fwd, iter, visited_end, free>>
    /\ UNCHANGED <<class, live, mid, old, young, addr, cell, meta, stay, clsptr, this_chunk>>

\* Step 4: the class pointers of the marked objects are updated.
UpdateClasses ==
    clsptr' = [o \in Id |-> IF o \in live THEN fwd[class[o]] ELSE clsptr[o]]

\* new_space_realloc_survivors(), one object: survivors without MID go to the
\* free chunk of the new space.
ReallocYoungOne(o) ==
    /\ Realloc(o, o \in mid)
    /\ stay' = IF o \in live \ mid THEN Append(stay, o) ELSE stay

\* Mutant: the old objects are moved in descending order.
ReallocYoungReversed ==
    /\ pc = "realloc_young"
    /\ IF Walking
       THEN /\ ReallocYoungOne(walk[at])
            /\ at' = at + 1
            /\ UNCHANGED <<pc, walk, clsptr, this_chunk>>
       ELSE /\ walk' = [i \in 1 .. Len(old) |-> old[Len(old) + 1 - i]] /\ at' = 1
            /\ pc' = "move_old"
            /\ UpdateClasses
            /\ this_chunk' = 1
            /\ UNCHANGED <<kept, stay, fwd, iter, visited_end, free>>
    /\ UNCHANGED <<class, live, mid, old, young, addr, cell, meta>>

\* new_space_realloc_survivors(), then step 4.
ReallocYoung ==
    /\ pc = "realloc_young"
    /\ IF Walking
       THEN /\ ReallocYoungOne(walk[at])
            /\ at' = at + 1
            /\ UNCHANGED <<pc, walk, clsptr, this_chunk>>
       ELSE /\ walk' = old /\ at' = 1
            /\ pc' = "move_old"
            /\ UpdateClasses
            /\ this_chunk' = 1
            /\ UNCHANGED <<kept, stay, fwd, iter, visited_end, free>>
    /\ UNCHANGED <<class, live, mid, old, young, addr, cell, meta>>

-----------------------------------------------------------------------------
\* Step 5: the objects are moved.

\* The walk reads the size of an object through its class pointer.
ReadsSize(o) ==
    \A i \in Units(class[o]) : cell[Cell(clsptr[o], i)] = [id |-> class[o], unit |-> i]

\* Mutant: the search starts behind this_chunk.
InitMetaNoFastPath(o) ==
    IF fwd[o].chunk > this_chunk
    THEN /\ this_chunk' = fwd[o].chunk
         /\ meta' = [meta EXCEPT ![o] = fwd[o].chunk]
         /\ pc' = pc
    ELSE /\ pc' = "abort"
         /\ UNCHANGED <<this_chunk, meta>>

\* old_space_init_reallocated_obj_meta(): the chunk of the new storage is
\* this_chunk or one behind it, or else abort().
InitMeta(o) ==
    IF fwd[o].chunk >= this_chunk
    THEN /\ this_chunk' = fwd[o].chunk
         /\ meta' = [meta EXCEPT ![o] = fwd[o].chunk]
         /\ pc' = pc
    ELSE /\ pc' = "abort"
         /\ UNCHANGED <<this_chunk, meta>>

\* Mutant: a copy from the last cell to the first, which reads cells it has
\* overwritten when the storages overlap.
MoveCellsDescending(o) ==
    LET d == addr[o].off - fwd[o].off
    IN [x \in DOMAIN cell |->
          IF \E i \in Units(o) : x = Cell(fwd[o], i)
          THEN LET i == x.off - fwd[o].off
               IN IF fwd[o].chunk = addr[o].chunk /\ i + d \in Units(o)
                  THEN cell[Cell(addr[o], i + d)] ELSE cell[Cell(addr[o], i)]
          ELSE cell[x]]

\* memmove(): the cells get what the cells of the old storage hold now.
MoveCells(o) ==
    [x \in DOMAIN cell |->
        IF \E i \in Units(o) : x = Cell(fwd[o], i)
        THEN cell[Cell(addr[o], x.off - fwd[o].off)] ELSE cell[x]]

\* old_space_move_reallocated_objects(), one object.
MoveOld ==
    /\ pc = "move_old" /\ Walking
    /\ LET o == walk[at]
       IN \/ /\ ~ReadsSize(o)
             /\ pc' = "lost"
             /\ UNCHANGED <<at, cell, meta, this_chunk>>
          \/ /\ ReadsSize(o) /\ o \notin live
             /\ at' = at + 1
             /\ UNCHANGED <<pc, cell, meta, this_chunk>>
          \/ /\ ReadsSize(o) /\ o \in live /\ fwd[o] = addr[o]
             /\ at' = at + 1
             /\ meta' = [meta EXCEPT ![o] = addr[o].chunk]
             /\ UNCHANGED <<pc, cell, this_chunk>>
          \/ /\ ReadsSize(o) /\ o \in live /\ fwd[o] # addr[o]
             /\ at' = at + 1
             /\ InitMeta(o)
             /\ cell' = MoveCells(o)
    /\ UNCHANGED <<class, live, mid, old, young, addr, free, walk, kept, stay, iter,
                   visited_end, fwd, clsptr>>

MoveOldDone ==
    /\ pc = "move_old" /\ ~Walking
    /\ walk' = young /\ at' = 1
    /\ pc' = "move_young"
    /\ UNCHANGED <<class, live, mid, old, young, addr, free, cell, meta, kept, stay,
                   iter, visited_end, fwd, clsptr, this_chunk>>

\* new_space_move_marked_objects(), one object.
MoveYoung ==
    /\ pc = "move_young" /\ Walking
    /\ LET o == walk[at]
       IN \/ /\ ~ReadsSize(o)
             /\ pc' = "lost"
             /\ UNCHANGED <<at, cell, meta, this_chunk>>
          \/ /\ ReadsSize(o) /\ o \notin mid
             /\ at' = at + 1
             /\ UNCHANGED <<pc, cell, meta, this_chunk>>
          \/ /\ ReadsSize(o) /\ o \in mid
             /\ at' = at + 1
             /\ InitMeta(o)
             /\ cell' = Write(fwd[o], o)
    /\ UNCHANGED <<class, live, mid, old, young, addr, free, walk, kept, stay, iter,
                   visited_end, fwd, clsptr>>

\* What is left of the heap, and of what the collection noted.
Forget ==
    /\ old' = kept /\ young' = stay
    /\ addr' = [o \in Id |-> IF o \in RangeOf(kept) THEN fwd[o] ELSE Nil]
    /\ class' = [o \in Id |-> IF o \in live THEN class[o] ELSE Nil]
    /\ clsptr' = [o \in Id |-> IF o \in live THEN clsptr[o] ELSE Nil]
    /\ meta' = [o \in Id |-> IF o \in RangeOf(kept) THEN meta[o] ELSE 0]
    /\ walk' = <<>> /\ at' = 1 /\ kept' = <<>> /\ stay' = <<>>
    /\ visited_end' = NoMark
    /\ fwd' = NoAddr
    /\ mid' = {}
    /\ iter' = [chunk |-> 1, off |-> 0]
    /\ this_chunk' = 1
    /\ pc' = "run"

\* Mutant: only the last chunk gets a new end.
TruncateLastOnly ==
    /\ pc = "move_young" /\ ~Walking
    /\ free' = [c \in 1 .. iter.chunk |-> IF c = iter.chunk THEN iter.off ELSE free[c]]
    /\ Forget
    /\ UNCHANGED <<live, cell>>

\* new_space_swap_chunks() and old_space_truncate(): chunks behind the
\* iterator are deleted, the others end where the iterator left them.
Truncate ==
    /\ pc = "move_young" /\ ~Walking
    /\ free' = [c \in 1 .. iter.chunk |->
                  IF c = iter.chunk THEN iter.off ELSE visited_end[c]]
    /\ cell' = [x \in DOMAIN cell |->
                  IF x.chunk \in DOMAIN free' /\ x.off < free'[x.chunk]
                  THEN cell[x] ELSE Nil]
    /\ Forget
    /\ UNCHANGED live

\* What the collector does once a walk has lost the objects is undefined.
Stop ==
    /\ pc \in {"lost", "abort"}
    /\ UNCHANGED vars

-----------------------------------------------------------------------------
Next ==
    \/ \E o \in Id, k \in Classes : AllocOld(o, k) \/ AllocYoung(o, k)
    \/ \E o \in Id : Die(o)
    \/ \E m \in SUBSET Insts : BeginGc(m)
    \/ ReallocOld
    \/ ReallocYoung
    \/ MoveOld
    \/ MoveOldDone
    \/ MoveYoung
    \/ Truncate
    \/ Stop

Spec == Init /\ [][Next]_vars

-----------------------------------------------------------------------------
\* Properties.

\* Every variable holds what the C types allow.
TypeOK ==
    /\ class \in [Id -> Classes \cup {Nil}]
    /\ live \subseteq Id /\ mid \subseteq Insts
    /\ RangeOf(old) \subseteq Id /\ RangeOf(young) \subseteq Insts
    /\ addr \in [Id -> Addr \cup {Nil}]
    /\ Len(free) \in Chunk /\ RangeOf(free) \subseteq Offset
    /\ meta \in [Id -> 0 .. MaxChunks]
    /\ pc \in {"run", "realloc_old", "realloc_young", "move_old", "move_young",
               "lost", "abort"}
    /\ RangeOf(walk) \subseteq Id /\ at \in 1 .. Len(walk) + 1
    /\ RangeOf(kept) \subseteq Id /\ RangeOf(stay) \subseteq Insts
    /\ iter \in Addr
    /\ visited_end \in [Chunk -> Offset \cup {Nil}]
    /\ fwd \in [Id -> Addr \cup {Nil}]
    /\ clsptr \in [Id -> Addr \cup {Nil}]
    /\ this_chunk \in Chunk

\* New storage of an old object never lies behind its present storage, and
\* the iterator never overtakes the walk: what
\* old_space_realloc_survivors_and_forget_remembered_objects() relies on "to
\* avoid overlapping".
NeverMovesUp ==
    /\ \A o \in RangeOf(old) : fwd[o] # Nil => IsBefore(fwd[o], addr[o])
    /\ pc = "realloc_old" /\ Walking => IsBefore(iter, addr[walk[at]])

\* Moving the objects one after the other, onto storage that other objects
\* occupied, loses no object and no content: after a collection every live
\* object is in one of the spaces, every live old object is whole at its new
\* address, and its class is found at its class pointer.
ContentsIntact ==
    pc = "run" =>
        /\ live \subseteq RangeOf(old) \cup RangeOf(young)
        /\ \A o \in RangeOf(old) \cap live :
              /\ \A i \in Units(o) : cell[Cell(addr[o], i)] = [id |-> o, unit |-> i]
              /\ clsptr[o] = addr[class[o]]

\* The size of a live object can be read when a walk of the moving phase
\* comes to it: its class is in its final place by then.
LiveWalksOn == pc = "lost" => walk[at] \notin live

\* The search for the chunk of an object's new storage never has to go back:
\* abort() in _old_space_init_reallocated_obj_meta_slow() is unreachable.
NeverAborts == pc # "abort"

\* old_space_post_gc_check() and the asserts of old_space_truncate(): outside
\* a collection the PTR of every old object designates its own chunk, no
\* chunk is empty, and each _free is the end of the chunk's last object, so
\* that the next allocation overlaps nothing.
ChunksConsistent ==
    pc = "run" =>
        /\ \A o \in RangeOf(old) : meta[o] = addr[o].chunk
        /\ \A c \in 1 .. Len(free) :
              \E o \in RangeOf(old) :
                 /\ addr[o].chunk = c
                 /\ addr[o].off + Size(o) = free[c]
                 /\ \A p \in RangeOf(old) : addr[p].chunk = c => IsBefore(addr[p], addr[o])
=============================================================================
