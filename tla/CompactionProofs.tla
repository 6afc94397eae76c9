-------------------------- MODULE CompactionProofs --------------------------
(***************************************************************************)
(* Proofs about Compaction: moving the objects of the old space onto the   *)
(* storage of objects moved before loses nothing, for any number and any   *)
(* sizes of objects and any marking.                                       *)
(***************************************************************************)
EXTENDS Compaction, SequenceTheorems, TLAPS

-----------------------------------------------------------------------------
\* The inductive invariant.

\* n cells at a lie in one chunk; they lie before b; they are the content of o.
Fits(a, n) == a \in Addr /\ a.off + n < ChunkCap
Ahead(a, n, b) == a.chunk < b.chunk \/ (a.chunk = b.chunk /\ a.off + n <= b.off)
Whole(a, o) == \A i \in Units(o) : cell[Cell(a, i)] = [id |-> o, unit |-> i]

Phase == {"run", "realloc_old", "realloc_young", "move_old", "move_young", "lost"}

Types ==
    /\ class \in [Id -> Classes \cup {Nil}]
    /\ live \in SUBSET Id /\ mid \in SUBSET Insts
    /\ old \in Seq(Id) /\ young \in Seq(Insts)
    /\ addr \in [Id -> Addr \cup {Nil}]
    /\ free \in Seq(Offset) /\ Len(free) \in Chunk
    /\ DOMAIN cell = Addr
    /\ meta \in [Id -> 0 .. MaxChunks]
    /\ pc \in Phase
    /\ walk \in Seq(Id) /\ at \in 1 .. Len(walk) + 1
    /\ kept \in Seq(Id) /\ stay \in Seq(Insts)
    /\ iter \in Addr
    /\ visited_end \in [Chunk -> Offset \cup {Nil}]
    /\ fwd \in [Id -> Addr \cup {Nil}]
    /\ clsptr \in [Id -> Addr \cup {Nil}]
    /\ this_chunk \in Chunk

\* The objects: a class is older than its instances, and alive while they are.
Objects ==
    /\ class[Meta] = Meta /\ Meta \in live /\ Meta \in RangeOf(old)
    /\ addr[Meta] = [chunk |-> 1, off |-> 0]
    /\ live \subseteq RangeOf(old) \cup RangeOf(young)
    /\ \A o \in RangeOf(old) \cup RangeOf(young) \cup live : class[o] \in Classes
    /\ \A o \in live : class[o] \in live
    /\ \A o \in Id : class[o] = o => o = Meta
    /\ \A j \in 1 .. Len(old) : old[j] \in live => \E i \in 1 .. j : old[i] = class[old[j]]
    /\ \A i, j \in 1 .. Len(young) : i # j => young[i] # young[j]
    /\ RangeOf(old) \cap RangeOf(young) = {}

\* The old objects lie one after the other.
Layout ==
    /\ \A j \in 1 .. Len(old) : Fits(addr[old[j]], Size(old[j]))
    /\ \A i, j \in 1 .. Len(old) : i < j => Ahead(addr[old[i]], Size(old[i]), addr[old[j]])

\* Outside a collection.
Settled ==
    pc = "run" =>
        /\ fwd = NoAddr
        /\ \A o \in RangeOf(old) :
              Ahead(addr[o], Size(o), [chunk |-> Len(free), off |-> free[Len(free)]])
        /\ \A o \in RangeOf(old) : meta[o] = addr[o].chunk
        /\ \A c \in 1 .. Len(free) :
              \E o \in RangeOf(old) :
                 /\ addr[o].chunk = c
                 /\ addr[o].off + Size(o) = free[c]
                 /\ \A p \in RangeOf(old) : addr[p].chunk = c => IsBefore(addr[p], addr[o])
        /\ \A o \in RangeOf(old) \cap live : clsptr[o] = addr[class[o]]

\* The walks of a collection.
Walks ==
    /\ pc # "run" => mid \subseteq live \cap RangeOf(young)
    /\ pc \in {"realloc_old", "move_old"} => walk = old
    /\ pc \in {"realloc_young", "move_young"} => walk = young

\* The new storages lie one after the other up to the iterator, from the
\* beginning to the end of every chunk the iterator has left.
Storage ==
    pc # "run" =>
        /\ \A o \in Id : fwd[o] # Nil <=> o \in RangeOf(kept)
        /\ \A o \in RangeOf(kept) : o \in live /\ Fits(fwd[o], Size(o))
        /\ \A i, j \in 1 .. Len(kept) : i < j => Ahead(fwd[kept[i]], Size(kept[i]), fwd[kept[j]])
        /\ \A o \in RangeOf(kept) :
              /\ Ahead(fwd[o], Size(o), iter)
              /\ fwd[o].chunk < iter.chunk => fwd[o].off + Size(o) <= visited_end[fwd[o].chunk]
        /\ iter.chunk <= Len(free)
        /\ \A c \in 1 .. iter.chunk - 1 :
              /\ visited_end[c] \in Offset
              /\ \E o \in RangeOf(kept) :
                    fwd[o].chunk = c /\ fwd[o].off + Size(o) = visited_end[c]
        /\ \/ kept = <<>> /\ iter = [chunk |-> 1, off |-> 0]
           \/ \E o \in RangeOf(kept) :
                 fwd[o].chunk = iter.chunk /\ fwd[o].off + Size(o) = iter.off
        /\ \A j \in 1 .. Len(kept) : \E i \in 1 .. j : kept[i] = class[kept[j]]

\* The survivors a walk has passed, and no others, have new storage.
Survivors ==
    /\ pc = "realloc_old" =>
          /\ \A j \in 1 .. Len(old) : fwd[old[j]] # Nil <=> old[j] \in live /\ j < at
          /\ \A j \in 1 .. Len(young) : fwd[young[j]] = Nil
          /\ stay = <<>>
    /\ pc \notin {"run", "realloc_old"} =>
          \A j \in 1 .. Len(old) : fwd[old[j]] # Nil <=> old[j] \in live
    /\ pc = "realloc_young" =>
          /\ \A j \in 1 .. Len(young) : fwd[young[j]] # Nil <=> young[j] \in mid /\ j < at
          /\ \A i \in 1 .. Len(stay) : \E j \in 1 .. at - 1 : stay[i] = young[j]
          /\ \A j \in 1 .. at - 1 : young[j] \in live \ mid => young[j] \in RangeOf(stay)
    /\ pc \in {"move_old", "move_young", "lost"} =>
          /\ \A j \in 1 .. Len(young) : fwd[young[j]] # Nil <=> young[j] \in mid
          /\ \A j \in 1 .. Len(young) : young[j] \in live \ mid => young[j] \in RangeOf(stay)
    /\ pc # "run" =>
          /\ \A i \in 1 .. Len(stay) : stay[i] \in live \ mid /\ stay[i] \in RangeOf(young)
          /\ \A i, j \in 1 .. Len(stay) : i # j => stay[i] # stay[j]

\* New storage is given in the order of the walks.
InOrder ==
    pc # "run" =>
        /\ \A i, j \in 1 .. Len(old) :
              i < j /\ fwd[old[i]] # Nil /\ fwd[old[j]] # Nil
              => Ahead(fwd[old[i]], Size(old[i]), fwd[old[j]])
        /\ \A i, j \in 1 .. Len(young) :
              i < j /\ fwd[young[i]] # Nil /\ fwd[young[j]] # Nil
              => Ahead(fwd[young[i]], Size(young[i]), fwd[young[j]])
        /\ \A i \in 1 .. Len(old), j \in 1 .. Len(young) :
              fwd[old[i]] # Nil /\ fwd[young[j]] # Nil
              => Ahead(fwd[old[i]], Size(old[i]), fwd[young[j]])

\* Where the content of the survivors is.
Contents ==
    /\ pc \in {"run", "realloc_old", "realloc_young"} =>
          \A o \in RangeOf(old) \cap live : Whole(addr[o], o)
    /\ pc = "move_old" =>
          \A j \in 1 .. Len(old) : old[j] \in live =>
             Whole(IF j < at THEN fwd[old[j]] ELSE addr[old[j]], old[j])
    /\ pc = "move_young" =>
          /\ \A o \in RangeOf(old) \cap live : Whole(fwd[o], o)
          /\ \A j \in 1 .. at - 1 : young[j] \in mid => Whole(fwd[young[j]], young[j])

\* What the moving phase has done, and what it finds next.
Moving ==
    /\ pc \in {"move_old", "move_young"} =>
          /\ \A o \in live : clsptr[o] = fwd[class[o]]
          /\ \A o \in mid : pc = "move_old" => fwd[o].chunk >= this_chunk
    /\ pc = "move_old" =>
          /\ \A j \in 1 .. at - 1 : old[j] \in live => meta[old[j]] = fwd[old[j]].chunk
          /\ \A j \in at .. Len(old) : old[j] \in live => fwd[old[j]].chunk >= this_chunk
    /\ pc = "move_young" =>
          /\ \A o \in RangeOf(old) \cap live : meta[o] = fwd[o].chunk
          /\ \A j \in 1 .. at - 1 : young[j] \in mid => meta[young[j]] = fwd[young[j]].chunk
          /\ \A j \in at .. Len(young) : young[j] \in mid => fwd[young[j]].chunk >= this_chunk

CompactionInv ==
    /\ Types /\ Objects /\ Layout /\ Settled /\ Walks /\ Storage /\ Survivors
    /\ InOrder /\ Contents /\ Moving /\ NeverMovesUp /\ LiveWalksOn

-----------------------------------------------------------------------------
\* Addresses and sizes.

LEMMA ConstantsAre ==
  /\ ChunkCap \in Nat /\ MaxChunks \in Nat /\ 1 \in Chunk /\ 0 \in Offset
  /\ Chunk \subseteq Nat /\ Offset \subseteq Nat /\ Nil \notin Id
  /\ \A k \in Classes : InstSize[k] \in Nat /\ 1 <= InstSize[k] /\ InstSize[k] < ChunkCap
<1>1. \A k \in Classes : InstSize[k] \in 1 .. ChunkCap - 1
  BY CompactionAssumption
<1>2. ChunkCap \in Nat /\ ChunkCap # 0
  <2>1. InstSize[Meta] \in 1 .. ChunkCap - 1 /\ ChunkCap \in Nat
    BY <1>1, CompactionAssumption
  <2>. QED BY <2>1
<1>. QED BY <1>1, <1>2, CompactionAssumption DEF Chunk, Offset

LEMMA AddrIs ==
  /\ \A a \in Addr : a.chunk \in Chunk /\ a.off \in Offset /\ a.chunk \in Nat /\ a.off \in Nat
  /\ \A c \in Chunk, f \in Offset :
        /\ [chunk |-> c, off |-> f] \in Addr
        /\ [chunk |-> c, off |-> f].chunk = c /\ [chunk |-> c, off |-> f].off = f
  /\ \A a, b \in Addr : a.chunk = b.chunk /\ a.off = b.off => a = b
  /\ Nil \notin Addr
<1>1. Addr \subseteq [chunk : Nat, off : Nat]
  BY ConstantsAre DEF Addr
<1>2. Nil \notin Addr
  BY <1>1, CompactionAssumption
<1>3. \A a \in Addr : a.chunk \in Chunk /\ a.off \in Offset
  BY DEF Addr
<1>4. \A a \in Addr : a = [chunk |-> a.chunk, off |-> a.off]
  BY DEF Addr
<1>5. \A c \in Chunk, f \in Offset : [chunk |-> c, off |-> f] \in Addr
  BY DEF Addr
<1>6. \A a, b \in Addr : a.chunk = b.chunk /\ a.off = b.off => a = b
  BY <1>4, Zenon
<1>. QED BY <1>2, <1>3, <1>5, <1>6, ConstantsAre

LEMMA SizeIs ==
  ASSUME NEW o \in Id, class[o] \in Classes
  PROVE  Size(o) \in Nat /\ 1 <= Size(o) /\ Size(o) < ChunkCap /\ Size(o) = InstSize[class[o]]
BY ConstantsAre DEF Size

\* The cells of a storage.
LEMMA CellIs ==
  ASSUME NEW a, NEW n \in Nat, Fits(a, n), NEW i \in 0 .. n - 1
  PROVE  /\ Cell(a, i) \in Addr
         /\ Cell(a, i).chunk = a.chunk /\ Cell(a, i).off = a.off + i
         /\ Cell(a, i).off - a.off = i
<1>1. a \in Addr /\ a.off + n < ChunkCap
  BY DEF Fits
<1>2. a.off \in Nat /\ a.chunk \in Chunk
  BY <1>1, AddrIs
<1>3. a.off + i \in Offset
  BY <1>1, <1>2, ConstantsAre DEF Offset
<1>. QED BY <1>2, <1>3, AddrIs DEF Cell

\* Storages one after the other have no cell in common.
LEMMA CellsApart ==
  ASSUME NEW a, NEW n \in Nat, Fits(a, n), NEW i \in 0 .. n - 1,
         NEW b, NEW m \in Nat, Fits(b, m), NEW j \in 0 .. m - 1,
         Ahead(a, n, b)
  PROVE  Cell(a, i) # Cell(b, j)
<1>1. a.off \in Nat /\ b.off \in Nat /\ a.chunk \in Nat /\ b.chunk \in Nat
  BY AddrIs DEF Fits
<1>2. Cell(a, i).chunk = a.chunk /\ Cell(a, i).off = a.off + i
  BY CellIs
<1>3. Cell(b, j).chunk = b.chunk /\ Cell(b, j).off = b.off + j
  BY CellIs
<1>. QED BY <1>1, <1>2, <1>3 DEF Ahead

\* What does not lie further on than b ends where b ended, or before.
LEMMA BeforeAhead ==
  ASSUME NEW a \in Addr, NEW b \in Addr, NEW c \in Addr, NEW n \in Nat,
         IsBefore(a, b), Ahead(b, n, c)
  PROVE  Ahead(a, n, c)
<1>1. /\ a.chunk \in Nat /\ a.off \in Nat /\ b.chunk \in Nat /\ b.off \in Nat
      /\ c.chunk \in Nat /\ c.off \in Nat
  BY AddrIs
<1>. QED BY <1>1 DEF IsBefore, Ahead

LEMMA AheadTransitive ==
  ASSUME NEW a \in Addr, NEW n \in Nat, NEW b \in Addr, NEW m \in Nat, NEW c \in Addr,
         Ahead(a, n, b), Ahead(b, m, c)
  PROVE  Ahead(a, n, c)
BY AddrIs DEF Ahead

LEMMA AheadIrreflexive ==
  ASSUME NEW a \in Addr, NEW n \in Nat, 1 <= n
  PROVE  ~ Ahead(a, n, a)
BY AddrIs DEF Ahead

-----------------------------------------------------------------------------
\* What the parts of the invariant say of one object.

LEMMA InRange ==
  ASSUME NEW S, NEW s \in Seq(S)
  PROVE  /\ \A o \in RangeOf(s) : o \in S /\ \E j \in 1 .. Len(s) : s[j] = o
         /\ \A j \in 1 .. Len(s) : s[j] \in RangeOf(s)
BY DEF RangeOf

LEMMA AppendIs ==
  ASSUME NEW S, NEW s \in Seq(S), NEW x \in S
  PROVE  /\ Append(s, x) \in Seq(S)
         /\ Len(Append(s, x)) = Len(s) + 1 /\ Len(s) \in Nat
         /\ \A j \in 1 .. Len(s) : Append(s, x)[j] = s[j]
         /\ Append(s, x)[Len(s) + 1] = x
         /\ RangeOf(Append(s, x)) = RangeOf(s) \cup {x}
<1>1. /\ Append(s, x) \in Seq(S)
      /\ Len(Append(s, x)) = Len(s) + 1 /\ Len(s) \in Nat
      /\ \A j \in 1 .. Len(s) : Append(s, x)[j] = s[j]
      /\ Append(s, x)[Len(s) + 1] = x
  OBVIOUS
<1> DEFINE t == Append(s, x)
<1>2. t = Append(s, x)
  OBVIOUS
<1> HIDE DEF t
<1>3. \A j \in 1 .. Len(t) : t[j] = IF j = Len(s) + 1 THEN x ELSE s[j]
  BY <1>1, <1>2
<1>4. RangeOf(t) \subseteq RangeOf(s) \cup {x}
  BY <1>1, <1>2, <1>3 DEF RangeOf
<1>5. RangeOf(s) \cup {x} \subseteq RangeOf(t)
  <2>1. ASSUME NEW j \in 1 .. Len(s) PROVE s[j] \in RangeOf(t)
    <3>1. j \in 1 .. Len(t) /\ t[j] = s[j]
      BY <1>1, <1>2
    <3>. QED BY <3>1 DEF RangeOf
  <2>2. x \in RangeOf(t)
    <3>1. Len(s) + 1 \in 1 .. Len(t) /\ t[Len(s) + 1] = x
      BY <1>1, <1>2
    <3>. QED BY <3>1 DEF RangeOf
  <2>. QED BY <2>1, <2>2 DEF RangeOf
<1>. QED BY <1>1, <1>2, <1>4, <1>5

\* Old objects have an address and a size, and are not stored twice.
LEMMA OldIs ==
  ASSUME Types, Objects, Layout
  PROVE  /\ \A o \in RangeOf(old) :
               /\ o \in Id /\ class[o] \in Classes /\ Size(o) \in Nat /\ 1 <= Size(o)
               /\ addr[o] \in Addr /\ Fits(addr[o], Size(o))
         /\ \A i, j \in 1 .. Len(old) : old[i] = old[j] => i = j
<1>1. ASSUME NEW o \in RangeOf(old)
      PROVE  /\ o \in Id /\ class[o] \in Classes /\ Size(o) \in Nat /\ 1 <= Size(o)
             /\ addr[o] \in Addr /\ Fits(addr[o], Size(o))
  <2>1. PICK j \in 1 .. Len(old) : old[j] = o
    BY DEF RangeOf
  <2>2. o \in Id /\ class[o] \in Classes
    BY <2>1, InRange DEF Types, Objects
  <2>3. Fits(addr[o], Size(o))
    BY <2>1 DEF Layout
  <2>. QED BY <2>2, <2>3, SizeIs DEF Fits
<1>2. ASSUME NEW i \in 1 .. Len(old), NEW j \in 1 .. Len(old), old[i] = old[j]
      PROVE  i = j
  <2>1. old[i] \in RangeOf(old)
    BY InRange DEF Types
  <2>2. ~ Ahead(addr[old[i]], Size(old[i]), addr[old[j]])
    BY <1>1, <1>2, <2>1, AheadIrreflexive
  <2>3. ~ Ahead(addr[old[j]], Size(old[j]), addr[old[i]])
    BY <1>1, <1>2, <2>1, AheadIrreflexive
  <2>4. i \in Nat /\ j \in Nat
    BY DEF Types
  <2>. QED BY <2>2, <2>3, <2>4 DEF Layout
<1>. QED BY <1>1, <1>2

\* Live classes are old.
LEMMA ClassesOld ==
  ASSUME Types, Objects, NEW k \in live, k \in Classes
  PROVE  k \in RangeOf(old)
<1>1. k \notin RangeOf(young)
  BY InRange, CompactionAssumption DEF Types
<1>. QED BY <1>1 DEF Objects

\* The class of a live object is an old live object, and only Meta is its own class.
LEMMA ClassIs ==
  ASSUME Types, Objects, NEW o \in live
  PROVE  /\ o \in Id /\ class[o] \in Classes /\ class[o] \in live /\ class[o] \in RangeOf(old)
         /\ class[o] \in Id /\ Size(o) \in Nat /\ 1 <= Size(o) /\ Size(o) < ChunkCap
<1>1. o \in Id /\ class[o] \in Classes /\ class[o] \in live /\ class[o] \in RangeOf(old)
  BY ClassesOld DEF Types, Objects
<1>. QED BY <1>1, SizeIs DEF Id

\* Survivors with new storage.
LEMMA KeptIs ==
  ASSUME Types, Objects, Storage, pc # "run"
  PROVE  /\ \A o \in RangeOf(kept) :
               /\ o \in live /\ o \in Id /\ class[o] \in Classes /\ Size(o) \in Nat /\ 1 <= Size(o)
               /\ fwd[o] \in Addr /\ Fits(fwd[o], Size(o)) /\ fwd[o] # Nil
         /\ \A o \in Id : fwd[o] # Nil => o \in RangeOf(kept)
         /\ \A j \in 1 .. Len(kept) : kept[j] \in RangeOf(kept)
         /\ \A i, j \in 1 .. Len(kept) : kept[i] = kept[j] => i = j
<1>1. ASSUME NEW o \in RangeOf(kept)
      PROVE  /\ o \in live /\ o \in Id /\ class[o] \in Classes /\ Size(o) \in Nat /\ 1 <= Size(o)
             /\ fwd[o] \in Addr /\ Fits(fwd[o], Size(o)) /\ fwd[o] # Nil
  <2>1. o \in live /\ Fits(fwd[o], Size(o))
    BY DEF Storage
  <2>. QED BY <2>1, ClassIs, AddrIs DEF Fits
<1>2. \A o \in Id : fwd[o] # Nil => o \in RangeOf(kept)
  BY DEF Storage
<1>3. \A j \in 1 .. Len(kept) : kept[j] \in RangeOf(kept)
  BY InRange DEF Types
<1>4. ASSUME NEW i \in 1 .. Len(kept), NEW j \in 1 .. Len(kept), kept[i] = kept[j]
      PROVE  i = j
  <2>1. ~ Ahead(fwd[kept[i]], Size(kept[i]), fwd[kept[j]])
    BY <1>1, <1>3, <1>4, AheadIrreflexive
  <2>2. ~ Ahead(fwd[kept[j]], Size(kept[j]), fwd[kept[i]])
    BY <1>1, <1>3, <1>4, AheadIrreflexive
  <2>3. i \in Nat /\ j \in Nat
    BY DEF Types
  <2>. QED BY <2>1, <2>2, <2>3 DEF Storage
<1>. QED BY <1>1, <1>2, <1>3, <1>4

-----------------------------------------------------------------------------
\* The initial state.

LEMMA InitInv == Init => CompactionInv
<1> SUFFICES ASSUME Init PROVE CompactionInv
  OBVIOUS
<1> DEFINE m == [chunk |-> 1, off |-> 0]
<1>1. m \in Addr /\ m.chunk = 1 /\ m.off = 0 /\ m # Nil
  BY ConstantsAre, AddrIs
<1>2. Meta \in Id /\ Meta \in Classes /\ Meta # Nil /\ Meta \notin Insts
  BY CompactionAssumption DEF Id
<1>3. Len(old) = 1 /\ old[1] = Meta /\ RangeOf(old) = {Meta} /\ old \in Seq(Id)
  BY <1>2 DEF Init, RangeOf
<1>4. Len(young) = 0 /\ RangeOf(young) = {} /\ young \in Seq(Insts) /\ young \in Seq(Id)
  BY DEF Init, RangeOf
<1>5. class[Meta] = Meta /\ addr[Meta] = m /\ meta[Meta] = 1 /\ clsptr[Meta] = m
  BY <1>2 DEF Init, NoAddr
<1>6. Size(Meta) = InstSize[Meta] /\ Size(Meta) \in Nat /\ 1 <= Size(Meta) /\ Size(Meta) < ChunkCap
  BY <1>2, <1>5, SizeIs
<1>7. free \in Seq(Offset) /\ Len(free) = 1 /\ free[1] = Size(Meta)
  <2>1. Size(Meta) \in Offset
    BY <1>6, ConstantsAre DEF Offset
  <2>. QED BY <2>1, <1>6 DEF Init
<1>8. Types
  <2>1. class \in [Id -> Classes \cup {Nil}] /\ live \in SUBSET Id /\ mid \in SUBSET Insts
    BY <1>2 DEF Init
  <2>2. addr \in [Id -> Addr \cup {Nil}] /\ clsptr \in [Id -> Addr \cup {Nil}]
        /\ fwd \in [Id -> Addr \cup {Nil}]
    BY <1>1, <1>2 DEF Init, NoAddr
  <2>3. meta \in [Id -> 0 .. MaxChunks] /\ this_chunk \in Chunk /\ iter \in Addr
    BY <1>1, <1>2, ConstantsAre DEF Init, Chunk
  <2>4. visited_end \in [Chunk -> Offset \cup {Nil}] /\ DOMAIN cell = Addr
    BY DEF Init, NoMark
  <2>5. /\ walk = <<>> /\ walk \in Seq(Id) /\ Len(walk) = 0 /\ at = 1
        /\ kept \in Seq(Id) /\ stay \in Seq(Insts) /\ pc \in Phase
    BY DEF Init, Phase
  <2>6. at \in 1 .. Len(walk) + 1
    BY <2>5
  <2>. QED BY <1>3, <1>4, <1>7, <2>1, <2>2, <2>3, <2>4, <2>5, <2>6, ConstantsAre DEF Types
<1>9. Objects
  <2>1. live = {Meta} /\ \A o \in Id : class[o] = o => o = Meta
    BY <1>2, ConstantsAre DEF Init
  <2>. QED BY <1>2, <1>3, <1>4, <1>5, <2>1 DEF Objects
<1>10. Fits(m, Size(Meta))
  BY <1>1, <1>6 DEF Fits
<1>11. Layout
  BY <1>3, <1>5, <1>10 DEF Layout
<1>12. Settled
  <2>1. Ahead(addr[Meta], Size(Meta), [chunk |-> Len(free), off |-> free[Len(free)]])
    BY <1>1, <1>5, <1>6, <1>7 DEF Ahead
  <2>2. IsBefore(addr[Meta], addr[Meta])
    BY <1>1, <1>5 DEF IsBefore
  <2>3. fwd = NoAddr
    BY DEF Init
  <2>4. meta[Meta] = addr[Meta].chunk /\ clsptr[Meta] = addr[class[Meta]]
    BY <1>1, <1>5
  <2>5. addr[Meta].chunk = 1 /\ addr[Meta].off + Size(Meta) = free[1]
    BY <1>1, <1>5, <1>6, <1>7
  <2>. QED BY <1>3, <1>7, <2>1, <2>2, <2>3, <2>4, <2>5 DEF Settled
<1>13. Contents
  <2>1. ASSUME NEW i \in Units(Meta) PROVE cell[Cell(m, i)] = [id |-> Meta, unit |-> i]
    <3>1. i \in 0 .. Size(Meta) - 1 /\ i < InstSize[Meta]
      BY <1>6, <2>1 DEF Units
    <3>2. Cell(m, i) \in Addr /\ Cell(m, i).chunk = 1 /\ Cell(m, i).off = 0 + i
      BY <1>1, <1>6, <1>10, <3>1, CellIs
    <3>. QED BY <3>1, <3>2 DEF Init
  <2>2. Whole(addr[Meta], Meta)
    BY <1>5, <2>1 DEF Whole
  <2>3. pc = "run"
    BY DEF Init
  <2>. QED BY <1>3, <2>2, <2>3 DEF Contents
<1>14. Walks /\ Storage /\ Survivors /\ InOrder /\ Moving /\ LiveWalksOn
  BY DEF Init, Walks, Storage, Survivors, InOrder, Moving, LiveWalksOn
<1>15. NeverMovesUp
  BY <1>3, <1>2 DEF Init, NeverMovesUp, NoAddr
<1>. QED BY <1>8, <1>9, <1>11, <1>12, <1>13, <1>14, <1>15 DEF CompactionInv

-----------------------------------------------------------------------------
\* The mutator.

LEMMA AllocYoungInv ==
  ASSUME CompactionInv, NEW o \in Id, NEW k \in Classes, AllocYoung(o, k)
  PROVE  CompactionInv'
<1>1. Types /\ Objects /\ Layout /\ Settled /\ Contents
  BY DEF CompactionInv
<1>2. pc = "run" /\ pc' = "run" /\ o \in Insts /\ class[o] = Nil /\ k \in live /\ k # Nil
  BY ConstantsAre DEF AllocYoung, IsNewObject, Id
<1>3. class' = [class EXCEPT ![o] = k] /\ live' = live \cup {o} /\ young' = Append(young, o)
  BY DEF AllocYoung
<1>4. clsptr' = [clsptr EXCEPT ![o] = addr[k]]
  BY DEF AllocYoung
<1>5. UNCHANGED <<old, addr, free, cell, meta, pc, gcVars>>
  BY DEF AllocYoung
<1>6. k \in RangeOf(old) /\ addr[k] \in Addr
  BY <1>1, <1>2, OldIs, ClassesOld DEF Objects
<1>7. o \notin live /\ o \notin RangeOf(old) /\ o \notin RangeOf(young)
  BY <1>1, <1>2, ConstantsAre, CompactionAssumption DEF Objects, Id
<1>8. /\ young' \in Seq(Insts) /\ Len(young') = Len(young) + 1 /\ Len(young) \in Nat
      /\ \A j \in 1 .. Len(young) : young'[j] = young[j]
      /\ young'[Len(young) + 1] = o
      /\ RangeOf(young') = RangeOf(young) \cup {o}
  BY <1>1, <1>2, <1>3, AppendIs DEF Types
<1>9. \A p \in Id : p # o => class'[p] = class[p] /\ clsptr'[p] = clsptr[p] /\ Size(p)' = Size(p)
  BY <1>1, <1>3, <1>4 DEF Types, Size
<1>10. class'[o] = k
  BY <1>1, <1>3 DEF Types
<1>11. Types'
  <2>1. class' \in [Id -> Classes \cup {Nil}] /\ clsptr' \in [Id -> Addr \cup {Nil}]
        /\ live' \in SUBSET Id
    BY <1>1, <1>3, <1>4, <1>6 DEF Types
  <2>. QED BY <1>1, <1>5, <1>8, <2>1 DEF Types, gcVars
<1>12. \A p \in RangeOf(old) : p # o /\ p \in Id /\ class'[p] = class[p] /\ Size(p)' = Size(p)
  BY <1>1, <1>7, <1>9, OldIs
<1>13. \A j \in 1 .. Len(old) : old[j] \in RangeOf(old)
  BY <1>1, InRange DEF Types
<1>14. Objects'
  <2>1. class'[Meta] = Meta /\ Meta \in live' /\ Meta \in RangeOf(old')
    BY <1>1, <1>3, <1>5, <1>12 DEF Objects
  <2>2. live' \subseteq RangeOf(old') \cup RangeOf(young')
    BY <1>1, <1>3, <1>5, <1>8 DEF Objects
  <2>3. \A p \in RangeOf(old') \cup RangeOf(young') \cup live' : class'[p] \in Classes
    <3>1. \A p \in RangeOf(old) \cup RangeOf(young) \cup live : p \in Id /\ class[p] \in Classes
      BY <1>1, OldIs, InRange DEF Objects, Types, Id
    <3>. QED BY <1>3, <1>5, <1>8, <1>9, <1>10, <3>1
  <2>4. \A p \in live' : class'[p] \in live'
    BY <1>1, <1>2, <1>3, <1>9, <1>10 DEF Objects, Types
  <2>5. \A p \in Id : class'[p] = p => p = Meta
    BY <1>1, <1>2, <1>9, <1>10, <1>7 DEF Objects
  <2>6. \A j \in 1 .. Len(old') : old'[j] \in live' => \E i \in 1 .. j : old'[i] = class'[old'[j]]
    BY <1>1, <1>3, <1>5, <1>12, <1>13 DEF Objects
  <2>7. \A i, j \in 1 .. Len(young') : i # j => young'[i] # young'[j]
    <3>1. \A i \in 1 .. Len(young) : young[i] # o
      BY <1>1, <1>7, InRange DEF Types
    <3>. QED BY <1>1, <1>8, <3>1 DEF Objects
  <2>8. RangeOf(old') \cap RangeOf(young') = {}
    BY <1>1, <1>5, <1>7, <1>8 DEF Objects
  <2>9. addr'[Meta] = [chunk |-> 1, off |-> 0]
    BY <1>1, <1>5 DEF Objects
  <2>. QED BY <2>1, <2>2, <2>3, <2>4, <2>5, <2>6, <2>7, <2>8, <2>9 DEF Objects
<1>15. Layout'
  BY <1>1, <1>5, <1>12, <1>13 DEF Layout, Fits
<1>16. Settled'
  <2>1. fwd' = NoAddr /\ \A p \in RangeOf(old) : meta'[p] = addr'[p].chunk
    BY <1>1, <1>2, <1>5 DEF Settled, gcVars
  <2>2. \A p \in RangeOf(old) :
           Ahead(addr[p], Size(p)', [chunk |-> Len(free), off |-> free[Len(free)]])
    BY <1>1, <1>2, <1>12 DEF Settled
  <2>3. \A c \in 1 .. Len(free) :
              \E p \in RangeOf(old) :
                 /\ addr[p].chunk = c
                 /\ addr[p].off + Size(p)' = free[c]
                 /\ \A q \in RangeOf(old) : addr[q].chunk = c => IsBefore(addr[q], addr[p])
    BY <1>1, <1>2, <1>12 DEF Settled
  <2>4. \A p \in RangeOf(old) \cap live' : clsptr'[p] = addr[class'[p]]
    BY <1>1, <1>2, <1>3, <1>9, <1>12 DEF Settled
  <2>. QED BY <1>5, <2>1, <2>2, <2>3, <2>4 DEF Settled
<1>17. Contents'
  <2>1. ASSUME NEW p \in RangeOf(old) \cap live'
        PROVE  Whole(addr[p], p)'
    <3>1. p \in live /\ Whole(addr[p], p) /\ Size(p)' = Size(p)
      BY <1>1, <1>2, <1>3, <1>12, <2>1 DEF Contents
    <3>. QED BY <1>5, <3>1 DEF Whole, Units
  <2>. QED BY <1>2, <1>5, <2>1 DEF Contents
<1>18. (Walks /\ Storage /\ Survivors /\ InOrder /\ Moving /\ LiveWalksOn)'
  BY <1>2 DEF Walks, Storage, Survivors, InOrder, Moving, LiveWalksOn
<1>19. NeverMovesUp'
  BY <1>2, <1>5, <1>12, <1>16 DEF NeverMovesUp, Settled, NoAddr
<1>. QED BY <1>11, <1>14, <1>15, <1>16, <1>17, <1>18, <1>19 DEF CompactionInv

LEMMA AllocOldInv ==
  ASSUME CompactionInv, NEW o \in Id, NEW k \in Classes, AllocOld(o, k)
  PROVE  CompactionInv'
<1>1. Types /\ Objects /\ Layout /\ Settled /\ Contents
  BY DEF CompactionInv
<1> DEFINE a == [chunk |-> Len(free), off |-> free[Len(free)]]
           n == InstSize[k]
           NewSize(p) == InstSize[class'[p]]
<1>2. pc = "run" /\ pc' = "run" /\ class[o] = Nil /\ k \in live /\ k # Nil
  BY ConstantsAre DEF AllocOld, IsNewObject, Id
<1>3. class' = [class EXCEPT ![o] = k] /\ live' = live \cup {o} /\ old' = Append(old, o)
  BY DEF AllocOld
<1>4. clsptr' = [clsptr EXCEPT ![o] = addr[k]] /\ addr' = [addr EXCEPT ![o] = a]
      /\ meta' = [meta EXCEPT ![o] = a.chunk]
  BY DEF AllocOld
<1>5. UNCHANGED <<young, pc, gcVars>>
  BY DEF AllocOld
<1>6. k \in RangeOf(old) /\ addr[k] \in Addr
  BY <1>1, <1>2, OldIs, ClassesOld DEF Objects
<1>7. o \notin live /\ o \notin RangeOf(old) /\ o \notin RangeOf(young)
  BY <1>1, <1>2, ConstantsAre, CompactionAssumption DEF Objects, Id
<1>8. /\ old' \in Seq(Id) /\ Len(old') = Len(old) + 1 /\ Len(old) \in Nat
      /\ \A j \in 1 .. Len(old) : old'[j] = old[j]
      /\ old'[Len(old) + 1] = o
      /\ RangeOf(old') = RangeOf(old) \cup {o}
  BY <1>1, <1>3, AppendIs DEF Types
<1>9. \A p \in Id : p # o => /\ class'[p] = class[p] /\ clsptr'[p] = clsptr[p]
                             /\ NewSize(p) = Size(p) /\ addr'[p] = addr[p] /\ meta'[p] = meta[p]
  BY <1>1, <1>3, <1>4 DEF Types, Size
<1>10. class'[o] = k /\ clsptr'[o] = addr[k] /\ addr'[o] = a /\ meta'[o] = a.chunk /\ NewSize(o) = n
  BY <1>1, <1>3, <1>4 DEF Types, Size
<1>20. n \in Nat /\ 1 <= n /\ n < ChunkCap
  BY ConstantsAre
<1>21. /\ Len(free) \in 0 .. MaxChunks /\ Len(free) \in Chunk /\ Len(free) \in Nat /\ 1 <= Len(free)
       /\ free[Len(free)] \in Offset /\ free[Len(free)] \in Nat
  <2>1. Len(free) \in Chunk /\ free \in Seq(Offset)
    BY <1>1 DEF Types
  <2>2. Len(free) \in 0 .. MaxChunks /\ Len(free) \in Nat /\ 1 <= Len(free)
    BY <2>1, ConstantsAre DEF Chunk
  <2>3. free[Len(free)] \in Offset
    BY <2>1, <2>2
  <2>. QED BY <2>1, <2>2, <2>3, ConstantsAre
<1>22. a \in Addr /\ a.chunk = Len(free) /\ a.off = free[Len(free)]
  BY <1>21, AddrIs
<1>23. a.off + n < ChunkCap
  BY DEF AllocOld
<1>24. Fits(a, n)
  BY <1>22, <1>23 DEF Fits
<1>25. free' = [free EXCEPT ![Len(free)] = @ + n]
  BY DEF AllocOld
<1>26. /\ free' \in Seq(Offset) /\ Len(free') = Len(free)
       /\ free'[Len(free)] = a.off + n
       /\ \A c \in 1 .. Len(free) : c # Len(free) => free'[c] = free[c]
  <2>1. free[Len(free)] + n \in Offset
    BY <1>20, <1>21, <1>22, <1>23, ConstantsAre DEF Offset
  <2>2. free \in Seq(Offset)
    BY <1>1 DEF Types
  <2>3. Len(free) \in 1 .. Len(free) /\ free[Len(free)] + n = a.off + n
    BY <1>21, <1>22
  <2>. QED BY <2>1, <2>2, <2>3, <1>25
<1>27. cell' = [x \in DOMAIN cell |->
                     IF x.chunk = a.chunk /\ x.off \in a.off .. a.off + n - 1
                     THEN [id |-> o, unit |-> x.off - a.off] ELSE cell[x]]
  BY DEF AllocOld
<1> HIDE DEF a, n
<1>11. Types'
  <2>1. class' \in [Id -> Classes \cup {Nil}] /\ clsptr' \in [Id -> Addr \cup {Nil}]
        /\ live' \in SUBSET Id
    BY <1>1, <1>3, <1>4, <1>6 DEF Types
  <2>2. addr' \in [Id -> Addr \cup {Nil}] /\ DOMAIN cell' = Addr
    BY <1>1, <1>4, <1>22, <1>27 DEF Types
  <2>3. meta' \in [Id -> 0 .. MaxChunks]
    BY <1>1, <1>4, <1>21, <1>22 DEF Types
  <2>. QED BY <1>1, <1>5, <1>8, <1>26, <2>1, <2>2, <2>3 DEF Types, gcVars
<1>12. \A p \in RangeOf(old) :
          /\ p # o /\ p \in Id /\ class'[p] = class[p] /\ NewSize(p) = Size(p)
          /\ addr'[p] = addr[p] /\ meta'[p] = meta[p] /\ clsptr'[p] = clsptr[p]
  BY <1>1, <1>7, <1>9, OldIs
<1>13. \A j \in 1 .. Len(old) : old[j] \in RangeOf(old)
  BY <1>1, InRange DEF Types
<1>14. Objects'
  <2>1. class'[Meta] = Meta /\ Meta \in live' /\ Meta \in RangeOf(old')
        /\ addr'[Meta] = [chunk |-> 1, off |-> 0]
    BY <1>1, <1>3, <1>8, <1>12 DEF Objects
  <2>2. live' \subseteq RangeOf(old') \cup RangeOf(young')
    BY <1>1, <1>3, <1>5, <1>8 DEF Objects
  <2>3. \A p \in RangeOf(old') \cup RangeOf(young') \cup live' : class'[p] \in Classes
    <3>1. \A p \in RangeOf(old) \cup RangeOf(young) \cup live : p \in Id /\ class[p] \in Classes
      BY <1>1, OldIs, InRange DEF Objects, Types, Id
    <3>. QED BY <1>3, <1>5, <1>8, <1>9, <1>10, <3>1
  <2>4. \A p \in live' : class'[p] \in live'
    BY <1>1, <1>2, <1>3, <1>9, <1>10 DEF Objects, Types
  <2>5. \A p \in Id : class'[p] = p => p = Meta
    BY <1>1, <1>2, <1>9, <1>10, <1>7 DEF Objects
  <2>6. ASSUME NEW j \in 1 .. Len(old'), old'[j] \in live'
        PROVE  \E i \in 1 .. j : old'[i] = class'[old'[j]]
    <3>1. CASE j \in 1 .. Len(old)
      <4>1. old'[j] = old[j] /\ old[j] \in live /\ class'[old[j]] = class[old[j]]
        BY <1>3, <1>8, <1>12, <1>13, <2>6, <3>1
      <4>2. PICK i \in 1 .. j : old[i] = class[old[j]]
        BY <1>1, <3>1, <4>1 DEF Objects
      <4>3. i \in 1 .. Len(old)
        BY <1>8, <3>1
      <4>. QED BY <1>8, <4>1, <4>2, <4>3
    <3>2. CASE j = Len(old) + 1
      <4>1. PICK i \in 1 .. Len(old) : old[i] = k
        BY <1>6 DEF RangeOf
      <4>2. i \in 1 .. j /\ old'[i] = k
        BY <1>8, <3>2, <4>1
      <4>. QED BY <1>8, <1>10, <3>2, <4>2
    <3>. QED BY <1>8, <3>1, <3>2
  <2>7. \A i, j \in 1 .. Len(young') : i # j => young'[i] # young'[j]
    BY <1>1, <1>5 DEF Objects
  <2>8. RangeOf(old') \cap RangeOf(young') = {}
    BY <1>1, <1>5, <1>7, <1>8 DEF Objects
  <2>. QED BY <2>1, <2>2, <2>3, <2>4, <2>5, <2>6, <2>7, <2>8 DEF Objects
<1>28. \A p \in RangeOf(old) : Ahead(addr[p], Size(p), a)
  BY <1>1, <1>2 DEF Settled, a
<1>15. Layout'
  <2>1. \A j \in 1 .. Len(old') : Fits(addr'[old'[j]], NewSize(old'[j]))
    <3>1. \A p \in RangeOf(old') : Fits(addr'[p], NewSize(p))
      BY <1>1, <1>8, <1>10, <1>12, <1>24, OldIs
    <3>2. \A j \in 1 .. Len(old') : old'[j] \in RangeOf(old')
      BY <1>8, InRange
    <3> HIDE DEF NewSize
    <3>. QED BY <3>1, <3>2
  <2>2. ASSUME NEW i \in 1 .. Len(old'), NEW j \in 1 .. Len(old'), i < j
        PROVE  Ahead(addr'[old'[i]], NewSize(old'[i]), addr'[old'[j]])
    <3>1. i \in 1 .. Len(old) /\ (j \in 1 .. Len(old) \/ j = Len(old) + 1)
      BY <1>8, <2>2
    <3>2. old'[i] = old[i] /\ addr'[old[i]] = addr[old[i]] /\ NewSize(old[i]) = Size(old[i])
      BY <1>8, <1>12, <1>13, <3>1
    <3>3. CASE j \in 1 .. Len(old)
      <4>1. Ahead(addr[old[i]], Size(old[i]), addr[old[j]])
        BY <1>1, <2>2, <3>1, <3>3 DEF Layout
      <4>2. old'[j] = old[j] /\ addr'[old[j]] = addr[old[j]]
        BY <1>8, <1>12, <1>13, <3>3
      <4>3. NewSize(old'[i]) = Size(old[i])
        BY <3>2
      <4>. QED BY <3>2, <4>1, <4>2, <4>3
    <3>4. CASE j = Len(old) + 1
      <4>1. Ahead(addr[old[i]], Size(old[i]), a)
        BY <1>13, <1>28, <3>1
      <4>2. addr'[old'[j]] = a
        BY <1>8, <1>10, <3>4
      <4>3. NewSize(old'[i]) = Size(old[i])
        BY <3>2
      <4>. QED BY <3>2, <4>1, <4>2, <4>3
    <3>. QED BY <3>1, <3>3, <3>4
  <2>. QED BY <2>1, <2>2 DEF Layout, Fits, Ahead, Size
<1>16. Settled'
  <2> DEFINE e == [chunk |-> Len(free), off |-> a.off + n]
  <2>1. e \in Addr /\ e.chunk = Len(free) /\ e.off = a.off + n
    <3>1. a.off + n \in Offset
      BY ConstantsAre, <1>20, <1>21, <1>22, <1>23 DEF Offset
    <3>. QED BY <1>21, <3>1, AddrIs
  <2>2. \A p \in RangeOf(old') : Ahead(addr'[p], NewSize(p), e)
    <3>1. \A p \in RangeOf(old) : Ahead(addr[p], Size(p), e)
      <4>1. Ahead(a, n, e)
        BY <1>20, <1>21, <1>22, <2>1 DEF Ahead
      <4>. QED BY <1>1, <1>20, <1>22, <1>28, <2>1, <4>1, AheadTransitive, OldIs
    <3>2. Ahead(a, n, e)
      BY <1>20, <1>21, <1>22, <2>1 DEF Ahead
    <3>. QED BY <1>8, <1>10, <1>12, <3>1, <3>2
  <2>3. \A p \in RangeOf(old') : meta'[p] = addr'[p].chunk
    BY <1>1, <1>2, <1>8, <1>10, <1>12 DEF Settled
  <2>4. ASSUME NEW c \in 1 .. Len(free)
        PROVE  \E p \in RangeOf(old') :
                 /\ addr'[p].chunk = c
                 /\ addr'[p].off + NewSize(p) = free'[c]
                 /\ \A q \in RangeOf(old') : addr'[q].chunk = c => IsBefore(addr'[q], addr'[p])
    <3>1. CASE c = Len(free)
      <4>1. \A q \in RangeOf(old) : addr[q].chunk = c => IsBefore(addr[q], a)
        BY <1>1, <1>22, <1>28, <3>1, OldIs, AddrIs DEF Ahead, IsBefore
      <4>2. IsBefore(a, a)
        BY <1>22, AddrIs DEF IsBefore
      <4>3. /\ o \in RangeOf(old') /\ addr'[o] = a /\ NewSize(o) = n
            /\ a.chunk = c /\ a.off + n = free'[c]
        BY <1>8, <1>10, <1>22, <1>26, <3>1
      <4>4. \A q \in RangeOf(old') : addr'[q].chunk = c => IsBefore(addr'[q], addr'[o])
        BY <1>8, <1>12, <4>1, <4>2, <4>3
      <4>. QED BY <4>3, <4>4
    <3>2. CASE c # Len(free)
      <4>1. PICK p \in RangeOf(old) :
                 /\ addr[p].chunk = c
                 /\ addr[p].off + Size(p) = free[c]
                 /\ \A q \in RangeOf(old) : addr[q].chunk = c => IsBefore(addr[q], addr[p])
        BY <1>1, <1>2 DEF Settled
      <4>2. a.chunk # c /\ free'[c] = free[c]
        BY <1>22, <1>26, <3>2
      <4>3. /\ p \in RangeOf(old') /\ addr'[p] = addr[p] /\ NewSize(p) = Size(p)
            /\ addr[p].off + Size(p) = free'[c]
        BY <1>8, <1>12, <4>1, <4>2
      <4>4. \A q \in RangeOf(old') : addr'[q].chunk = c => IsBefore(addr'[q], addr'[p])
        BY <1>8, <1>10, <1>12, <4>1, <4>2, <4>3
      <4>. QED BY <4>1, <4>3, <4>4
    <3>. QED BY <3>1, <3>2
  <2>5. \A p \in RangeOf(old') \cap live' : clsptr'[p] = addr'[class'[p]]
    <3>1. \A p \in RangeOf(old) \cap live : clsptr[p] = addr[class[p]] /\ class[p] \in RangeOf(old)
      BY <1>1, <1>2, ClassIs DEF Settled
    <3>. QED BY <1>3, <1>6, <1>7, <1>8, <1>10, <1>12, <3>1
  <2>6. fwd' = NoAddr
    BY <1>1, <1>2, <1>5 DEF Settled, gcVars
  <2>7. e = [chunk |-> Len(free'), off |-> free'[Len(free')]]
    BY <1>26
  <2>8. \A p \in RangeOf(old') :
           Ahead(addr'[p], NewSize(p), [chunk |-> Len(free'), off |-> free'[Len(free')]])
    BY <2>2, <2>7, Zenon
  <2>9. Len(free') = Len(free)
    BY <1>26
  <2>10. \A c \in 1 .. Len(free') :
              \E p \in RangeOf(old') :
                 /\ addr'[p].chunk = c
                 /\ addr'[p].off + NewSize(p) = free'[c]
                 /\ \A q \in RangeOf(old') : addr'[q].chunk = c => IsBefore(addr'[q], addr'[p])
    BY <2>4, <2>9, Zenon
  <2> HIDE DEF e
  <2>. QED BY <2>3, <2>5, <2>6, <2>8, <2>10 DEF Settled, Ahead, IsBefore, Size
<1>17. Contents'
  <2>1. ASSUME NEW p \in RangeOf(old) \cap live
        PROVE  Whole(addr[p], p)'
    <3>1. Whole(addr[p], p) /\ Units(p)' = Units(p) /\ addr'[p] = addr[p]
      BY <1>1, <1>2, <1>12, <2>1 DEF Contents, Units, Size
    <3>2. ASSUME NEW i \in Units(p)
          PROVE  cell'[Cell(addr[p], i)] = [id |-> p, unit |-> i]
      <4>1. i \in 0 .. Size(p) - 1 /\ Size(p) \in Nat /\ Fits(addr[p], Size(p))
        BY <1>1, <3>2, OldIs DEF Units
      <4>2. /\ Cell(addr[p], i) \in Addr
            /\ Cell(addr[p], i).chunk = addr[p].chunk /\ Cell(addr[p], i).off = addr[p].off + i
        BY <4>1, CellIs
      <4>3. Ahead(addr[p], Size(p), a) /\ addr[p] \in Addr
        BY <1>1, <1>28, OldIs
      <4>4. ~ (Cell(addr[p], i).chunk = a.chunk /\ Cell(addr[p], i).off \in a.off .. a.off + n - 1)
        BY <1>22, <4>1, <4>2, <4>3, AddrIs DEF Ahead
      <4>5. DOMAIN cell = Addr /\ cell[Cell(addr[p], i)] = [id |-> p, unit |-> i]
        BY <1>1, <3>1 DEF Types, Whole
      <4>. QED BY <1>27, <4>2, <4>4, <4>5
    <3>. QED BY <3>1, <3>2 DEF Whole
  <2>2. Whole(addr[o], o)'
    <3>1. ASSUME NEW i \in 0 .. n - 1
          PROVE  cell'[Cell(a, i)] = [id |-> o, unit |-> i]
      <4>1. /\ Cell(a, i) \in Addr
            /\ Cell(a, i).chunk = a.chunk /\ Cell(a, i).off = a.off + i
            /\ Cell(a, i).off - a.off = i
        BY <1>20, <1>24, <3>1, CellIs
      <4>2. Cell(a, i).off \in a.off .. a.off + n - 1
        BY <1>20, <1>21, <1>22, <4>1
      <4>3. DOMAIN cell = Addr
        BY <1>1 DEF Types
      <4>. QED BY <1>27, <4>1, <4>2, <4>3
    <3>2. Units(o)' = 0 .. n - 1
      BY <1>10 DEF Units, Size
    <3>. QED BY <1>10, <3>1, <3>2 DEF Whole
  <2>3. \A p \in RangeOf(old') \cap live' : Whole(addr[p], p)'
    BY <1>3, <1>7, <1>8, <2>1, <2>2
  <2>. QED BY <1>2, <2>3 DEF Contents
<1>18. (Walks /\ Storage /\ Survivors /\ InOrder /\ Moving /\ LiveWalksOn)'
  BY <1>2 DEF Walks, Storage, Survivors, InOrder, Moving, LiveWalksOn
<1>19. NeverMovesUp'
  <2>1. \A p \in RangeOf(old') : p \in Id
    BY <1>8, InRange
  <2>. QED BY <1>2, <1>16, <2>1 DEF NeverMovesUp, Settled, NoAddr
<1>. QED BY <1>11, <1>14, <1>15, <1>16, <1>17, <1>18, <1>19 DEF CompactionInv

LEMMA DieInv ==
  ASSUME CompactionInv, NEW o \in Id, Die(o)
  PROVE  CompactionInv'
<1>1. Types /\ Objects /\ Layout /\ Settled /\ Contents /\ NeverMovesUp
  BY DEF CompactionInv
<1>2. pc = "run" /\ pc' = "run" /\ o # Meta /\ live' = live \ {o} /\ \A p \in live : class[p] # o
  BY DEF Die
<1>3. UNCHANGED <<class, old, young, addr, free, cell, meta, clsptr, pc, gcVars>>
  BY DEF Die
<1>4. Types'
  BY <1>1, <1>2, <1>3 DEF Types, gcVars
<1>5. Objects'
  <2>1. live' \subseteq live
    BY <1>2
  <2>2. \A p \in live' : class[p] \in live'
    BY <1>1, <1>2 DEF Objects
  <2>3. \A j \in 1 .. Len(old) : old[j] \in live' => \E i \in 1 .. j : old[i] = class[old[j]]
    BY <1>1, <2>1 DEF Objects
  <2>. QED BY <1>1, <1>2, <1>3, <2>1, <2>2, <2>3 DEF Objects
<1>6. Layout'
  BY <1>1, <1>3 DEF Layout, Fits, Ahead, Size
<1>7. Settled'
  <2>1. fwd' = fwd
    BY <1>3 DEF gcVars
  <2>2. \A p \in RangeOf(old) \cap live' : clsptr[p] = addr[class[p]]
    BY <1>1, <1>2 DEF Settled
  <2>. QED BY <1>1, <1>2, <1>3, <2>1, <2>2 DEF Settled, Ahead, IsBefore, Size
<1>8. Contents'
  BY <1>1, <1>2, <1>3 DEF Contents, Whole, Units, Size
<1>9. (Walks /\ Storage /\ Survivors /\ InOrder /\ Moving /\ LiveWalksOn)'
  BY <1>2 DEF Walks, Storage, Survivors, InOrder, Moving, LiveWalksOn
<1>10. NeverMovesUp'
  BY <1>1, <1>2, <1>3 DEF NeverMovesUp, gcVars
<1>. QED BY <1>4, <1>5, <1>6, <1>7, <1>8, <1>9, <1>10 DEF CompactionInv

-----------------------------------------------------------------------------
\* The parts of the invariant that only speak of the heap as a collection finds it.

Heap == <<class, live, old, young, addr>>

LEMMA HeapKept ==
  ASSUME Objects, Layout, UNCHANGED Heap
  PROVE  Objects' /\ Layout'
<1>1. UNCHANGED <<class, live, old, young, addr>>
  BY DEF Heap
<1>2. Objects'
  BY <1>1 DEF Objects
<1>3. Layout'
  BY <1>1 DEF Layout, Fits, Ahead, Size
<1>. QED BY <1>2, <1>3

LEMMA BeginGcInv ==
  ASSUME CompactionInv, NEW m \in SUBSET Insts, BeginGc(m)
  PROVE  CompactionInv'
<1>1. Types /\ Objects /\ Layout /\ Settled /\ Contents
  BY DEF CompactionInv
<1>2. pc = "run" /\ pc' = "realloc_old" /\ mid' = m /\ m \subseteq live \cap RangeOf(young)
  BY DEF BeginGc
<1>3. walk' = old /\ at' = 1 /\ kept' = <<>> /\ stay' = <<>> /\ iter' = [chunk |-> 1, off |-> 0]
  BY DEF BeginGc
<1>4. UNCHANGED <<class, live, old, young, addr, free, cell, meta, visited_end, fwd, clsptr, this_chunk>>
  BY DEF BeginGc
<1>5. fwd = NoAddr /\ \A o \in Id : fwd'[o] = Nil
  BY <1>1, <1>2, <1>4 DEF Settled, NoAddr
<1>6. iter' \in Addr /\ iter'.chunk = 1 /\ iter'.off = 0
  BY <1>3, ConstantsAre, AddrIs
<1>7. kept' \in Seq(Id) /\ stay' \in Seq(Insts) /\ Len(kept') = 0 /\ Len(stay') = 0 /\ RangeOf(kept') = {}
  BY <1>3 DEF RangeOf
<1>8. Len(free) \in Nat /\ 1 <= Len(free) /\ Len(old) \in Nat /\ Len(young) \in Nat
  BY <1>1, ConstantsAre DEF Types, Chunk
<1>9. Types'
  <2>1. walk' \in Seq(Id) /\ at' \in 1 .. Len(walk') + 1
    BY <1>1, <1>3, <1>8 DEF Types
  <2>2. pc' \in Phase
    BY <1>2 DEF Phase
  <2>. QED BY <1>1, <1>2, <1>4, <1>6, <1>7, <2>1, <2>2 DEF Types
<1>10. Objects' /\ Layout'
  BY <1>1, <1>4, HeapKept DEF Heap
<1>11. \A j \in 1 .. Len(old) : old[j] \in RangeOf(old) /\ old[j] \in Id
  BY <1>1, InRange DEF Types
<1>12. \A j \in 1 .. Len(young) : young[j] \in RangeOf(young) /\ young[j] \in Id
  BY <1>1, InRange DEF Types, Id
<1>13. Settled' /\ Walks' /\ Moving' /\ LiveWalksOn'
  BY <1>2, <1>3, <1>4 DEF Settled, Walks, Moving, LiveWalksOn
<1>14. Storage'
  <2>1. /\ \A o \in Id : fwd'[o] # Nil <=> o \in RangeOf(kept')
        /\ RangeOf(kept') = {} /\ 1 .. Len(kept') = {}
        /\ iter'.chunk <= Len(free') /\ 1 .. iter'.chunk - 1 = {}
        /\ kept' = <<>> /\ iter' = [chunk |-> 1, off |-> 0]
    BY <1>3, <1>4, <1>5, <1>6, <1>7, <1>8
  <2>. QED BY <2>1 DEF Storage
<1>15. Survivors'
  <2>1. \A j \in 1 .. Len(old) : fwd'[old[j]] # Nil <=> old[j] \in live /\ j < 1
    BY <1>5, <1>8, <1>11
  <2>2. \A j \in 1 .. Len(young) : fwd'[young[j]] = Nil
    BY <1>5, <1>12
  <2>3. 1 .. Len(stay') = {}
    BY <1>7
  <2>. QED BY <1>2, <1>3, <1>4, <2>1, <2>2, <2>3 DEF Survivors
<1>16. InOrder'
  BY <1>4, <1>5, <1>11, <1>12 DEF InOrder
<1>17. Contents'
  BY <1>1, <1>2, <1>4 DEF Contents, Whole, Units, Size
<1>18. NeverMovesUp'
  <2>1. \A o \in RangeOf(old) : fwd'[o] = Nil
    BY <1>1, <1>5, OldIs
  <2>2. Len(walk') >= 1 => IsBefore(iter', addr[walk'[1]])
    <3>1. ASSUME Len(walk') >= 1 PROVE IsBefore(iter', addr[walk'[1]])
      <4>1. walk'[1] \in RangeOf(old)
        BY <1>3, <1>8, <1>11, <3>1
      <4>2. addr[walk'[1]] \in Addr
        BY <1>1, <4>1, OldIs
      <4>. QED BY <1>6, <4>2, AddrIs, ConstantsAre DEF IsBefore, Chunk
    <3>. QED BY <3>1
  <2>. QED BY <1>2, <1>3, <1>4, <2>1, <2>2 DEF NeverMovesUp, Walking
<1>. QED BY <1>9, <1>10, <1>13, <1>14, <1>15, <1>16, <1>17, <1>18 DEF CompactionInv

-----------------------------------------------------------------------------
\* New storage for one survivor.

LEMMA FakeAllocGives ==
  ASSUME CompactionInv, pc # "run", pc' # "run", UNCHANGED <<class, live>>,
         NEW o \in live, fwd[o] = Nil, class[o] \in RangeOf(kept) \/ class[o] = o,
         FakeAlloc(o)
  PROVE  /\ kept' \in Seq(Id) /\ fwd' \in [Id -> Addr \cup {Nil}] /\ iter' \in Addr
         /\ visited_end' \in [Chunk -> Offset \cup {Nil}]
         /\ free' \in Seq(Offset) /\ Len(free') \in Chunk
         /\ \A p \in Id : p # o => fwd'[p] = fwd[p]
         /\ fwd'[o] = Forward(o) /\ Forward(o) \in Addr /\ fwd'[o] # Nil
         /\ iter'.chunk = Forward(o).chunk /\ iter'.off = Forward(o).off + Size(o)
         /\ \A p \in Id : fwd[p] # Nil => Ahead(fwd[p], Size(p), Forward(o))
         /\ Storage'
<1>1. Types /\ Objects /\ Storage
  BY DEF CompactionInv
<1>2. /\ o \in Id /\ class[o] \in Classes /\ Size(o) \in Nat /\ 1 <= Size(o) /\ Size(o) < ChunkCap
  BY <1>1, ClassIs
<1>3. iter \in Addr /\ iter.chunk \in Nat /\ iter.off \in Nat /\ iter.chunk \in Chunk
      /\ iter.off \in Offset /\ 1 <= iter.chunk
  BY <1>1, AddrIs DEF Types, Chunk
<1> DEFINE f == Forward(o)
<1>4. f.chunk <= MaxChunks
  BY DEF FakeAlloc
<1>5. /\ kept' = Append(kept, o) /\ fwd' = [fwd EXCEPT ![o] = f] /\ iter' = Cell(f, Size(o))
      /\ visited_end' = IF Stays(o) THEN visited_end ELSE [visited_end EXCEPT ![iter.chunk] = iter.off]
      /\ free' = IF f.chunk <= Len(free) THEN free ELSE Append(free, 0)
  BY DEF FakeAlloc
<1>8. /\ f \in Addr /\ f.chunk \in Nat /\ f.off \in Nat /\ f.off + Size(o) < ChunkCap
      /\ f.chunk \in Chunk /\ f # Nil
      /\ (Stays(o) /\ f = iter) \/ (~ Stays(o) /\ f.chunk = iter.chunk + 1 /\ f.off = 0)
  <2>1. f \in Addr /\ f.off + Size(o) < ChunkCap
    <3>1. CASE Stays(o)
      BY <1>3, <3>1 DEF Forward, Stays
    <3>2. CASE ~ Stays(o)
      <4>1. f = [chunk |-> iter.chunk + 1, off |-> 0]
        BY <3>2 DEF Forward
      <4>2. f.chunk = iter.chunk + 1 /\ f.off = 0
        BY <4>1
      <4>3. iter.chunk + 1 \in Chunk
        BY <1>3, <1>4, <4>2, ConstantsAre DEF Chunk
      <4>4. f \in Addr
        <5>1. \A c \in Chunk : [chunk |-> c, off |-> 0] \in Addr
          BY AddrIs, ConstantsAre
        <5> HIDE DEF f
        <5>. QED BY <4>1, <4>3, <5>1
      <4> HIDE DEF f
      <4>. QED BY <1>2, <4>2, <4>4
    <3>. QED BY <3>1, <3>2
  <2>2. (Stays(o) /\ f = iter) \/ (~ Stays(o) /\ f.chunk = iter.chunk + 1 /\ f.off = 0)
    BY DEF Forward
  <2>. QED BY <2>1, <2>2, AddrIs
<1> HIDE DEF f
<1>9. iter' \in Addr /\ iter'.chunk = f.chunk /\ iter'.off = f.off + Size(o)
  <2>1. f.off + Size(o) \in Offset
    BY <1>2, <1>8, ConstantsAre DEF Offset
  <2>. QED BY <1>5, <1>8, <2>1, AddrIs DEF Cell
<1>10. Ahead(f, Size(o), iter') /\ Fits(f, Size(o))
  BY <1>2, <1>8, <1>9 DEF Ahead, Fits
<1>11. /\ kept' \in Seq(Id) /\ Len(kept') = Len(kept) + 1 /\ Len(kept) \in Nat
       /\ \A j \in 1 .. Len(kept) : kept'[j] = kept[j]
       /\ kept'[Len(kept) + 1] = o
       /\ RangeOf(kept') = RangeOf(kept) \cup {o}
  BY <1>1, <1>2, <1>5, AppendIs DEF Types
<1>12. fwd' \in [Id -> Addr \cup {Nil}] /\ fwd'[o] = f /\ \A p \in Id : p # o => fwd'[p] = fwd[p]
  BY <1>1, <1>2, <1>5, <1>8 DEF Types
<1>13. visited_end' \in [Chunk -> Offset \cup {Nil}]
  BY <1>1, <1>3, <1>5 DEF Types
<1>14. free' \in Seq(Offset) /\ Len(free') \in Chunk /\ f.chunk <= Len(free')
  <2>1. Len(free) \in Chunk /\ Len(free) \in Nat /\ free \in Seq(Offset) /\ iter.chunk <= Len(free)
    BY <1>1, ConstantsAre DEF Types, Storage
  <2>2. CASE f.chunk <= Len(free)
    BY <1>5, <2>1, <2>2
  <2>3. CASE ~ (f.chunk <= Len(free))
    <3>1. f.chunk = Len(free) + 1
      BY <1>3, <1>8, <2>1, <2>3
    <3>2. free' = Append(free, 0)
      BY <1>5, <2>3
    <3>3. free' \in Seq(Offset) /\ Len(free') = Len(free) + 1
      BY <2>1, <3>2, ConstantsAre
    <3>. QED BY <1>8, <3>1, <3>3
  <2>. QED BY <2>2, <2>3
<1>15. \A p \in RangeOf(kept) :
          /\ p \in Id /\ p # o /\ p \in live /\ Size(p) \in Nat
          /\ fwd[p] \in Addr /\ fwd[p].chunk \in Nat /\ fwd[p].off \in Nat /\ fwd[p].chunk \in Chunk
          /\ Fits(fwd[p], Size(p)) /\ Ahead(fwd[p], Size(p), iter) /\ fwd'[p] = fwd[p]
  <2>1. \A p \in RangeOf(kept) : p # o
    BY <1>1, KeptIs
  <2>. QED BY <1>1, <1>12, <2>1, KeptIs, AddrIs DEF Storage
<1>16. \A p \in RangeOf(kept) : Ahead(fwd[p], Size(p), f)
  BY <1>2, <1>3, <1>8, <1>15 DEF Ahead
<1>17. \A p \in RangeOf(kept) : Ahead(fwd[p], Size(p), iter')
  BY <1>2, <1>8, <1>9, <1>10, <1>15, <1>16, AheadTransitive
<1>18. Storage'
  <2>1. \A p \in Id : fwd'[p] # Nil <=> p \in RangeOf(kept')
    BY <1>1, <1>8, <1>11, <1>12 DEF Storage
  <2>2. \A p \in RangeOf(kept') : p \in live /\ Fits(fwd'[p], Size(p))
    BY <1>10, <1>11, <1>12, <1>15
  <2>3. ASSUME NEW i \in 1 .. Len(kept'), NEW j \in 1 .. Len(kept'), i < j
        PROVE  Ahead(fwd'[kept'[i]], Size(kept'[i]), fwd'[kept'[j]])
    <3>1. i \in 1 .. Len(kept) /\ (j \in 1 .. Len(kept) \/ j = Len(kept) + 1)
      BY <1>11, <2>3
    <3>2. \A l \in 1 .. Len(kept) : kept[l] \in RangeOf(kept)
      BY <1>1, KeptIs
    <3>3. kept'[i] = kept[i] /\ fwd'[kept[i]] = fwd[kept[i]]
      BY <1>11, <1>15, <3>1, <3>2
    <3>4. CASE j \in 1 .. Len(kept)
      <4>1. kept'[j] = kept[j] /\ fwd'[kept[j]] = fwd[kept[j]]
        BY <1>11, <1>15, <3>2, <3>4
      <4>2. Ahead(fwd[kept[i]], Size(kept[i]), fwd[kept[j]])
        BY <1>1, <2>3, <3>1, <3>4 DEF Storage
      <4>. QED BY <3>3, <4>1, <4>2
    <3>5. CASE j = Len(kept) + 1
      BY <1>11, <1>12, <1>16, <3>1, <3>2, <3>3, <3>5
    <3>. QED BY <3>1, <3>4, <3>5
  <2>4. ASSUME NEW p \in RangeOf(kept')
        PROVE  /\ Ahead(fwd'[p], Size(p), iter')
               /\ fwd'[p].chunk < iter'.chunk => fwd'[p].off + Size(p) <= visited_end'[fwd'[p].chunk]
    <3>1. CASE p = o
      BY <1>8, <1>9, <1>10, <1>12, <3>1
    <3>2. CASE p \in RangeOf(kept)
      <4>1. fwd'[p] = fwd[p] /\ Ahead(fwd[p], Size(p), iter')
        BY <1>15, <1>17, <3>2
      <4>2. ASSUME fwd[p].chunk < iter'.chunk
            PROVE  fwd[p].off + Size(p) <= visited_end'[fwd[p].chunk]
        <5>1. fwd[p].chunk < iter.chunk => fwd[p].off + Size(p) <= visited_end[fwd[p].chunk]
          BY <1>1, <3>2 DEF Storage
        <5>2. CASE Stays(o)
          BY <1>5, <1>8, <1>9, <4>2, <5>1, <5>2
        <5>3. CASE ~ Stays(o)
          <6>1. \A c \in Chunk : visited_end'[c] = IF c = iter.chunk THEN iter.off ELSE visited_end[c]
            BY <1>1, <1>3, <1>5, <5>3 DEF Types
          <6>2. fwd[p].chunk < iter.chunk \/ fwd[p].chunk = iter.chunk
            BY <1>3, <1>8, <1>9, <1>15, <3>2, <4>2, <5>3
          <6>3. fwd[p].chunk = iter.chunk => fwd[p].off + Size(p) <= iter.off
            BY <1>3, <1>15, <3>2 DEF Ahead
          <6>. QED BY <1>3, <1>15, <3>2, <5>1, <6>1, <6>2, <6>3
        <5>. QED BY <5>2, <5>3
      <4>. QED BY <4>1, <4>2
    <3>. QED BY <1>11, <3>1, <3>2
  <2>5. ASSUME NEW c \in 1 .. iter'.chunk - 1
        PROVE  /\ visited_end'[c] \in Offset
               /\ \E p \in RangeOf(kept') :
                     fwd'[p].chunk = c /\ fwd'[p].off + Size(p) = visited_end'[c]
    <3>1. CASE c \in 1 .. iter.chunk - 1
      <4>1. visited_end[c] \in Offset
        BY <1>1, <3>1 DEF Storage
      <4>2. PICK p \in RangeOf(kept) : fwd[p].chunk = c /\ fwd[p].off + Size(p) = visited_end[c]
        BY <1>1, <3>1 DEF Storage
      <4>3. visited_end'[c] = visited_end[c]
        <5>1. c # iter.chunk /\ c \in Chunk
          BY <1>3, <1>15, <3>1, <4>2
        <5>. QED BY <1>1, <1>5, <5>1 DEF Types
      <4>. QED BY <1>11, <1>15, <4>1, <4>2, <4>3
    <3>2. CASE c \notin 1 .. iter.chunk - 1
      <4>1. c = iter.chunk /\ ~ Stays(o)
        BY <1>3, <1>8, <1>9, <3>2
      <4>2. visited_end'[c] = iter.off
        BY <1>1, <1>3, <1>5, <4>1 DEF Types
      <4>3. iter # [chunk |-> 1, off |-> 0]
        <5>1. iter.off # 0
          BY <1>2, <4>1 DEF Stays
        <5>. QED BY <5>1
      <4>4. PICK p \in RangeOf(kept) : fwd[p].chunk = iter.chunk /\ fwd[p].off + Size(p) = iter.off
        BY <1>1, <4>3 DEF Storage
      <4>. QED BY <1>3, <1>11, <1>15, <4>1, <4>2, <4>4
    <3>. QED BY <3>1, <3>2
  <2>6. o \in RangeOf(kept') /\ fwd'[o].chunk = iter'.chunk /\ fwd'[o].off + Size(o) = iter'.off
    BY <1>9, <1>11, <1>12
  <2>7. ASSUME NEW j \in 1 .. Len(kept')
        PROVE  \E i \in 1 .. j : kept'[i] = class[kept'[j]]
    <3>1. CASE j \in 1 .. Len(kept)
      <4>1. PICK i \in 1 .. j : kept[i] = class[kept[j]]
        BY <1>1, <3>1 DEF Storage
      <4>2. i \in 1 .. Len(kept)
        BY <1>11, <3>1
      <4>. QED BY <1>11, <3>1, <4>1, <4>2
    <3>2. CASE j = Len(kept) + 1
      <4>1. CASE class[o] = o
        BY <1>11, <3>2, <4>1
      <4>2. CASE class[o] \in RangeOf(kept)
        <5>1. PICK i \in 1 .. Len(kept) : kept[i] = class[o]
          BY <4>2 DEF RangeOf
        <5>. QED BY <1>11, <3>2, <5>1
      <4>. QED BY <4>1, <4>2
    <3>. QED BY <1>11, <3>1, <3>2
  <2>8. iter'.chunk <= Len(free')
    BY <1>9, <1>14
  <2>. QED BY <2>1, <2>2, <2>3, <2>4, <2>5, <2>6, <2>7, <2>8 DEF Storage, Size, Ahead, Fits
<1>19. \A p \in Id : fwd[p] # Nil => Ahead(fwd[p], Size(p), f)
  BY <1>1, <1>16, KeptIs
<1>. QED BY <1>8, <1>9, <1>10, <1>11, <1>12, <1>13, <1>14, <1>18, <1>19 DEF f

LEMMA ReallocOldInv ==
  ASSUME CompactionInv, ReallocOld
  PROVE  CompactionInv'
<1>1. /\ Types /\ Objects /\ Layout /\ Walks /\ Storage /\ Survivors /\ InOrder /\ Contents
      /\ NeverMovesUp
  BY DEF CompactionInv
<1>2. pc = "realloc_old" /\ walk = old /\ pc # "run"
  BY <1>1 DEF ReallocOld, Walks
<1>3. UNCHANGED <<class, live, mid, old, young, addr, cell, meta, stay, clsptr, this_chunk>>
  BY DEF ReallocOld
<1>4. \A j \in 1 .. Len(old) : old[j] \in RangeOf(old) /\ old[j] \in Id
  BY <1>1, InRange DEF Types
<1>5. \A j \in 1 .. Len(young) : young[j] \in RangeOf(young) /\ young[j] \in Id
  BY <1>1, InRange DEF Types, Id
<1>6. at \in Nat /\ 1 <= at /\ at <= Len(old) + 1 /\ Len(old) \in Nat /\ Len(young) \in Nat
  BY <1>1, <1>2 DEF Types
<1>7. Objects' /\ Layout'
  BY <1>1, <1>3, HeapKept DEF Heap
<1>8. pc' # "run" /\ Settled' /\ pc' # "lost" /\ LiveWalksOn' /\ Moving' /\ pc' \in Phase
  BY <1>2 DEF ReallocOld, Settled, LiveWalksOn, Moving, Phase
<1>9. Contents'
  <2>1. pc' \in {"realloc_old", "realloc_young"}
    BY <1>2 DEF ReallocOld
  <2>. QED BY <1>1, <1>2, <1>3, <2>1 DEF Contents, Whole, Units, Size
<1>10. CASE Walking
  <2> DEFINE o == old[at]
  <2>1. at \in 1 .. Len(old) /\ o \in RangeOf(old) /\ o \in Id
    BY <1>2, <1>4, <1>6, <1>10 DEF Walking
  <2>2. pc' = pc /\ walk' = walk /\ at' = at + 1
    BY <1>2, <1>10 DEF ReallocOld
  <2>3. Walks'
    BY <1>1, <1>2, <1>3, <2>2 DEF Walks
  <2>4. at' \in 1 .. Len(walk') + 1
    BY <1>2, <1>6, <2>1, <2>2
  <2>5. addr[o] \in Addr /\ Fits(addr[o], Size(o)) /\ Size(o) \in Nat /\ 1 <= Size(o)
        /\ addr[o].chunk \in Nat /\ addr[o].off \in Nat
    BY <1>1, <2>1, OldIs, AddrIs
  <2>6. IsBefore(iter, addr[o])
    BY <1>1, <1>2, <1>10 DEF NeverMovesUp
  <2>7. iter \in Addr /\ iter.chunk \in Nat /\ iter.off \in Nat
    BY <1>1, AddrIs DEF Types
  <2>8. ASSUME at + 1 <= Len(old)
        PROVE  /\ addr[old[at + 1]] \in Addr /\ addr[old[at + 1]].chunk \in Nat
               /\ addr[old[at + 1]].off \in Nat /\ Ahead(addr[o], Size(o), addr[old[at + 1]])
    <3>1. at + 1 \in 1 .. Len(old)
      BY <1>6, <2>8
    <3>2. Ahead(addr[old[at]], Size(old[at]), addr[old[at + 1]])
      BY <1>1, <1>6, <2>1, <3>1 DEF Layout
    <3>. QED BY <1>1, <1>4, <3>1, <3>2, OldIs, AddrIs
  <2>9. \A j \in 1 .. Len(old) : old[j] = o => j = at
    BY <1>1, <2>1, OldIs
  <2>10. CASE o \in live
    <3>1. FakeAlloc(o)
      BY <1>2, <1>10, <2>10 DEF ReallocOld, Realloc
    <3>2. fwd[o] = Nil
      BY <1>1, <1>2, <1>6, <2>1 DEF Survivors
    <3>3. class[o] \in RangeOf(kept) \/ class[o] = o
      <4>1. PICK i \in 1 .. at : old[i] = class[o]
        BY <1>1, <2>1, <2>10 DEF Objects
      <4>2. CASE i = at
        BY <4>1, <4>2
      <4>3. CASE i # at
        <5>1. i \in 1 .. Len(old) /\ i < at /\ old[i] \in live
          BY <1>1, <1>6, <2>10, <4>1, <4>3, ClassIs
        <5>2. fwd[old[i]] # Nil
          BY <1>1, <1>2, <5>1 DEF Survivors
        <5>. QED BY <1>1, <1>2, <1>4, <4>1, <5>1, <5>2, KeptIs
      <4>. QED BY <4>2, <4>3
    <3> DEFINE f == Forward(o)
    <3>4. /\ kept' \in Seq(Id) /\ fwd' \in [Id -> Addr \cup {Nil}] /\ iter' \in Addr
          /\ visited_end' \in [Chunk -> Offset \cup {Nil}]
          /\ free' \in Seq(Offset) /\ Len(free') \in Chunk
          /\ \A p \in Id : p # o => fwd'[p] = fwd[p]
          /\ fwd'[o] = f /\ f \in Addr /\ fwd'[o] # Nil
          /\ iter'.chunk = f.chunk /\ iter'.off = f.off + Size(o)
          /\ \A p \in Id : fwd[p] # Nil => Ahead(fwd[p], Size(p), f)
          /\ Storage'
      BY <1>2, <1>3, <1>8, <2>10, <3>1, <3>2, <3>3, FakeAllocGives
    <3>5. Types'
      BY <1>1, <1>3, <1>8, <2>2, <2>4, <3>4 DEF Types
    <3>6. IsBefore(f, addr[o]) /\ f.chunk \in Nat /\ f.off \in Nat
      <4>1. CASE Stays(o)
        BY <2>6, <2>7, <4>1 DEF Forward
      <4>2. CASE ~ Stays(o)
        <5>1. f.chunk = iter.chunk + 1 /\ f.off = 0
          BY <4>2 DEF Forward
        <5>2. ~ (iter.off + Size(o) < ChunkCap) /\ addr[o].off + Size(o) < ChunkCap
          BY <2>5, <4>2 DEF Stays, Fits
        <5>3. iter.chunk < addr[o].chunk
          BY <2>5, <2>6, <2>7, <5>2, ConstantsAre DEF IsBefore
        <5> HIDE DEF f
        <5>. QED BY <2>5, <2>7, <5>1, <5>3 DEF IsBefore
      <4>. QED BY <4>1, <4>2
    <3> HIDE DEF f
    <3>7. NeverMovesUp'
      <4>1. \A p \in RangeOf(old) : fwd'[p] # Nil => IsBefore(fwd'[p], addr[p])
        BY <1>1, <3>4, <3>6, OldIs DEF NeverMovesUp
      <4>2. ASSUME at + 1 <= Len(old) PROVE IsBefore(iter', addr[old[at + 1]])
        <5>1. Ahead(f, Size(o), addr[old[at + 1]])
          BY <2>5, <2>8, <3>4, <3>6, <4>2, BeforeAhead
        <5>2. iter'.chunk \in Nat /\ iter'.off \in Nat
          BY <3>4, AddrIs
        <5>. QED BY <3>4, <5>1, <5>2 DEF IsBefore, Ahead
      <4>. QED BY <1>2, <1>3, <2>2, <4>1, <4>2 DEF NeverMovesUp, Walking
    <3>8. Survivors'
      <4>1. \A j \in 1 .. Len(old) : fwd'[old[j]] # Nil <=> old[j] \in live /\ j < at + 1
        <5>1. ASSUME NEW j \in 1 .. Len(old), j # at
              PROVE  fwd'[old[j]] # Nil <=> old[j] \in live /\ j < at + 1
          <6>1. fwd'[old[j]] = fwd[old[j]]
            BY <1>4, <2>9, <3>4, <5>1
          <6>. QED BY <1>1, <1>2, <1>6, <5>1, <6>1 DEF Survivors
        <5>2. fwd'[old[at]] # Nil /\ old[at] \in live /\ at < at + 1
          BY <1>6, <2>10, <3>4
        <5>. QED BY <5>1, <5>2
      <4>2. \A j \in 1 .. Len(young) : fwd'[young[j]] = Nil
        BY <1>1, <1>2, <1>5, <2>1, <3>4 DEF Survivors, Objects
      <4>. QED BY <1>1, <1>2, <1>3, <2>2, <4>1, <4>2 DEF Survivors
    <3>9. InOrder'
      <4>1. ASSUME NEW i \in 1 .. Len(old), NEW j \in 1 .. Len(old), i < j,
                   fwd'[old[i]] # Nil, fwd'[old[j]] # Nil
            PROVE  Ahead(fwd'[old[i]], Size(old[i]), fwd'[old[j]])
        <5>1. j < at + 1 /\ i # at /\ i < at
          BY <1>2, <1>3, <1>6, <2>2, <3>8, <4>1 DEF Survivors
        <5>2. old[i] # o /\ fwd'[old[i]] = fwd[old[i]]
          BY <1>4, <2>9, <3>4, <5>1
        <5>3. CASE j = at
          BY <1>4, <3>4, <4>1, <5>2, <5>3
        <5>4. CASE j # at
          <6>1. fwd'[old[j]] = fwd[old[j]]
            BY <1>4, <2>9, <3>4, <5>4
          <6>. QED BY <1>1, <1>2, <4>1, <5>2, <6>1 DEF InOrder
        <5>. QED BY <5>3, <5>4
      <4>2. \A j \in 1 .. Len(young) : fwd'[young[j]] = Nil
        BY <1>2, <1>3, <2>2, <3>8 DEF Survivors
      <4>. QED BY <1>3, <4>1, <4>2 DEF InOrder, Size, Ahead
    <3>. QED BY <1>7, <1>8, <1>9, <2>3, <3>4, <3>5, <3>7, <3>8, <3>9 DEF CompactionInv
  <2>11. CASE o \notin live
    <3>1. UNCHANGED <<kept, fwd, iter, visited_end, free>>
      BY <1>2, <1>10, <2>11 DEF ReallocOld, Realloc
    <3>2. Types'
      BY <1>1, <1>3, <1>8, <2>2, <2>4, <3>1 DEF Types
    <3>3. Storage' /\ InOrder'
      BY <1>1, <1>2, <1>3, <2>2, <3>1 DEF Storage, InOrder, Size, Fits, Ahead
    <3>4. Survivors'
      <4>1. \A j \in 1 .. Len(old) : fwd[old[j]] # Nil <=> old[j] \in live /\ j < at + 1
        <5>1. \A j \in 1 .. Len(old) : fwd[old[j]] # Nil <=> old[j] \in live /\ j < at
          BY <1>1, <1>2 DEF Survivors
        <5>. QED BY <1>6, <2>11, <5>1
      <4>. QED BY <1>1, <1>2, <1>3, <2>2, <3>1, <4>1 DEF Survivors
    <3>5. NeverMovesUp'
      <4>1. ASSUME at + 1 <= Len(old) PROVE IsBefore(iter, addr[old[at + 1]])
        BY <2>5, <2>6, <2>7, <2>8, <4>1 DEF IsBefore, Ahead
      <4>. QED BY <1>1, <1>2, <1>3, <2>2, <3>1, <4>1 DEF NeverMovesUp, Walking
    <3>. QED BY <1>7, <1>8, <1>9, <2>3, <3>2, <3>3, <3>4, <3>5 DEF CompactionInv
  <2>. QED BY <2>10, <2>11
<1>11. CASE ~ Walking
  <2>1. walk' = young /\ at' = 1 /\ pc' = "realloc_young"
        /\ UNCHANGED <<kept, fwd, iter, visited_end, free>>
    BY <1>11 DEF ReallocOld
  <2>2. at = Len(old) + 1
    BY <1>2, <1>6, <1>11 DEF Walking
  <2>3. Types'
    <3>1. young \in Seq(Id) /\ 1 \in 1 .. Len(young) + 1
      BY <1>1, <1>6 DEF Types, Id
    <3>. QED BY <1>1, <1>3, <1>8, <2>1, <3>1 DEF Types
  <2>4. Walks'
    BY <1>1, <1>2, <1>3, <2>1 DEF Walks
  <2>5. Storage' /\ InOrder'
    BY <1>1, <1>2, <1>3, <2>1 DEF Storage, InOrder, Size, Fits, Ahead
  <2>6. Survivors'
    <3>1. \A j \in 1 .. Len(old) : fwd[old[j]] # Nil <=> old[j] \in live
      BY <1>1, <1>2, <1>6, <2>2 DEF Survivors
    <3>2. \A j \in 1 .. Len(young) : fwd[young[j]] # Nil <=> young[j] \in mid /\ j < 1
      BY <1>1, <1>2, <1>6 DEF Survivors
    <3>3. Len(stay) = 0 /\ 1 .. at' - 1 = {}
      BY <1>1, <1>2, <2>1 DEF Survivors
    <3>. QED BY <1>2, <1>3, <2>1, <3>1, <3>2, <3>3 DEF Survivors
  <2>7. NeverMovesUp'
    BY <1>1, <1>3, <2>1 DEF NeverMovesUp
  <2>. QED BY <1>7, <1>8, <1>9, <2>3, <2>4, <2>5, <2>6, <2>7 DEF CompactionInv
<1>. QED BY <1>10, <1>11

LEMMA ReallocYoungInv ==
  ASSUME CompactionInv, ReallocYoung
  PROVE  CompactionInv'
<1>1. /\ Types /\ Objects /\ Layout /\ Walks /\ Storage /\ Survivors /\ InOrder /\ Contents
      /\ NeverMovesUp
  BY DEF CompactionInv
<1>2. pc = "realloc_young" /\ walk = young /\ pc # "run"
  BY <1>1 DEF ReallocYoung, Walks
<1>3. UNCHANGED <<class, live, mid, old, young, addr, cell, meta>>
  BY DEF ReallocYoung
<1>4. \A j \in 1 .. Len(old) : old[j] \in RangeOf(old) /\ old[j] \in Id
  BY <1>1, InRange DEF Types
<1>5. \A j \in 1 .. Len(young) : young[j] \in RangeOf(young) /\ young[j] \in Id /\ young[j] \in Insts
  BY <1>1, InRange DEF Types, Id
<1>6. at \in Nat /\ 1 <= at /\ at <= Len(young) + 1 /\ Len(old) \in Nat /\ Len(young) \in Nat
  BY <1>1, <1>2 DEF Types
<1>7. Objects' /\ Layout'
  BY <1>1, <1>3, HeapKept DEF Heap
<1>8. pc' # "run" /\ Settled' /\ pc' # "lost" /\ LiveWalksOn' /\ pc' \in Phase
  BY <1>2 DEF ReallocYoung, Settled, LiveWalksOn, Phase
<1>9. mid \subseteq live \cap RangeOf(young)
  BY <1>1, <1>2 DEF Walks
<1>10. CASE Walking
  <2> DEFINE o == young[at]
  <2>1. at \in 1 .. Len(young) /\ o \in RangeOf(young) /\ o \in Id /\ o \in Insts
    BY <1>2, <1>5, <1>6, <1>10 DEF Walking
  <2>2. pc' = pc /\ walk' = walk /\ at' = at + 1 /\ UNCHANGED <<clsptr, this_chunk>>
    BY <1>2, <1>10 DEF ReallocYoung
  <2>3. Walks' /\ Contents' /\ Moving'
    BY <1>1, <1>2, <1>3, <2>2 DEF Walks, Contents, Moving, Whole, Units, Size
  <2>4. at' \in 1 .. Len(walk') + 1
    BY <1>2, <1>6, <2>1, <2>2
  <2>5. ReallocYoungOne(o)
    BY <1>2, <1>10 DEF ReallocYoung
  <2>6. \A j \in 1 .. Len(young) : young[j] = o => j = at
    BY <1>1, <2>1 DEF Objects
  <2>7. o \notin RangeOf(old)
    BY <1>1, <2>1 DEF Objects
  <2>8. /\ stay' \in Seq(Insts)
        /\ \A i \in 1 .. Len(stay') : \E j \in 1 .. at : stay'[i] = young[j]
        /\ \A j \in 1 .. at : young[j] \in live \ mid => young[j] \in RangeOf(stay')
        /\ \A i \in 1 .. Len(stay') : stay'[i] \in live \ mid /\ stay'[i] \in RangeOf(young)
        /\ \A i, j \in 1 .. Len(stay') : i # j => stay'[i] # stay'[j]
    <3>1. /\ stay \in Seq(Insts)
          /\ \A i \in 1 .. Len(stay) : \E j \in 1 .. at - 1 : stay[i] = young[j]
          /\ \A j \in 1 .. at - 1 : young[j] \in live \ mid => young[j] \in RangeOf(stay)
          /\ \A i \in 1 .. Len(stay) : stay[i] \in live \ mid /\ stay[i] \in RangeOf(young)
          /\ \A i, j \in 1 .. Len(stay) : i # j => stay[i] # stay[j]
      BY <1>1, <1>2 DEF Types, Survivors
    <3>2. \A i \in 1 .. Len(stay) : stay[i] # o
      BY <1>6, <2>1, <2>6, <3>1
    <3>3. \A j \in 1 .. at - 1 : j \in 1 .. at
      BY <1>6
    <3>4. CASE o \in live \ mid
      <4>1. stay' = Append(stay, o)
        BY <2>5, <3>4 DEF ReallocYoungOne
      <4>2. /\ stay' \in Seq(Insts) /\ Len(stay') = Len(stay) + 1 /\ Len(stay) \in Nat
            /\ \A j \in 1 .. Len(stay) : stay'[j] = stay[j]
            /\ stay'[Len(stay) + 1] = o
            /\ RangeOf(stay') = RangeOf(stay) \cup {o}
        BY <2>1, <3>1, <4>1, AppendIs
      <4>3. at \in 1 .. at
        BY <1>6
      <4>4. \A i \in 1 .. Len(stay') : i \in 1 .. Len(stay) \/ i = Len(stay) + 1
        BY <4>2
      <4>5. \A i \in 1 .. Len(stay') : \E j \in 1 .. at : stay'[i] = young[j]
        BY <3>1, <3>3, <4>2, <4>3, <4>4
      <4>6. \A i \in 1 .. Len(stay') : stay'[i] \in live \ mid /\ stay'[i] \in RangeOf(young)
        BY <2>1, <3>1, <3>4, <4>2, <4>4
      <4>7. \A i, j \in 1 .. Len(stay') : i # j => stay'[i] # stay'[j]
        BY <3>1, <3>2, <4>2, <4>4
      <4>8. \A j \in 1 .. at : j \in 1 .. at - 1 \/ j = at
        BY <1>6
      <4>9. \A j \in 1 .. at : young[j] \in live \ mid => young[j] \in RangeOf(stay')
        BY <3>1, <4>2, <4>8
      <4>. QED BY <4>2, <4>5, <4>6, <4>7, <4>9
    <3>5. CASE o \notin live \ mid
      <4>1. stay' = stay
        BY <2>5, <3>5 DEF ReallocYoungOne
      <4>2. \A j \in 1 .. at : j \in 1 .. at - 1 \/ j = at
        BY <1>6
      <4>. QED BY <3>1, <3>3, <3>5, <4>1, <4>2
    <3>. QED BY <3>4, <3>5
  <2>9. /\ \A i \in 1 .. Len(stay') : \E j \in 1 .. at' - 1 : stay'[i] = young[j]
        /\ \A j \in 1 .. at' - 1 : young[j] \in live \ mid => young[j] \in RangeOf(stay')
    <3>1. at' - 1 = at
      BY <1>6, <2>2
    <3>. QED BY <2>8, <3>1
  <2>10. CASE o \in mid
    <3>1. FakeAlloc(o) /\ o \in live
      BY <1>9, <2>5, <2>10 DEF ReallocYoungOne, Realloc
    <3>2. fwd[o] = Nil
      BY <1>1, <1>2, <1>6, <2>1 DEF Survivors
    <3>3. class[o] \in RangeOf(kept)
      <4>1. class[o] \in RangeOf(old) /\ class[o] \in live
        BY <1>1, <3>1, ClassIs
      <4>2. PICK j \in 1 .. Len(old) : old[j] = class[o]
        BY <4>1 DEF RangeOf
      <4>3. fwd[class[o]] # Nil
        BY <1>1, <1>2, <4>1, <4>2 DEF Survivors
      <4>. QED BY <1>1, <1>2, <1>4, <4>2, <4>3, KeptIs
    <3> DEFINE f == Forward(o)
    <3>4. /\ kept' \in Seq(Id) /\ fwd' \in [Id -> Addr \cup {Nil}] /\ iter' \in Addr
          /\ visited_end' \in [Chunk -> Offset \cup {Nil}]
          /\ free' \in Seq(Offset) /\ Len(free') \in Chunk
          /\ \A p \in Id : p # o => fwd'[p] = fwd[p]
          /\ fwd'[o] = f /\ f \in Addr /\ fwd'[o] # Nil
          /\ \A p \in Id : fwd[p] # Nil => Ahead(fwd[p], Size(p), f)
          /\ Storage'
      BY <1>2, <1>3, <1>8, <3>1, <3>2, <3>3, FakeAllocGives
    <3>5. Types'
      BY <1>1, <1>3, <1>8, <2>2, <2>4, <2>8, <3>4 DEF Types
    <3> HIDE DEF f
    <3>6. \A j \in 1 .. Len(old) : old[j] # o /\ fwd'[old[j]] = fwd[old[j]]
      BY <1>4, <2>7, <3>4
    <3>7. \A j \in 1 .. Len(young) : j # at => young[j] # o /\ fwd'[young[j]] = fwd[young[j]]
      BY <1>5, <2>6, <3>4
    <3>8. NeverMovesUp'
      <4>1. \A p \in RangeOf(old) : fwd'[p] # Nil => IsBefore(fwd'[p], addr[p])
        BY <1>1, <2>7, <3>4, OldIs DEF NeverMovesUp
      <4>. QED BY <1>2, <1>3, <2>2, <4>1 DEF NeverMovesUp
    <3>9. Survivors'
      <4>1. \A j \in 1 .. Len(old) : fwd'[old[j]] # Nil <=> old[j] \in live
        BY <1>1, <1>2, <3>6 DEF Survivors
      <4>2. \A j \in 1 .. Len(young) : fwd'[young[j]] # Nil <=> young[j] \in mid /\ j < at + 1
        <5>1. ASSUME NEW j \in 1 .. Len(young), j # at
              PROVE  fwd'[young[j]] # Nil <=> young[j] \in mid /\ j < at + 1
          BY <1>1, <1>2, <1>6, <3>7, <5>1 DEF Survivors
        <5>2. fwd'[young[at]] # Nil /\ young[at] \in mid /\ at < at + 1
          BY <1>6, <2>10, <3>4
        <5>. QED BY <5>1, <5>2
      <4>. QED BY <1>1, <1>2, <1>3, <2>2, <2>8, <2>9, <4>1, <4>2 DEF Survivors
    <3>10. InOrder'
      <4>1. \A i, j \in 1 .. Len(old) :
              i < j /\ fwd'[old[i]] # Nil /\ fwd'[old[j]] # Nil
              => Ahead(fwd'[old[i]], Size(old[i]), fwd'[old[j]])
        BY <1>1, <1>2, <3>6 DEF InOrder
      <4>2. ASSUME NEW i \in 1 .. Len(young), NEW j \in 1 .. Len(young), i < j,
                   fwd'[young[i]] # Nil, fwd'[young[j]] # Nil
            PROVE  Ahead(fwd'[young[i]], Size(young[i]), fwd'[young[j]])
        <5>1. j < at + 1 /\ i # at /\ i < at
          BY <1>2, <1>3, <1>6, <2>2, <3>9, <4>2 DEF Survivors
        <5>2. fwd'[young[i]] = fwd[young[i]]
          BY <3>7, <5>1
        <5>3. CASE j = at
          BY <1>5, <3>4, <4>2, <5>2, <5>3
        <5>4. CASE j # at
          <6>1. fwd'[young[j]] = fwd[young[j]]
            BY <3>7, <5>4
          <6>. QED BY <1>1, <1>2, <4>2, <5>2, <6>1 DEF InOrder
        <5>. QED BY <5>3, <5>4
      <4>3. ASSUME NEW i \in 1 .. Len(old), NEW j \in 1 .. Len(young),
                   fwd'[old[i]] # Nil, fwd'[young[j]] # Nil
            PROVE  Ahead(fwd'[old[i]], Size(old[i]), fwd'[young[j]])
        <5>1. fwd'[old[i]] = fwd[old[i]]
          BY <3>6
        <5>2. CASE j = at
          BY <1>4, <3>4, <4>3, <5>1, <5>2
        <5>3. CASE j # at
          <6>1. fwd'[young[j]] = fwd[young[j]]
            BY <3>7, <5>3
          <6>. QED BY <1>1, <1>2, <4>3, <5>1, <6>1 DEF InOrder
        <5>. QED BY <5>2, <5>3
      <4>. QED BY <1>3, <4>1, <4>2, <4>3 DEF InOrder, Size, Ahead
    <3>. QED BY <1>7, <1>8, <2>3, <3>4, <3>5, <3>8, <3>9, <3>10 DEF CompactionInv
  <2>11. CASE o \notin mid
    <3>1. UNCHANGED <<kept, fwd, iter, visited_end, free>>
      BY <2>5, <2>11 DEF ReallocYoungOne, Realloc
    <3>2. Types'
      BY <1>1, <1>3, <1>8, <2>2, <2>4, <2>8, <3>1 DEF Types
    <3>3. Storage' /\ InOrder'
      BY <1>1, <1>2, <1>3, <2>2, <3>1 DEF Storage, InOrder, Size, Fits, Ahead
    <3>4. Survivors'
      <4>1. \A j \in 1 .. Len(young) : fwd[young[j]] # Nil <=> young[j] \in mid /\ j < at + 1
        <5>1. \A j \in 1 .. Len(young) : fwd[young[j]] # Nil <=> young[j] \in mid /\ j < at
          BY <1>1, <1>2 DEF Survivors
        <5>. QED BY <1>6, <2>11, <5>1
      <4>2. \A j \in 1 .. Len(old) : fwd[old[j]] # Nil <=> old[j] \in live
        BY <1>1, <1>2 DEF Survivors
      <4>. QED BY <1>1, <1>2, <1>3, <2>2, <2>8, <2>9, <3>1, <4>1, <4>2 DEF Survivors
    <3>5. NeverMovesUp'
      BY <1>1, <1>2, <1>3, <2>2, <3>1 DEF NeverMovesUp
    <3>. QED BY <1>7, <1>8, <2>3, <3>2, <3>3, <3>4, <3>5 DEF CompactionInv
  <2>. QED BY <2>10, <2>11
<1>11. CASE ~ Walking
  <2>1. walk' = old /\ at' = 1 /\ pc' = "move_old" /\ this_chunk' = 1 /\ UpdateClasses
        /\ UNCHANGED <<kept, stay, fwd, iter, visited_end, free>>
    BY <1>2, <1>11 DEF ReallocYoung
  <2>2. at = Len(young) + 1
    BY <1>2, <1>6, <1>11 DEF Walking
  <2>3. clsptr' = [o \in Id |-> IF o \in live THEN fwd[class[o]] ELSE clsptr[o]]
    BY <2>1 DEF UpdateClasses
  <2>4. Types'
    <3>1. clsptr' \in [Id -> Addr \cup {Nil}]
      BY <1>1, <2>3, ClassIs DEF Types
    <3>2. 1 \in 1 .. Len(old) + 1
      BY <1>6
    <3>. QED BY <1>1, <1>3, <1>8, <2>1, <3>1, <3>2, ConstantsAre DEF Types
  <2>5. Walks'
    BY <1>1, <1>2, <1>3, <2>1 DEF Walks
  <2>6. Storage' /\ InOrder'
    BY <1>1, <1>2, <1>3, <2>1 DEF Storage, InOrder, Size, Fits, Ahead
  <2>7. \A j \in 1 .. Len(old) : fwd[old[j]] # Nil <=> old[j] \in live
    BY <1>1, <1>2 DEF Survivors
  <2>8. \A j \in 1 .. Len(young) :
           /\ fwd[young[j]] # Nil <=> young[j] \in mid
           /\ young[j] \in live \ mid => young[j] \in RangeOf(stay)
    BY <1>1, <1>2, <1>6, <2>2 DEF Survivors
  <2>9. Survivors'
    BY <1>1, <1>2, <1>3, <2>1, <2>7, <2>8 DEF Survivors
  <2>10. NeverMovesUp'
    BY <1>1, <1>3, <2>1 DEF NeverMovesUp
  <2>11. \A o \in Id : fwd[o] # Nil => fwd[o].chunk >= 1
    BY <1>1, AddrIs, ConstantsAre DEF Types, Chunk
  <2>12. Moving'
    <3>1. \A o \in live : o \in Id
      BY <1>1 DEF Types
    <3>2. \A o \in live : clsptr'[o] = fwd[class[o]]
      BY <2>3, <3>1
    <3>3. \A o \in mid : fwd[o].chunk >= 1
      <4>1. ASSUME NEW o \in mid PROVE fwd[o] # Nil /\ o \in Id
        <5>1. PICK j \in 1 .. Len(young) : young[j] = o
          BY <1>9 DEF RangeOf
        <5>. QED BY <1>5, <2>8, <5>1
      <4>. QED BY <2>11, <4>1
    <3>4. \A j \in 1 .. Len(old) : old[j] \in live => fwd[old[j]].chunk >= 1
      BY <1>4, <2>7, <2>11
    <3>5. 1 .. at' - 1 = {}
      BY <2>1
    <3>. QED BY <1>3, <2>1, <3>2, <3>3, <3>4, <3>5 DEF Moving
  <2>13. Contents'
    <3>1. \A j \in 1 .. Len(old) : old[j] \in live => Whole(addr[old[j]], old[j]) /\ ~ (j < 1)
      BY <1>1, <1>2, <1>4 DEF Contents
    <3>2. \A j \in 1 .. Len(old) : old[j] \in live => (Whole(addr[old[j]], old[j]))' /\ ~ (j < 1)
      BY <1>3, <3>1 DEF Whole, Units, Size
    <3>. QED BY <1>3, <2>1, <3>2 DEF Contents, Whole, Units, Size
  <2>. QED BY <1>7, <1>8, <2>4, <2>5, <2>6, <2>9, <2>10, <2>12, <2>13 DEF CompactionInv
<1>. QED BY <1>10, <1>11

-----------------------------------------------------------------------------
\* Moving one object.

\* The cells of the new storage get the content, and cells before or behind
\* the new storage keep theirs.
LEMMA MoveCellsGives ==
  ASSUME DOMAIN cell = Addr, NEW o, Size(o) \in Nat, Fits(fwd[o], Size(o)),
         Whole(addr[o], o)
  PROVE  /\ DOMAIN MoveCells(o) = Addr
         /\ \A i \in Units(o) : MoveCells(o)[Cell(fwd[o], i)] = [id |-> o, unit |-> i]
         /\ \A a, n : n \in Nat /\ Fits(a, n) /\ (Ahead(a, n, fwd[o]) \/ Ahead(fwd[o], Size(o), a))
                      => \A i \in 0 .. n - 1 : MoveCells(o)[Cell(a, i)] = cell[Cell(a, i)]
<1>1. DOMAIN MoveCells(o) = Addr
  BY DEF MoveCells
<1>2. ASSUME NEW i \in Units(o)
      PROVE  MoveCells(o)[Cell(fwd[o], i)] = [id |-> o, unit |-> i]
  <2>1. /\ Cell(fwd[o], i) \in Addr /\ Cell(fwd[o], i).off - fwd[o].off = i
    BY <1>2, CellIs DEF Units
  <2>2. cell[Cell(addr[o], i)] = [id |-> o, unit |-> i]
    BY <1>2 DEF Whole
  <2>. QED BY <1>2, <2>1, <2>2 DEF MoveCells
<1>3. ASSUME NEW a, NEW n \in Nat, Fits(a, n), Ahead(a, n, fwd[o]) \/ Ahead(fwd[o], Size(o), a),
             NEW i \in 0 .. n - 1
      PROVE  MoveCells(o)[Cell(a, i)] = cell[Cell(a, i)]
  <2>1. Cell(a, i) \in Addr
    BY <1>3, CellIs
  <2>2. \A j \in Units(o) : Cell(a, i) # Cell(fwd[o], j)
    BY <1>3, CellsApart DEF Units
  <2>. QED BY <2>1, <2>2 DEF MoveCells
<1>. QED BY <1>1, <1>2, <1>3

LEMMA WriteGives ==
  ASSUME DOMAIN cell = Addr, NEW o, Size(o) \in Nat, Fits(fwd[o], Size(o))
  PROVE  /\ DOMAIN Write(fwd[o], o) = Addr
         /\ \A i \in Units(o) : Write(fwd[o], o)[Cell(fwd[o], i)] = [id |-> o, unit |-> i]
         /\ \A a, n : n \in Nat /\ Fits(a, n) /\ (Ahead(a, n, fwd[o]) \/ Ahead(fwd[o], Size(o), a))
                      => \A i \in 0 .. n - 1 : Write(fwd[o], o)[Cell(a, i)] = cell[Cell(a, i)]
<1>1. DOMAIN Write(fwd[o], o) = Addr
  BY DEF Write
<1>2. ASSUME NEW i \in Units(o)
      PROVE  Write(fwd[o], o)[Cell(fwd[o], i)] = [id |-> o, unit |-> i]
  <2>1. /\ Cell(fwd[o], i) \in Addr /\ Cell(fwd[o], i).off - fwd[o].off = i
    BY <1>2, CellIs DEF Units
  <2>. QED BY <1>2, <2>1 DEF Write
<1>3. ASSUME NEW a, NEW n \in Nat, Fits(a, n), Ahead(a, n, fwd[o]) \/ Ahead(fwd[o], Size(o), a),
             NEW i \in 0 .. n - 1
      PROVE  Write(fwd[o], o)[Cell(a, i)] = cell[Cell(a, i)]
  <2>1. Cell(a, i) \in Addr
    BY <1>3, CellIs
  <2>2. \A j \in Units(o) : Cell(a, i) # Cell(fwd[o], j)
    BY <1>3, CellsApart DEF Units
  <2>. QED BY <2>1, <2>2 DEF Write
<1>. QED BY <1>1, <1>2, <1>3

\* What the moving phase leaves alone.
Placed == <<class, live, mid, old, young, addr, free, walk, kept, stay, iter,
            visited_end, fwd, clsptr>>

LEMMA PlacedKept ==
  ASSUME CompactionInv, UNCHANGED Placed, pc \in {"move_old", "move_young"},
         pc' \in {"move_old", "move_young", "lost"}, pc' = pc \/ pc' = "lost"
  PROVE  Objects' /\ Layout' /\ Settled' /\ Walks' /\ Storage' /\ Survivors' /\ InOrder'
         /\ NeverMovesUp'
<1>1. /\ Types /\ Objects /\ Layout /\ Walks /\ Storage /\ Survivors /\ InOrder /\ NeverMovesUp
  BY DEF CompactionInv
<1>2. /\ UNCHANGED <<class, live, mid, old, young, addr, free>>
      /\ UNCHANGED <<walk, kept, stay, iter, visited_end, fwd, clsptr>>
  BY DEF Placed
<1>3. Objects' /\ Layout'
  BY <1>1, <1>2, HeapKept DEF Heap
<1>4. Settled' /\ Walks'
  BY <1>1, <1>2 DEF Settled, Walks
<1>5. Storage'
  BY <1>1, <1>2 DEF Storage, Size, Fits, Ahead
<1>6. Survivors'
  BY <1>1, <1>2 DEF Survivors
<1>7. InOrder'
  BY <1>1, <1>2 DEF InOrder, Size, Ahead
<1>8. NeverMovesUp'
  BY <1>1, <1>2 DEF NeverMovesUp
<1>. QED BY <1>3, <1>4, <1>5, <1>6, <1>7, <1>8

\* The first object stays where it is.
LEMMA MetaStays ==
  ASSUME Types, Objects, NeverMovesUp, fwd[Meta] # Nil
  PROVE  fwd[Meta] = addr[Meta]
<1>1. Meta \in Id /\ fwd[Meta] \in Addr
  BY CompactionAssumption DEF Types, Id
<1>2. IsBefore(fwd[Meta], addr[Meta]) /\ addr[Meta] = [chunk |-> 1, off |-> 0]
  BY DEF NeverMovesUp, Objects
<1>3. /\ fwd[Meta].chunk \in Chunk /\ fwd[Meta].off \in Nat
      /\ addr[Meta] \in Addr /\ addr[Meta].chunk = 1 /\ addr[Meta].off = 0
  BY <1>1, <1>2, AddrIs, ConstantsAre
<1>4. fwd[Meta].chunk = 1 /\ fwd[Meta].off = 0
  BY <1>2, <1>3 DEF IsBefore, Chunk
<1>. QED BY <1>1, <1>3, <1>4, AddrIs

\* The size of a survivor can be read.
LEMMA SurvivorsReadable ==
  ASSUME CompactionInv, Walking, walk[at] \in live, pc \in {"move_old", "move_young"}
  PROVE  ReadsSize(walk[at])
<1>1. /\ Types /\ Objects /\ Layout /\ Walks /\ Survivors /\ Contents /\ Moving /\ NeverMovesUp
  BY DEF CompactionInv
<1> DEFINE k == class[walk[at]]
<1>2. k \in RangeOf(old) /\ k \in live /\ clsptr[walk[at]] = fwd[k]
  BY <1>1, ClassIs DEF Moving
<1>3. PICK i \in 1 .. Len(old) : old[i] = k
  BY <1>2 DEF RangeOf
<1>4. Whole(fwd[k], k)
  <2>1. CASE pc = "move_young"
    BY <1>1, <1>2, <2>1 DEF Contents
  <2>2. CASE pc = "move_old"
    <3>1. at \in 1 .. Len(old) /\ walk = old
      BY <1>1, <2>2 DEF Types, Walks, Walking
    <3>2. PICK l \in 1 .. at : old[l] = k
      BY <1>1, <3>1 DEF Objects
    <3>3. l \in 1 .. Len(old) /\ (l < at \/ l = at)
      BY <3>1, <3>2
    <3>4. Whole(IF l < at THEN fwd[k] ELSE addr[k], k)
      BY <1>1, <1>2, <2>2, <3>2, <3>3 DEF Contents
    <3>5. CASE l < at
      BY <3>4, <3>5
    <3>6. CASE l = at
      <4>1. k = Meta
        BY <1>1, <1>2, <3>1, <3>2, <3>6, OldIs DEF Objects
      <4>2. fwd[k] = addr[k]
        BY <1>1, <1>2, <1>3, <2>2, <4>1, MetaStays DEF Survivors
      <4>3. ~ (l < at)
        BY <3>1, <3>6
      <4>. QED BY <3>4, <4>2, <4>3
    <3>. QED BY <3>3, <3>5, <3>6
  <2>. QED BY <2>1, <2>2
<1>. QED BY <1>2, <1>4 DEF ReadsSize, Whole

\* Survivors have new storage in the moving phase.
LEMMA SurvivorsPlaced ==
  ASSUME CompactionInv, pc \in {"move_old", "move_young"}
  PROVE  /\ \A p \in RangeOf(old) : p \in live =>
               fwd[p] # Nil /\ fwd[p] \in Addr /\ Fits(fwd[p], Size(p)) /\ fwd[p].chunk \in Chunk
         /\ \A p \in mid :
               /\ fwd[p] # Nil /\ fwd[p] \in Addr /\ Fits(fwd[p], Size(p)) /\ fwd[p].chunk \in Chunk
               /\ p \in live /\ p \in Id
<1>1. Types /\ Objects /\ Walks /\ Storage /\ Survivors /\ pc # "run"
  BY DEF CompactionInv
<1>2. ASSUME NEW p \in RangeOf(old), p \in live PROVE fwd[p] # Nil /\ p \in Id
  <2>1. PICK j \in 1 .. Len(old) : old[j] = p
    BY DEF RangeOf
  <2>. QED BY <1>1, <1>2, <2>1 DEF Survivors, Types
<1>3. ASSUME NEW p \in mid PROVE fwd[p] # Nil /\ p \in Id /\ p \in live
  <2>1. p \in RangeOf(young) /\ p \in live
    BY <1>1 DEF Walks
  <2>2. PICK j \in 1 .. Len(young) : young[j] = p
    BY <2>1 DEF RangeOf
  <2>. QED BY <1>1, <2>1, <2>2 DEF Survivors, Types
<1>. QED BY <1>1, <1>2, <1>3, KeptIs, AddrIs

LEMMA MoveOldInv ==
  ASSUME CompactionInv, MoveOld
  PROVE  CompactionInv'
<1> DEFINE o == old[at]
<1>1. /\ Types /\ Objects /\ Layout /\ Walks /\ Storage /\ Survivors /\ InOrder /\ Contents
      /\ Moving /\ NeverMovesUp
  BY DEF CompactionInv
<1>2. pc = "move_old" /\ Walking /\ walk = old
  BY <1>1 DEF MoveOld, Walks
<1>3. UNCHANGED Placed
  BY DEF MoveOld, Placed
<1>4. UNCHANGED <<class, live, mid, old, young, addr, walk, kept, stay, fwd, clsptr>>
  BY <1>3 DEF Placed
<1>5. at \in Nat /\ 1 <= at /\ Len(old) \in Nat /\ at \in 1 .. Len(old) /\ Len(walk) = Len(old)
  BY <1>1, <1>2 DEF Types, Walking
<1>6. \A j \in 1 .. Len(old) : old[j] \in RangeOf(old) /\ old[j] \in Id
  BY <1>1, InRange DEF Types
<1>7. o \in RangeOf(old) /\ o \in Id
  BY <1>5, <1>6
<1>8. \A j \in 1 .. Len(old) : old[j] = o => j = at
  BY <1>1, <1>5, OldIs
<1>9. o \in live => ReadsSize(o)
  BY <1>2, SurvivorsReadable
<1>10. \A j \in 1 .. Len(old) : old[j] \in live => fwd[old[j]].chunk \in Chunk
  BY <1>2, <1>6, SurvivorsPlaced
<1>11. CASE ~ ReadsSize(o)
  <2>1. pc' = "lost" /\ UNCHANGED <<at, cell, meta, this_chunk>>
    BY <1>2, <1>11 DEF MoveOld
  <2>2. Types'
    BY <1>1, <1>3, <2>1 DEF Types, Placed, Phase
  <2>3. Contents' /\ Moving'
    BY <2>1 DEF Contents, Moving
  <2>4. LiveWalksOn'
    BY <1>2, <1>4, <1>9, <1>11, <2>1 DEF LiveWalksOn
  <2>. QED BY <1>2, <1>3, <2>1, <2>2, <2>3, <2>4, PlacedKept DEF CompactionInv
<1>12. CASE ReadsSize(o) /\ o \notin live
  <2>1. pc' = pc /\ at' = at + 1 /\ UNCHANGED <<cell, meta, this_chunk>>
    BY <1>2, <1>12 DEF MoveOld
  <2>2. Types'
    BY <1>1, <1>3, <1>5, <2>1 DEF Types, Placed
  <2>3. Contents'
    <3>1. \A j \in 1 .. Len(old) : old[j] \in live => (j < at + 1 <=> j < at)
      BY <1>5, <1>12
    <3>. QED BY <1>1, <1>2, <1>4, <2>1, <3>1 DEF Contents, Whole, Units, Size
  <2>4. Moving'
    <3>1. \A j \in 1 .. at : old[j] \in live => j \in 1 .. at - 1
      BY <1>5, <1>12
    <3>2. \A j \in at + 1 .. Len(old) : j \in at .. Len(old)
      BY <1>5
    <3>3. at' - 1 = at
      BY <1>5, <2>1
    <3>. QED BY <1>1, <1>2, <1>4, <2>1, <3>1, <3>2, <3>3 DEF Moving
  <2>5. LiveWalksOn'
    BY <1>2, <2>1 DEF LiveWalksOn
  <2>. QED BY <1>2, <1>3, <2>1, <2>2, <2>3, <2>4, <2>5, PlacedKept DEF CompactionInv
<1>13. CASE ReadsSize(o) /\ o \in live
  <2>1. fwd[o] # Nil /\ fwd[o] \in Addr /\ Fits(fwd[o], Size(o)) /\ fwd[o].chunk \in Chunk
    BY <1>2, <1>7, <1>13, SurvivorsPlaced
  <2>2. addr[o] \in Addr /\ Fits(addr[o], Size(o)) /\ Size(o) \in Nat /\ 1 <= Size(o)
    BY <1>1, <1>7, OldIs
  <2>3. fwd[o].chunk >= this_chunk
    <3>1. at \in at .. Len(old)
      BY <1>5
    <3>. QED BY <1>1, <1>2, <1>13, <3>1 DEF Moving
  <2>4. /\ pc' = pc /\ at' = at + 1
        /\ meta' = [meta EXCEPT ![o] = fwd[o].chunk]
        /\ \/ fwd[o] = addr[o] /\ cell' = cell /\ this_chunk' = this_chunk
           \/ fwd[o] # addr[o] /\ cell' = MoveCells(o) /\ this_chunk' = fwd[o].chunk
    <3>1. CASE fwd[o] = addr[o]
      BY <1>2, <1>13, <3>1 DEF MoveOld
    <3>2. CASE fwd[o] # addr[o]
      <4>1. at' = at + 1 /\ InitMeta(o) /\ cell' = MoveCells(o)
        BY <1>2, <1>13, <3>2 DEF MoveOld
      <4>. QED BY <2>3, <3>2, <4>1 DEF InitMeta
    <3>. QED BY <3>1, <3>2
  <2>5. Whole(addr[o], o)
    <3>1. ~ (at < at)
      BY <1>5
    <3>. QED BY <1>1, <1>2, <1>5, <1>13, <3>1 DEF Contents
  <2>6. DOMAIN cell = Addr
    BY <1>1 DEF Types
  <2>7. Types'
    <3>1. DOMAIN cell' = Addr
      BY <2>1, <2>2, <2>4, <2>5, <2>6, MoveCellsGives
    <3>2. meta' \in [Id -> 0 .. MaxChunks] /\ this_chunk' \in Chunk
      <4>1. fwd[o].chunk \in 0 .. MaxChunks
        BY <2>1, ConstantsAre DEF Chunk
      <4>2. meta' \in [Id -> 0 .. MaxChunks]
        BY <1>1, <2>4, <4>1 DEF Types
      <4>3. this_chunk' \in Chunk
        BY <1>1, <2>1, <2>4 DEF Types
      <4>. QED BY <4>2, <4>3
    <3>. QED BY SMTT(40), <1>1, <1>3, <1>5, <2>4, <3>1, <3>2 DEF Types, Placed
  <2>8. ASSUME NEW j \in 1 .. Len(old), old[j] \in live
        PROVE  \A i \in Units(old[j]) :
                  cell'[Cell(IF j < at + 1 THEN fwd[old[j]] ELSE addr[old[j]], i)]
                    = [id |-> old[j], unit |-> i]
    <3> DEFINE p == old[j]
               n == Size(p)
    <3>1. Whole(IF j < at THEN fwd[p] ELSE addr[p], p) /\ p \in RangeOf(old)
      BY <1>1, <1>2, <1>6, <2>8 DEF Contents
    <3>2. n \in Nat /\ addr[p] \in Addr /\ Fits(addr[p], n)
      BY <1>1, <3>1, OldIs
    <3>3. fwd[p] # Nil /\ Fits(fwd[p], n)
      BY <1>2, <2>8, <3>1, SurvivorsPlaced
    <3>4. CASE j = at
      <4>1. p = o /\ j < at + 1
        BY <1>5, <3>4
      <4>2. CASE fwd[o] = addr[o]
        BY <2>4, <2>5, <4>1, <4>2 DEF Whole
      <4>3. CASE fwd[o] # addr[o]
        BY <2>1, <2>2, <2>4, <2>5, <2>6, <4>1, <4>3, MoveCellsGives
      <4>. QED BY <4>2, <4>3
    <3>5. CASE j # at
      <4> DEFINE a == IF j < at THEN fwd[p] ELSE addr[p]
      <4>1. (IF j < at + 1 THEN fwd[p] ELSE addr[p]) = a
        BY <1>5, <3>5
      <4>2. Fits(a, n)
        BY <3>2, <3>3
      <4>3. Ahead(a, n, fwd[o]) \/ Ahead(fwd[o], Size(o), a)
        <5>1. CASE j < at
          BY <1>1, <1>2, <1>5, <2>1, <3>3, <5>1 DEF InOrder
        <5>2. CASE at < j
          <6>1. Ahead(addr[o], Size(o), addr[p])
            BY <1>1, <1>5, <5>2 DEF Layout
          <6>2. IsBefore(fwd[o], addr[o])
            BY <1>1, <1>7, <2>1 DEF NeverMovesUp
          <6>3. /\ fwd[o].chunk \in Nat /\ fwd[o].off \in Nat /\ addr[o].chunk \in Nat
                /\ addr[o].off \in Nat /\ addr[p].chunk \in Nat /\ addr[p].off \in Nat
            BY <2>1, <2>2, <3>2, AddrIs
          <6>4. Ahead(fwd[o], Size(o), addr[p])
            BY <2>1, <2>2, <3>2, <6>1, <6>2, <6>3, BeforeAhead
          <6>5. ~ (j < at)
            BY <1>5, <5>2
          <6>. QED BY <6>4, <6>5
        <5>. QED BY <1>5, <3>5, <5>1, <5>2
      <4>4. \A i \in 0 .. n - 1 : cell'[Cell(a, i)] = cell[Cell(a, i)]
        <5>1. CASE fwd[o] = addr[o]
          BY <2>4, <5>1
        <5>2. CASE fwd[o] # addr[o]
          <6>1. cell' = MoveCells(o)
            BY <2>4, <5>2
          <6> HIDE DEF a, n
          <6>. QED BY <2>1, <2>2, <2>5, <2>6, <3>2, <4>2, <4>3, <6>1, MoveCellsGives
        <5>. QED BY <5>1, <5>2
      <4>5. \A i \in Units(p) : cell[Cell(a, i)] = [id |-> p, unit |-> i]
        BY <3>1 DEF Whole
      <4>6. Units(p) = 0 .. n - 1
        BY DEF Units
      <4> HIDE DEF a, n
      <4>7. \A i \in Units(p) : cell'[Cell(a, i)] = [id |-> p, unit |-> i]
        BY <4>4, <4>5, <4>6
      <4>. QED BY <4>1, <4>7
    <3>. QED BY <3>4, <3>5
  <2>9. Contents'
    BY <1>2, <1>4, <2>4, <2>8 DEF Contents, Whole, Units, Size
  <2>10. Moving'
    <3>1. \A j \in 1 .. at : old[j] \in live => meta'[old[j]] = fwd[old[j]].chunk
      <4>1. ASSUME NEW j \in 1 .. at, j # at, old[j] \in live
            PROVE  meta'[old[j]] = fwd[old[j]].chunk
        <5>1. j \in 1 .. at - 1 /\ j \in 1 .. Len(old)
          BY <1>5, <4>1
        <5>. QED BY <1>1, <1>2, <1>6, <1>8, <2>4, <4>1, <5>1 DEF Moving, Types
      <4>2. meta'[old[at]] = fwd[old[at]].chunk
        BY <1>1, <1>7, <2>4 DEF Types
      <4>. QED BY <4>1, <4>2
    <3>2. ASSUME NEW p \in Id, fwd[p] # Nil, Ahead(fwd[o], Size(o), fwd[p])
          PROVE  fwd[p].chunk >= fwd[o].chunk
      BY SMTT(40), <1>1, <2>1, <3>2, AddrIs DEF Ahead, Types
    <3>3. this_chunk' = this_chunk \/ this_chunk' = fwd[o].chunk
      BY <2>4
    <3>4. \A j \in at + 1 .. Len(old) : old[j] \in live => fwd[old[j]].chunk >= this_chunk'
      <4>1. ASSUME NEW j \in at + 1 .. Len(old), old[j] \in live
            PROVE  fwd[old[j]].chunk >= this_chunk'
        <5>1. j \in at .. Len(old) /\ j \in 1 .. Len(old) /\ at < j
          BY <1>5
        <5>2. fwd[old[j]].chunk >= this_chunk
          BY <1>1, <1>2, <4>1, <5>1 DEF Moving
        <5>3. fwd[old[j]] # Nil
          BY <1>2, <1>6, <4>1, <5>1, SurvivorsPlaced
        <5>4. Ahead(fwd[o], Size(o), fwd[old[j]])
          BY <1>1, <1>2, <1>5, <2>1, <5>1, <5>3 DEF InOrder
        <5>. QED BY <1>6, <3>2, <3>3, <5>1, <5>2, <5>3, <5>4
      <4>. QED BY <4>1
    <3>5. \A p \in mid : fwd[p].chunk >= this_chunk'
      <4>1. ASSUME NEW p \in mid PROVE fwd[p].chunk >= this_chunk'
        <5>1. fwd[p].chunk >= this_chunk
          BY <1>1, <1>2 DEF Moving
        <5>2. fwd[p] # Nil /\ p \in Id /\ p \in RangeOf(young)
          BY <1>1, <1>2, SurvivorsPlaced DEF Walks
        <5>3. PICK j \in 1 .. Len(young) : young[j] = p
          BY <5>2 DEF RangeOf
        <5>4. Ahead(fwd[o], Size(o), fwd[p])
          BY <1>1, <1>2, <1>5, <2>1, <5>2, <5>3 DEF InOrder
        <5>. QED BY <3>2, <3>3, <5>1, <5>2, <5>4
      <4>. QED BY <4>1
    <3>6. at' - 1 = at
      BY <1>5, <2>4
    <3>. QED BY <1>1, <1>2, <1>4, <2>4, <3>1, <3>4, <3>5, <3>6 DEF Moving
  <2>11. LiveWalksOn'
    BY <1>2, <2>4 DEF LiveWalksOn
  <2>. QED BY <1>2, <1>3, <2>4, <2>7, <2>9, <2>10, <2>11, PlacedKept DEF CompactionInv
<1>. QED BY <1>11, <1>12, <1>13

LEMMA MoveOldDoneInv ==
  ASSUME CompactionInv, MoveOldDone
  PROVE  CompactionInv'
<1>1. /\ Types /\ Objects /\ Layout /\ Walks /\ Storage /\ Survivors /\ InOrder /\ Contents
      /\ Moving /\ NeverMovesUp
  BY DEF CompactionInv
<1>2. pc = "move_old" /\ ~ Walking /\ walk = old
  BY <1>1 DEF MoveOldDone, Walks
<1>3. walk' = young /\ at' = 1 /\ pc' = "move_young"
  BY DEF MoveOldDone
<1>4. UNCHANGED <<class, live, mid, old, young, addr, free, cell, meta, kept, stay,
                  iter, visited_end, fwd, clsptr, this_chunk>>
  BY DEF MoveOldDone
<1>5. at \in Nat /\ Len(old) \in Nat /\ Len(young) \in Nat /\ at = Len(old) + 1
  BY <1>1, <1>2 DEF Types, Walking
<1>6. Types'
  <2>1. young \in Seq(Id) /\ 1 \in 1 .. Len(young) + 1
    BY <1>1, <1>5 DEF Types, Id
  <2>. QED BY <1>1, <1>3, <1>4, <2>1 DEF Types, Phase
<1>7. Objects' /\ Layout'
  BY <1>1, <1>4, HeapKept DEF Heap
<1>8. Settled' /\ Walks' /\ NeverMovesUp' /\ LiveWalksOn'
  BY <1>1, <1>2, <1>3, <1>4 DEF Settled, Walks, NeverMovesUp, LiveWalksOn
<1>9. Storage' /\ InOrder'
  BY <1>1, <1>2, <1>3, <1>4 DEF Storage, InOrder, Size, Fits, Ahead
<1>10. Survivors'
  BY <1>1, <1>2, <1>3, <1>4 DEF Survivors
<1>11. ASSUME NEW p \in RangeOf(old) \cap live
       PROVE  /\ \A i \in Units(p) : cell[Cell(fwd[p], i)] = [id |-> p, unit |-> i]
              /\ meta[p] = fwd[p].chunk
  <2>1. PICK j \in 1 .. Len(old) : old[j] = p
    BY DEF RangeOf
  <2>2. j < at /\ j \in 1 .. at - 1
    BY <1>5
  <2>3. Whole(IF j < at THEN fwd[p] ELSE addr[p], p)
    BY <1>1, <1>2, <2>1 DEF Contents
  <2>. QED BY <1>1, <1>2, <2>1, <2>2, <2>3 DEF Whole, Moving
<1>12. 1 .. at' - 1 = {}
  BY <1>3
<1>13. Contents'
  BY <1>3, <1>4, <1>11, <1>12 DEF Contents, Whole, Units, Size
<1>14. Moving'
  <2>1. \A j \in 1 .. Len(young) : young[j] \in mid => fwd[young[j]].chunk >= this_chunk
    BY <1>1, <1>2 DEF Moving
  <2>. QED BY <1>1, <1>2, <1>3, <1>4, <1>11, <1>12, <2>1 DEF Moving
<1>. QED BY <1>6, <1>7, <1>8, <1>9, <1>10, <1>13, <1>14 DEF CompactionInv

LEMMA MoveYoungInv ==
  ASSUME CompactionInv, MoveYoung
  PROVE  CompactionInv'
<1> DEFINE o == young[at]
<1>1. /\ Types /\ Objects /\ Layout /\ Walks /\ Storage /\ Survivors /\ InOrder /\ Contents
      /\ Moving /\ NeverMovesUp
  BY DEF CompactionInv
<1>2. pc = "move_young" /\ Walking /\ walk = young
  BY <1>1 DEF MoveYoung, Walks
<1>3. UNCHANGED Placed
  BY DEF MoveYoung, Placed
<1>4. UNCHANGED <<class, live, mid, old, young, addr, walk, kept, stay, fwd, clsptr>>
  BY <1>3 DEF Placed
<1>5. at \in Nat /\ 1 <= at /\ Len(young) \in Nat /\ at \in 1 .. Len(young) /\ Len(walk) = Len(young)
  BY <1>1, <1>2 DEF Types, Walking
<1>6. \A j \in 1 .. Len(young) : young[j] \in RangeOf(young) /\ young[j] \in Id
  BY <1>1, InRange DEF Types, Id
<1>7. o \in RangeOf(young) /\ o \in Id
  BY <1>5, <1>6
<1>8. \A j \in 1 .. Len(young) : young[j] = o => j = at
  BY <1>1, <1>5 DEF Objects
<1>9. o \in live => ReadsSize(o)
  BY <1>2, SurvivorsReadable
<1>10. mid \subseteq live \cap RangeOf(young)
  BY <1>1, <1>2 DEF Walks
<1>11. CASE ~ ReadsSize(o)
  <2>1. pc' = "lost" /\ UNCHANGED <<at, cell, meta, this_chunk>>
    BY <1>2, <1>9, <1>10, <1>11 DEF MoveYoung
  <2>2. Types'
    BY <1>1, <1>3, <2>1 DEF Types, Placed, Phase
  <2>3. Contents' /\ Moving'
    BY <2>1 DEF Contents, Moving
  <2>4. LiveWalksOn'
    BY <1>2, <1>4, <1>9, <1>11, <2>1 DEF LiveWalksOn
  <2>. QED BY <1>2, <1>3, <2>1, <2>2, <2>3, <2>4, PlacedKept DEF CompactionInv
<1>12. CASE ReadsSize(o) /\ o \notin mid
  <2>1. pc' = pc /\ at' = at + 1 /\ UNCHANGED <<cell, meta, this_chunk>>
    BY <1>2, <1>12 DEF MoveYoung
  <2>2. Types'
    BY <1>1, <1>3, <1>5, <2>1 DEF Types, Placed
  <2>3. \A j \in 1 .. at : young[j] \in mid => j \in 1 .. at - 1
    BY <1>5, <1>12
  <2>4. at' - 1 = at
    BY <1>5, <2>1
  <2>5. Contents'
    BY <1>1, <1>2, <1>4, <2>1, <2>3, <2>4 DEF Contents, Whole, Units, Size
  <2>6. Moving'
    <3>1. \A j \in at + 1 .. Len(young) : j \in at .. Len(young)
      BY <1>5
    <3>. QED BY <1>1, <1>2, <1>4, <2>1, <2>3, <2>4, <3>1 DEF Moving
  <2>7. LiveWalksOn'
    BY <1>2, <2>1 DEF LiveWalksOn
  <2>. QED BY <1>2, <1>3, <2>1, <2>2, <2>5, <2>6, <2>7, PlacedKept DEF CompactionInv
<1>13. CASE ReadsSize(o) /\ o \in mid
  <2>1. fwd[o] # Nil /\ fwd[o] \in Addr /\ Fits(fwd[o], Size(o)) /\ fwd[o].chunk \in Chunk
    BY <1>2, <1>13, SurvivorsPlaced
  <2>2. Size(o) \in Nat /\ 1 <= Size(o)
    BY <1>1, <1>10, <1>13, ClassIs
  <2>3. fwd[o].chunk >= this_chunk
    <3>1. at \in at .. Len(young)
      BY <1>5
    <3>. QED BY <1>1, <1>2, <1>13, <3>1 DEF Moving
  <2>4. /\ pc' = pc /\ at' = at + 1 /\ cell' = Write(fwd[o], o)
        /\ meta' = [meta EXCEPT ![o] = fwd[o].chunk] /\ this_chunk' = fwd[o].chunk
    <3>1. at' = at + 1 /\ InitMeta(o) /\ cell' = Write(fwd[o], o)
      BY <1>2, <1>13 DEF MoveYoung
    <3>. QED BY <2>3, <3>1 DEF InitMeta
  <2>5. DOMAIN cell = Addr
    BY <1>1 DEF Types
  <2>6. /\ DOMAIN cell' = Addr
        /\ \A i \in Units(o) : cell'[Cell(fwd[o], i)] = [id |-> o, unit |-> i]
        /\ \A a, n : n \in Nat /\ Fits(a, n) /\ (Ahead(a, n, fwd[o]) \/ Ahead(fwd[o], Size(o), a))
                     => \A i \in 0 .. n - 1 : cell'[Cell(a, i)] = cell[Cell(a, i)]
    BY <2>1, <2>2, <2>4, <2>5, WriteGives
  <2>7. Types'
    <3>1. fwd[o].chunk \in 0 .. MaxChunks
      BY <2>1, ConstantsAre DEF Chunk
    <3>2. meta' \in [Id -> 0 .. MaxChunks]
      BY <1>1, <2>4, <3>1 DEF Types
    <3>. QED BY <1>1, <1>3, <1>5, <2>1, <2>4, <2>6, <3>2 DEF Types, Placed
  <2>8. ASSUME NEW p \in live, fwd[p] # Nil, Whole(fwd[p], p), Ahead(fwd[p], Size(p), fwd[o])
        PROVE  \A i \in Units(p) : cell'[Cell(fwd[p], i)] = [id |-> p, unit |-> i]
    <3>1. p \in RangeOf(kept) /\ Size(p) \in Nat
      BY <1>1, <1>2, <2>8, KeptIs, ClassIs
    <3>2. Fits(fwd[p], Size(p))
      BY <1>1, <1>2, <3>1, KeptIs
    <3>3. \A i \in 0 .. Size(p) - 1 : cell'[Cell(fwd[p], i)] = cell[Cell(fwd[p], i)]
      BY <2>6, <2>8, <3>1, <3>2
    <3>. QED BY <2>8, <3>3 DEF Whole, Units
  <2>9. \A p \in RangeOf(old) \cap live :
           \A i \in Units(p) : cell'[Cell(fwd[p], i)] = [id |-> p, unit |-> i]
    <3>1. ASSUME NEW p \in RangeOf(old) \cap live
          PROVE  fwd[p] # Nil /\ Whole(fwd[p], p) /\ Ahead(fwd[p], Size(p), fwd[o])
      <4>1. PICK j \in 1 .. Len(old) : old[j] = p
        BY DEF RangeOf
      <4>2. fwd[p] # Nil /\ Whole(fwd[p], p)
        BY <1>1, <1>2, SurvivorsPlaced DEF Contents
      <4>. QED BY <1>1, <1>2, <1>5, <2>1, <4>1, <4>2 DEF InOrder
    <3>. QED BY <2>8, <3>1
  <2>10. ASSUME NEW j \in 1 .. at, young[j] \in mid
         PROVE  \A i \in Units(young[j]) : cell'[Cell(fwd[young[j]], i)] = [id |-> young[j], unit |-> i]
    <3>1. CASE j = at
      BY <2>6, <3>1
    <3>2. CASE j # at
      <4>1. j \in 1 .. at - 1 /\ j \in 1 .. Len(young) /\ j < at
        BY <1>5, <3>2
      <4>2. fwd[young[j]] # Nil /\ young[j] \in live
        BY <1>2, <2>10, SurvivorsPlaced
      <4>3. Whole(fwd[young[j]], young[j])
        BY <1>1, <1>2, <2>10, <4>1 DEF Contents
      <4>4. Ahead(fwd[young[j]], Size(young[j]), fwd[o])
        BY <1>1, <1>2, <1>5, <2>1, <4>1, <4>2 DEF InOrder
      <4>. QED BY <2>8, <4>2, <4>3, <4>4
    <3>. QED BY <3>1, <3>2
  <2>11. at' - 1 = at
    BY <1>5, <2>4
  <2>12. Contents'
    BY <1>2, <1>4, <2>4, <2>9, <2>10, <2>11 DEF Contents, Whole, Units, Size
  <2>13. Moving'
    <3>1. o \notin RangeOf(old)
      BY <1>1, <1>7 DEF Objects
    <3>2. \A p \in RangeOf(old) \cap live : meta'[p] = fwd[p].chunk
      BY <1>1, <1>2, <2>4, <3>1, OldIs DEF Moving, Types
    <3>3. \A j \in 1 .. at : young[j] \in mid => meta'[young[j]] = fwd[young[j]].chunk
      <4>1. ASSUME NEW j \in 1 .. at, j # at, young[j] \in mid
            PROVE  meta'[young[j]] = fwd[young[j]].chunk
        <5>1. j \in 1 .. at - 1 /\ j \in 1 .. Len(young)
          BY <1>5, <4>1
        <5>. QED BY <1>1, <1>2, <1>6, <1>8, <2>4, <4>1, <5>1 DEF Moving, Types
      <4>2. meta'[young[at]] = fwd[young[at]].chunk
        BY <1>1, <1>7, <2>4 DEF Types
      <4>. QED BY <4>1, <4>2
    <3>4. \A j \in at + 1 .. Len(young) : young[j] \in mid => fwd[young[j]].chunk >= this_chunk'
      <4>1. ASSUME NEW j \in at + 1 .. Len(young), young[j] \in mid
            PROVE  fwd[young[j]].chunk >= this_chunk'
        <5>1. j \in 1 .. Len(young) /\ at < j
          BY <1>5
        <5>2. fwd[young[j]] # Nil /\ fwd[young[j]] \in Addr
          BY <1>2, <4>1, SurvivorsPlaced
        <5>3. Ahead(fwd[o], Size(o), fwd[young[j]])
          BY <1>1, <1>2, <1>5, <2>1, <5>1, <5>2 DEF InOrder
        <5>. QED BY <2>1, <2>4, <5>2, <5>3, AddrIs DEF Ahead
      <4>. QED BY <4>1
    <3>. QED BY <1>1, <1>2, <1>4, <2>4, <2>11, <3>2, <3>3, <3>4 DEF Moving
  <2>14. LiveWalksOn'
    BY <1>2, <2>4 DEF LiveWalksOn
  <2>. QED BY <1>2, <1>3, <2>4, <2>7, <2>12, <2>13, <2>14, PlacedKept DEF CompactionInv
<1>. QED BY <1>11, <1>12, <1>13

-----------------------------------------------------------------------------
\* The end of a collection.

LEMMA TruncateInv ==
  ASSUME CompactionInv, Truncate
  PROVE  CompactionInv'
<1>1. /\ Types /\ Objects /\ Layout /\ Walks /\ Storage /\ Survivors /\ Contents
      /\ Moving /\ NeverMovesUp
  BY DEF CompactionInv
<1>2. pc = "move_young" /\ ~ Walking /\ walk = young
  BY <1>1 DEF Truncate, Walks
<1>3. /\ old' = kept /\ young' = stay
      /\ addr' = [o \in Id |-> IF o \in RangeOf(kept) THEN fwd[o] ELSE Nil]
      /\ class' = [o \in Id |-> IF o \in live THEN class[o] ELSE Nil]
      /\ clsptr' = [o \in Id |-> IF o \in live THEN clsptr[o] ELSE Nil]
      /\ meta' = [o \in Id |-> IF o \in RangeOf(kept) THEN meta[o] ELSE 0]
  BY DEF Truncate, Forget
<1>4. /\ walk' = <<>> /\ at' = 1 /\ kept' = <<>> /\ stay' = <<>> /\ visited_end' = NoMark
      /\ fwd' = NoAddr /\ mid' = {} /\ iter' = [chunk |-> 1, off |-> 0] /\ this_chunk' = 1
      /\ pc' = "run" /\ live' = live
  BY DEF Truncate, Forget
<1>5. at = Len(young) + 1 /\ Len(young) \in Nat
  <2>1. young \in Seq(Insts) /\ at \in 1 .. Len(young) + 1
    BY <1>1, <1>2 DEF Types
  <2>2. ~ (at <= Len(young))
    BY <1>2 DEF Walking
  <2>. QED BY <2>1, <2>2
<1>6. iter \in Addr /\ iter.chunk \in Chunk /\ iter.chunk \in Nat /\ 1 <= iter.chunk
      /\ iter.off \in Offset /\ iter.off \in Nat
  BY <1>1, AddrIs DEF Types, Chunk
<1>old. RangeOf(old') = RangeOf(kept)
  BY <1>3
\* The survivors.
<1>7. \A p \in RangeOf(kept) :
         /\ p \in live /\ p \in Id /\ Size(p) \in Nat /\ 1 <= Size(p) /\ fwd[p] # Nil
         /\ fwd[p] \in Addr /\ Fits(fwd[p], Size(p)) /\ fwd[p].chunk \in Nat /\ fwd[p].off \in Nat
         /\ Ahead(fwd[p], Size(p), iter)
         /\ fwd[p].chunk < iter.chunk => fwd[p].off + Size(p) <= visited_end[fwd[p].chunk]
  BY <1>1, <1>2, KeptIs, AddrIs DEF Storage
<1>8. ASSUME NEW p \in RangeOf(old) \cap live PROVE p \in RangeOf(kept)
  BY <1>1, <1>2, SurvivorsPlaced, OldIs DEF Storage
<1>9. ASSUME NEW p \in RangeOf(young) \cap live PROVE p \in RangeOf(kept) \cup RangeOf(stay)
  <2>1. PICK j \in 1 .. Len(young) : young[j] = p
    BY DEF RangeOf
  <2>2. p \in Id
    BY <1>1 DEF Types
  <2>. QED BY <1>1, <1>2, <2>1, <2>2 DEF Survivors, Storage
<1>10. ASSUME NEW p \in RangeOf(kept)
       PROVE  Whole(fwd[p], p) /\ meta[p] = fwd[p].chunk
  <2>1. CASE p \in RangeOf(old)
    BY <1>1, <1>2, <1>7, <2>1 DEF Contents, Moving
  <2>2. CASE p \in RangeOf(young)
    <3>1. PICK j \in 1 .. Len(young) : young[j] = p
      BY <2>2 DEF RangeOf
    <3>2. p \in mid /\ j \in 1 .. at - 1
      BY <1>1, <1>2, <1>5, <1>7, <3>1 DEF Survivors
    <3>. QED BY <1>1, <1>2, <3>1, <3>2 DEF Contents, Moving
  <2>. QED BY <1>1, <1>7, <2>1, <2>2 DEF Objects
<1>11. RangeOf(stay) \subseteq live /\ RangeOf(stay) \subseteq RangeOf(young) /\ RangeOf(stay) \cap mid = {}
  BY <1>1, <1>2 DEF Survivors, RangeOf
<1>12. RangeOf(kept) \cap RangeOf(stay) = {}
  <2>1. ASSUME NEW p \in RangeOf(kept), p \in RangeOf(stay) PROVE FALSE
    <3>1. PICK j \in 1 .. Len(young) : young[j] = p
      BY <1>11, <2>1 DEF RangeOf
    <3>. QED BY <1>1, <1>2, <1>7, <1>11, <2>1, <3>1 DEF Survivors
  <2>. QED BY <2>1
<1>13. Meta \in RangeOf(kept) /\ fwd[Meta] = addr[Meta]
  BY <1>1, <1>7, <1>8, MetaStays DEF Objects
<1>14. \A p \in live : p \in Id /\ class'[p] = class[p] /\ clsptr'[p] = clsptr[p] /\ InstSize[class'[p]] = Size(p)
  BY <1>1, <1>3 DEF Types, Size
<1>15. \A p \in RangeOf(kept) : addr'[p] = fwd[p] /\ meta'[p] = fwd[p].chunk
  BY <1>3, <1>7, <1>10
<1>16. \A p \in live : class[p] \in RangeOf(kept)
  BY <1>1, <1>8, ClassIs
<1>17. \A j \in 1 .. Len(kept) : kept[j] \in RangeOf(kept)
  BY <1>1, InRange DEF Types
\* The ends of the chunks.
<1> DEFINE end(c) == IF c = iter.chunk THEN iter.off ELSE visited_end[c]
<1>18. free' = [c \in 1 .. iter.chunk |-> end(c)]
  BY DEF Truncate
<1>19. \A c \in 1 .. iter.chunk : end(c) \in Offset /\ end(c) \in Nat
  <2>1. \A c \in 1 .. iter.chunk : c = iter.chunk \/ c \in 1 .. iter.chunk - 1
    BY <1>6
  <2>. QED BY <1>1, <1>2, <1>6, <2>1, ConstantsAre DEF Storage
<1>20. \A p \in RangeOf(kept) :
          fwd[p].chunk \in 1 .. iter.chunk /\ fwd[p].off + Size(p) <= end(fwd[p].chunk)
  <2>1. ASSUME NEW p \in RangeOf(kept)
        PROVE  fwd[p].chunk \in 1 .. iter.chunk /\ fwd[p].off + Size(p) <= end(fwd[p].chunk)
    <3>1. 1 <= fwd[p].chunk
      BY <1>7, AddrIs DEF Chunk
    <3>. QED BY <1>6, <1>7, <3>1 DEF Ahead
  <2>. QED BY <2>1
<1>21. \A c \in 1 .. iter.chunk : \E o \in RangeOf(kept) :
          fwd[o].chunk = c /\ fwd[o].off + Size(o) = end(c)
  <2>1. \E o \in RangeOf(kept) : fwd[o].chunk = iter.chunk /\ fwd[o].off + Size(o) = iter.off
    <3>1. kept # <<>>
      BY <1>13 DEF RangeOf
    <3>. QED BY <1>1, <1>2, <3>1 DEF Storage
  <2>2. \A c \in 1 .. iter.chunk - 1 : \E o \in RangeOf(kept) :
           fwd[o].chunk = c /\ fwd[o].off + Size(o) = visited_end[c]
    BY <1>1, <1>2 DEF Storage
  <2>3. \A c \in 1 .. iter.chunk : c = iter.chunk \/ (c \in 1 .. iter.chunk - 1 /\ c # iter.chunk)
    BY <1>6
  <2>. QED BY <2>1, <2>2, <2>3
<1> HIDE DEF end
<1>22. free' \in Seq(Offset) /\ Len(free') = iter.chunk /\ \A c \in 1 .. iter.chunk : free'[c] = end(c)
  BY <1>6, <1>18, <1>19
<1>23. iter = [chunk |-> Len(free'), off |-> free'[Len(free')]]
  <2>1. free'[iter.chunk] = iter.off
    BY <1>6, <1>22 DEF end
  <2>2. [chunk |-> iter.chunk, off |-> iter.off] \in Addr
    BY <1>6, AddrIs
  <2>3. iter = [chunk |-> iter.chunk, off |-> iter.off]
    BY <1>6, <2>2, AddrIs
  <2>. QED BY <1>22, <2>1, <2>3
<1>24. Types'
  <2>1. class' \in [Id -> Classes \cup {Nil}] /\ clsptr' \in [Id -> Addr \cup {Nil}]
    BY <1>1, <1>3 DEF Types
  <2>2. addr' \in [Id -> Addr \cup {Nil}] /\ meta' \in [Id -> 0 .. MaxChunks]
    BY <1>1, <1>3, <1>7, ConstantsAre DEF Types
  <2>3. cell' = [x \in DOMAIN cell |-> IF x.chunk \in DOMAIN free' /\ x.off < free'[x.chunk]
                                       THEN cell[x] ELSE Nil]
    BY DEF Truncate
  <2>4. DOMAIN cell' = Addr
    BY <1>1, <2>3 DEF Types
  <2>5. walk' \in Seq(Id) /\ at' \in 1 .. Len(walk') + 1 /\ kept' \in Seq(Id) /\ stay' \in Seq(Insts)
    BY <1>4
  <2>6. iter' \in Addr /\ this_chunk' \in Chunk /\ pc' \in Phase
    BY <1>4, AddrIs, ConstantsAre DEF Phase
  <2>7. visited_end' \in [Chunk -> Offset \cup {Nil}] /\ fwd' \in [Id -> Addr \cup {Nil}]
    BY <1>4 DEF NoMark, NoAddr
  <2>8. mid' \in SUBSET Insts /\ live' \in SUBSET Id /\ old' \in Seq(Id) /\ young' \in Seq(Insts)
    BY <1>1, <1>3, <1>4 DEF Types
  <2>. QED BY <1>6, <1>22, <2>1, <2>2, <2>4, <2>5, <2>6, <2>7, <2>8 DEF Types
<1>25. Objects'
  <2>1. class'[Meta] = Meta /\ Meta \in live' /\ Meta \in RangeOf(old')
        /\ addr'[Meta] = [chunk |-> 1, off |-> 0]
    BY <1>1, <1>3, <1>4, <1>13, <1>14, <1>15 DEF Objects
  <2>2. live' \subseteq RangeOf(old') \cup RangeOf(young')
    BY <1>1, <1>3, <1>4, <1>8, <1>9 DEF Objects
  <2>3. \A p \in RangeOf(old') \cup RangeOf(young') \cup live' : class'[p] \in Classes
    <3>1. RangeOf(old') \cup RangeOf(young') \cup live' \subseteq live
      BY <1>3, <1>4, <1>7, <1>11
    <3>. QED BY <1>1, <1>14, <3>1 DEF Objects
  <2>4. \A p \in live' : class'[p] \in live'
    BY <1>1, <1>4, <1>14 DEF Objects
  <2>5. \A p \in Id : class'[p] = p => p = Meta
    BY <1>1, <1>3, ConstantsAre DEF Objects
  <2>6. \A j \in 1 .. Len(old') : old'[j] \in live' => \E i \in 1 .. j : old'[i] = class'[old'[j]]
    <3>1. \A j \in 1 .. Len(kept) : \E i \in 1 .. j : kept[i] = class[kept[j]]
      BY <1>1, <1>2 DEF Storage
    <3>2. \A j \in 1 .. Len(kept) : class'[kept[j]] = class[kept[j]]
      BY <1>7, <1>14, <1>17
    <3>. QED BY <1>3, <3>1, <3>2
  <2>7. \A i, j \in 1 .. Len(young') : i # j => young'[i] # young'[j]
    BY <1>1, <1>2, <1>3 DEF Survivors
  <2>8. RangeOf(old') \cap RangeOf(young') = {}
    BY <1>3, <1>12
  <2>. QED BY <2>1, <2>2, <2>3, <2>4, <2>5, <2>6, <2>7, <2>8 DEF Objects
<1>26. Layout'
  <2>1. \A j \in 1 .. Len(kept) : Fits(addr'[kept[j]], InstSize[class'[kept[j]]])
    BY <1>7, <1>14, <1>15, <1>17
  <2>2. \A i, j \in 1 .. Len(kept) : i < j =>
           Ahead(addr'[kept[i]], InstSize[class'[kept[i]]], addr'[kept[j]])
    <3>1. \A j \in 1 .. Len(kept) : /\ addr'[kept[j]] = fwd[kept[j]]
                                    /\ InstSize[class'[kept[j]]] = Size(kept[j])
      BY <1>7, <1>14, <1>15, <1>17
    <3>2. \A i, j \in 1 .. Len(kept) :
             i < j => Ahead(fwd[kept[i]], Size(kept[i]), fwd[kept[j]])
      BY <1>1, <1>2 DEF Storage
    <3>. QED BY <3>1, <3>2
  <2>. QED BY <1>3, <2>1, <2>2 DEF Layout, Size
<1>27. Settled'
  <2>1. \A p \in RangeOf(kept) :
           Ahead(addr'[p], InstSize[class'[p]], [chunk |-> Len(free'), off |-> free'[Len(free')]])
    BY <1>7, <1>14, <1>15, <1>23
  <2>2. \A p \in RangeOf(kept) : meta'[p] = addr'[p].chunk
    BY <1>15
  <2>3. ASSUME NEW c \in 1 .. iter.chunk
        PROVE  \E o \in RangeOf(kept) :
                 /\ addr'[o].chunk = c
                 /\ addr'[o].off + InstSize[class'[o]] = free'[c]
                 /\ \A p \in RangeOf(kept) : addr'[p].chunk = c => IsBefore(addr'[p], addr'[o])
    <3>1. PICK o \in RangeOf(kept) : fwd[o].chunk = c /\ fwd[o].off + Size(o) = end(c)
      BY <1>21
    <3>2. ASSUME NEW p \in RangeOf(kept), fwd[p].chunk = c PROVE IsBefore(fwd[p], fwd[o])
      <4>1. fwd[p].off + Size(p) <= fwd[o].off + Size(o)
        BY <1>20, <3>1, <3>2
      <4>2. PICK i \in 1 .. Len(kept), j \in 1 .. Len(kept) : kept[i] = p /\ kept[j] = o
        BY DEF RangeOf
      <4>3. i \in Nat /\ j \in Nat
        BY <1>1 DEF Types
      <4>4. CASE i < j
        <5>1. Ahead(fwd[p], Size(p), fwd[o])
          BY <1>1, <1>2, <4>2, <4>4 DEF Storage
        <5>. QED BY <1>7, <3>1, <3>2, <5>1 DEF Ahead, IsBefore
      <4>5. CASE i = j
        BY <1>7, <4>2, <4>5 DEF IsBefore
      <4>6. CASE j < i
        <5>1. Ahead(fwd[o], Size(o), fwd[p])
          BY <1>1, <1>2, <4>2, <4>6 DEF Storage
        <5>. QED BY <1>7, <3>1, <3>2, <4>1, <5>1, SMTT(30) DEF Ahead, IsBefore
      <4>. QED BY <4>3, <4>4, <4>5, <4>6
    <3>. QED BY <1>7, <1>14, <1>15, <1>22, <3>1, <3>2
  <2>4. \A p \in RangeOf(kept) \cap live : clsptr'[p] = addr'[class'[p]]
    BY <1>1, <1>2, <1>14, <1>15, <1>16 DEF Moving
  <2>5. /\ \A p \in RangeOf(old') :
              Ahead(addr'[p], InstSize[class'[p]], [chunk |-> Len(free'), off |-> free'[Len(free')]])
        /\ \A p \in RangeOf(old') : meta'[p] = addr'[p].chunk
        /\ \A p \in RangeOf(old') \cap live' : clsptr'[p] = addr'[class'[p]]
    BY <1>3, <1>4, <2>1, <2>2, <2>4
  <2>6. \A c \in 1 .. Len(free') :
           \E o \in RangeOf(old') :
              /\ addr'[o].chunk = c
              /\ addr'[o].off + InstSize[class'[o]] = free'[c]
              /\ \A p \in RangeOf(old') : addr'[p].chunk = c => IsBefore(addr'[p], addr'[o])
    <3>1. Len(free') = iter.chunk
      BY <1>22
    <3>. QED BY <1>old, <2>3, <3>1
  <2>. QED BY <1>4, <2>5, <2>6 DEF Settled, Size, Ahead, IsBefore
<1>28. Contents'
  <2>1. ASSUME NEW p \in RangeOf(kept), NEW i \in Units(p)
        PROVE  cell'[Cell(fwd[p], i)] = [id |-> p, unit |-> i]
    <3>1. cell[Cell(fwd[p], i)] = [id |-> p, unit |-> i]
      BY <1>10 DEF Whole
    <3>2. /\ Cell(fwd[p], i) \in Addr
          /\ Cell(fwd[p], i).chunk = fwd[p].chunk /\ Cell(fwd[p], i).off = fwd[p].off + i
      BY <1>7, CellIs DEF Units
    <3>3. i \in Nat /\ i < Size(p)
      BY <1>7 DEF Units
    <3>4. fwd[p].chunk \in DOMAIN free' /\ free'[fwd[p].chunk] = end(fwd[p].chunk)
      BY <1>18, <1>20, <1>22
    <3>5. fwd[p].off + i < end(fwd[p].chunk)
      BY <1>7, <1>19, <1>20, <3>3
    <3>6. cell' = [x \in DOMAIN cell |-> IF x.chunk \in DOMAIN free' /\ x.off < free'[x.chunk]
                                         THEN cell[x] ELSE Nil]
      BY DEF Truncate
    <3>7. DOMAIN cell = Addr
      BY <1>1 DEF Types
    <3>. QED BY <3>1, <3>2, <3>4, <3>5, <3>6, <3>7
  <2>2. \A p \in RangeOf(kept) : 0 .. InstSize[class'[p]] - 1 = Units(p)
    BY <1>7, <1>14 DEF Units
  <2>3. ASSUME NEW p \in RangeOf(old'), NEW i \in 0 .. InstSize[class'[p]] - 1
        PROVE  cell'[Cell(addr'[p], i)] = [id |-> p, unit |-> i]
    <3>1. p \in RangeOf(kept) /\ i \in Units(p)
      BY <1>old, <2>2, <2>3
    <3>. QED BY <1>15, <2>1, <3>1
  <2>. QED BY <1>4, <2>3 DEF Contents, Whole, Units, Size
<1>29. (Walks /\ Storage /\ Survivors /\ InOrder /\ Moving /\ LiveWalksOn)'
  BY <1>4 DEF Walks, Storage, Survivors, InOrder, Moving, LiveWalksOn
<1>30. NeverMovesUp'
  <2>1. \A p \in RangeOf(kept) : fwd'[p] = Nil
    BY <1>4, <1>7 DEF NoAddr
  <2>. QED BY <1>3, <1>4, <2>1 DEF NeverMovesUp
<1>. QED BY <1>24, <1>25, <1>26, <1>27, <1>28, <1>29, <1>30 DEF CompactionInv

-----------------------------------------------------------------------------
\* The theorems.

LEMMA StutterInv ==
  ASSUME CompactionInv, UNCHANGED vars
  PROVE  CompactionInv'
<1>1. /\ UNCHANGED <<class, live, mid, old, young, addr, free, cell, meta>>
      /\ UNCHANGED <<pc, walk, at, kept, stay, iter, visited_end, fwd, clsptr, this_chunk>>
  BY DEF vars
<1>2. /\ Types /\ Objects /\ Layout /\ Settled /\ Walks /\ Storage /\ Survivors
      /\ InOrder /\ Contents /\ Moving /\ NeverMovesUp /\ LiveWalksOn
  BY DEF CompactionInv
<1>3. Types'
  BY <1>1, <1>2 DEF Types
<1>4. Objects' /\ Layout'
  BY <1>1, <1>2, HeapKept DEF Heap
<1>5. Settled'
  BY <1>1, <1>2 DEF Settled, Ahead, IsBefore, Size
<1>6. Walks' /\ Survivors' /\ Moving' /\ LiveWalksOn'
  BY <1>1, <1>2 DEF Walks, Survivors, Moving, LiveWalksOn
<1>7. Storage' /\ InOrder'
  BY <1>1, <1>2 DEF Storage, InOrder, Size, Fits, Ahead
<1>8. Contents' /\ NeverMovesUp'
  BY <1>1, <1>2 DEF Contents, Whole, Units, Size, NeverMovesUp, Walking
<1>. QED BY <1>3, <1>4, <1>5, <1>6, <1>7, <1>8 DEF CompactionInv

LEMMA NextInv ==
  ASSUME CompactionInv, [Next]_vars
  PROVE  CompactionInv'
<1>1. ASSUME NEW o \in Id, NEW k \in Classes, AllocOld(o, k) PROVE CompactionInv'
  BY <1>1, AllocOldInv
<1>2. ASSUME NEW o \in Id, NEW k \in Classes, AllocYoung(o, k) PROVE CompactionInv'
  BY <1>2, AllocYoungInv
<1>3. ASSUME NEW o \in Id, Die(o) PROVE CompactionInv'
  BY <1>3, DieInv
<1>4. ASSUME NEW m \in SUBSET Insts, BeginGc(m) PROVE CompactionInv'
  BY <1>4, BeginGcInv
<1>5. CASE ReallocOld \/ ReallocYoung
  BY <1>5, ReallocOldInv, ReallocYoungInv
<1>6. CASE MoveOld \/ MoveOldDone \/ MoveYoung
  BY <1>6, MoveOldInv, MoveOldDoneInv, MoveYoungInv
<1>7. CASE Truncate
  BY <1>7, TruncateInv
<1>8. CASE Stop \/ UNCHANGED vars
  BY <1>8, StutterInv DEF Stop
<1>. QED BY <1>1, <1>2, <1>3, <1>4, <1>5, <1>6, <1>7, <1>8 DEF Next

LEMMA InvHolds == Spec => []CompactionInv
<1>. QED BY InitInv, NextInv, PTL DEF Spec

\* Every variable of the collector holds what its C type allows; the iterator
\* stays inside the chunks and every chunk has its end.
THEOREM CompactionTypes == Spec => []TypeOK
<1>1. CompactionInv => TypeOK
  <2> SUFFICES ASSUME CompactionInv PROVE TypeOK
    OBVIOUS
  <2>1. Types
    BY DEF CompactionInv
  <2>2. /\ RangeOf(old) \subseteq Id /\ RangeOf(young) \subseteq Insts /\ RangeOf(free) \subseteq Offset
        /\ RangeOf(walk) \subseteq Id /\ RangeOf(kept) \subseteq Id /\ RangeOf(stay) \subseteq Insts
    BY <2>1, InRange DEF Types
  <2>. QED BY <2>1, <2>2 DEF Types, TypeOK, Phase
<1>. QED BY <1>1, InvHolds, PTL

\* New storage never lies behind the present one, and the iterator never
\* overtakes the walk: what
\* old_space_realloc_survivors_and_forget_remembered_objects() relies on.
THEOREM SlidesDown == Spec => []NeverMovesUp
<1>1. CompactionInv => NeverMovesUp
  BY DEF CompactionInv
<1>. QED BY <1>1, InvHolds, PTL

\* A collection loses no object and no content.
THEOREM NothingLost == Spec => []ContentsIntact
<1>1. CompactionInv => ContentsIntact
  BY DEF CompactionInv, Objects, Settled, Contents, Whole, ContentsIntact
<1>. QED BY <1>1, InvHolds, PTL

\* The walks of the moving phase can read the size of every survivor.
THEOREM SurvivorsFound == Spec => []LiveWalksOn
<1>1. CompactionInv => LiveWalksOn
  BY DEF CompactionInv
<1>. QED BY <1>1, InvHolds, PTL

\* abort() in _old_space_init_reallocated_obj_meta_slow() is unreachable.
THEOREM AbortUnreachable == Spec => []NeverAborts
<1>1. CompactionInv => NeverAborts
  BY DEF CompactionInv, Types, Phase, NeverAborts
<1>. QED BY <1>1, InvHolds, PTL

\* What old_space_post_gc_check() and the asserts of old_space_truncate() claim.
THEOREM SoundChunks == Spec => []ChunksConsistent
<1>1. CompactionInv => ChunksConsistent
  BY DEF CompactionInv, Settled, ChunksConsistent
<1>. QED BY <1>1, InvHolds, PTL
=============================================================================
