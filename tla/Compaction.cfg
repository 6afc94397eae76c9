CONSTANTS
    Meta = Meta
    u = u
    v = v
    i1 = i1
    i2 = i2
    i3 = i3
    Nil = Nil
    Classes = {Meta, u, v}
    Insts = {i1, i2, i3}
    InstSize <- MCInstSize
    ChunkCap = 4
    MaxChunks = 5
    MaxYoung = 2
SPECIFICATION Spec
INVARIANTS
    TypeOK
    NeverMovesUp
    ContentsIntact
    LiveWalksOn
    NeverAborts
    ChunksConsistent
