CONSTANTS
    k1 = k1
    k2 = k2
    k3 = k3
    m1 = m1
    m2 = m2
    x = x
    y = y
    NULL = NULL
    Map = {m1, m2}
    Key = {k1, k2, k3}
    Val = {x, y}
    Hash <- MCHash
    InitCounts = {0}
    ReserveCounts = {4}
SPECIFICATION Spec
SYMMETRY Symmetry
INVARIANT NodesInPlace
PROPERTY IsDictionary
