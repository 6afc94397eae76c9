CONSTANTS
    bic = bic
    a = a
    b = b
    k = k
    Obj = {bic, a, b}
    ClassIds = {}
    Builtin = bic
    SmallInt = SmallInt
    NumFields = 1
    NumSlots = 2
    NewCap = 2
    OldCap = 2
    BigThresholdInit = 0
    AllocKinds = {"auto", "surv", "huge"}
    GcTypes = {"auto", "full"}
    MaxNgc = 1
SPECIFICATION Spec
SYMMETRY Symmetry
INVARIANTS
    TypeOK
    FlagsConsistent
    FastMarkComplete
PROPERTY LiveKept
