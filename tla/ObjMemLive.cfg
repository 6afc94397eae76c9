CONSTANTS
    bic = bic
    a = a
    b = b
    k = k
    Obj = {bic, a, b, k}
    ClassIds = {k}
    Builtin = bic
    SmallInt = SmallInt
    NumFields = 1
    NumSlots = 1
    NewCap = 1
    OldCap = 2
    BigThresholdInit = 1
    AllocKinds = {"auto", "surv", "huge", "large"}
    GcTypes = {"full"}
    MaxNgc = 1
SPECIFICATION FairSpec
PROPERTIES
    CollectionEnds
    AllocationReturns
INVARIANT FullMarkExact
