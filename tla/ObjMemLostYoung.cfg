CONSTANTS
    bic = bic
    a = a
    b = b
    k = k
    Obj = {bic, a}
    ClassIds = {}
    Builtin = bic
    SmallInt = SmallInt
    NumFields = 1
    NumSlots = 1
    NewCap = 1
    OldCap = 2
    BigThresholdInit = 0
    AllocKinds = {"auto"}
    GcTypes = {"auto"}
    MaxNgc = 0
SPECIFICATION Spec
INVARIANT LiveAllocated
