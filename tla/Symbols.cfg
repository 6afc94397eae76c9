CONSTANTS
    Strings = {"a", "b", "c", "long"}
    Long = {"long"}
    BucketOf <- MCBucketOf
    Places = 4
SPECIFICATION Spec
INVARIANTS SymbolsUnique PoolSound
PROPERTIES HeldKept
