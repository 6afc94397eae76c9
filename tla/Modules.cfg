CONSTANTS
    Names <- MCNames
    Kind <- MCKind
    Imports <- MCImports
    Broken = {"bad", "lib"}
    Raising = {"bad"}
    WithMain = {"app"}
    FlagSets = {{}, {"reload"}, {"nocache"}}
    MaxObjs = 7
    MaxOps = 4
    MaxDepth = 4
SPECIFICATION Spec
INVARIANT ModulesWhole
PROPERTIES InitialisedOnce CacheStable Ends
CHECK_DEADLOCK FALSE
