CONSTANTS
    StackSize = 4
    MaxDepth = 2
    MaxCount = 2
    MaxElems = 1
    MaxAt = 2
    MaxVals = 3
    MaxMade = 1
    MaxMark = 1
    Names <- MCNames
    Main = "main"
    Pushable <- MCPushable
    InitGlobals <- MCGlobals
    Base <- MCBase
    Formats <- MCFormats
    Made = {"array", "set", "map"}
    Elems <- MCElems
    Storable <- MCStorable
SPECIFICATION Spec
VIEW View
INVARIANT FramesNested
PROPERTIES CallerKept IsFrames
CHECK_DEADLOCK FALSE
