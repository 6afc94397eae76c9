CONSTANTS
    Ident = {"a", "f", "x", "print", "one", "boom", "apply", "sys", "lib", "z"}
    Literal <- MCLiteral
    IntLit <- MCInt
    FloatLit <- MCFloat
    StringLit = {"str"}
    SymbolLit = {"sym"}
    I8Max = 4
    I16Max = 7
    StackSize = 24
    SmallMax = 30
    Natives <- MCNatives
    Library <- MCLibrary
    MaxRuns = 2
    Fuel = 8
SPECIFICATION Spec
INVARIANTS ResultCorrect CodeVerifies StackAsDocumented
PROPERTIES InvocationRestores CallersKept IsMachine GlobalsKept Terminates

CHECK_DEADLOCK FALSE
