CONSTANTS
    I8Max = 3
    I16Max = 10
    MaxInstr = 5
    MaxLabels = 2
    Unplaced = 0
SPECIFICATION Spec
INVARIANTS
    TypeOK
    CodeFits
    JumpsLand
