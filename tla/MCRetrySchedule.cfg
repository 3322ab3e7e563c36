SPECIFICATION Spec
CONSTANTS
    Base = 5
    Cap = 60
    Period = 5
    LongestRepair = 12
    MaxFailures = 6
    MaxDebt = 20
INVARIANTS
    TypeOK
    
PROPERTIES
    Spacing
    NotEveryTick
