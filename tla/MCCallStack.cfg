SPECIFICATION Spec
CONSTANTS
    Values = {51, 52}
    Sites = {61, 62}
    NoSite = 0
    Junk = 99
    MaxFrames = 3
    MaxLocals = 2
    MaxParams = 2
    StackTop = 14
INVARIANTS
    TypeOK
    FramesLinked
    SlotsDisjoint
PROPERTIES
    ImplementsActivations
    OperandsMatch
    ThrowExits
CHECK_DEADLOCK FALSE
