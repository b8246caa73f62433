SPECIFICATION Spec
CONSTANTS
    NumTypes = 5
    Object = 2
    TypeInfo = 1
    Programs <- AllPrograms
INVARIANTS
    TypeOK
    TopSorted
    BadExact
    BadExplained
PROPERTY
    Terminates
CHECK_DEADLOCK FALSE
