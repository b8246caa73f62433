SPECIFICATION Spec
CONSTANTS
    Radix = 4
    Ebp = 190
    HeapEnd = 145
    Cases <- Accepted
INVARIANTS
    CompilerAccepts
    ReadsDefined
    OutcomeAgrees
PROPERTY
    Terminates
CHECK_DEADLOCK FALSE
