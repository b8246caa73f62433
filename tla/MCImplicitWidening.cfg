SPECIFICATION Spec
CONSTANTS
    Radix = 4
    Ebp = 190
    HeapEnd = 145
    Cases <- Widenings
INVARIANT
    CompilerAccepts
CHECK_DEADLOCK FALSE
