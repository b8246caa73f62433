SPECIFICATION Spec
CONSTANTS
    Radix = 16
    Programs <- NegativeCasts
    Valuations <- Valued
INVARIANT
    MeaningPreserved
CHECK_DEADLOCK FALSE
