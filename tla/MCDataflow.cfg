SPECIFICATION DataflowSpec
CONSTANTS
  Radix = 16
  Programs <- Correct
  Valuations <- Valued
  DataflowClasses <- AllClasses
  NoCond <- None
INVARIANTS MeaningPreserved ConstantsFold StringsHaveIds RejectsExactly ErrorsRight FieldOrderExact
CHECK_DEADLOCK FALSE
