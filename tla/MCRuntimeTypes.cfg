SPECIFICATION StartSpec
CONSTANTS
    NumTypes = 6
    Object = 2
    TypeInfo = 1
    System = 3
    Null = 0
    Programs <- SomePrograms
    Questions <- SomeQuestions
INVARIANTS
    StartTypeOK
    NeverThrows
    MemoCorrect
    AnswersRight
PROPERTY
    Answered
CHECK_DEADLOCK FALSE
