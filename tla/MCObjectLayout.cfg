SPECIFICATION LayoutSpec
CONSTANTS
    NumTypes = 5
    Object = 2
    TypeInfo = 1
    NumSigs = 3
    Programs <- SomePrograms
    Bodies <- SomeBodies
    Name <- Named
INVARIANTS
    AcceptedIsLegal
    FieldsApart
    DispatchRight
    FailsOnlyForAbstract
CHECK_DEADLOCK FALSE
