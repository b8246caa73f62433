SPECIFICATION Spec
CONSTANTS
    Names = {a, b, c}
    MaxParams = 2
    MaxVars = 4
    MaxDepth = 4
INVARIANTS
    TypeOK
    NoCheckFails
    VisibleIdsDistinct
    UndoLogConsistent
PROPERTY
    ImplementsScopeEnv
