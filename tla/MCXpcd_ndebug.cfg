SPECIFICATION Spec
CONSTANTS
    InheritedSets <- MCInheritedSets
    OpenMax = 1030
    NDebug = TRUE
CHECK_DEADLOCK FALSE
INVARIANTS
    OrderlySigint
