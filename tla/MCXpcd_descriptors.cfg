SPECIFICATION Spec
CONSTANTS
    InheritedSets <- MCInheritedHigh
    OpenMax = 1030
    NDebug = FALSE
CHECK_DEADLOCK FALSE
INVARIANTS
    DescriptorsClosed
