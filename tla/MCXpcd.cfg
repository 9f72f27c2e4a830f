SPECIFICATION FairSpec
CONSTANTS
    InheritedSets <- MCInheritedSets
    OpenMax = 1030
    NDebug = FALSE
CHECK_DEADLOCK FALSE
INVARIANTS
    OrderlySigint
    BeginsWatched
    PipeSignalMeansDeadChild
    LaunchClosesPipe
PROPERTIES
    SigintStops
    ExitReported
    ChildReleased
