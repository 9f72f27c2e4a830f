CONSTANTS
    Heads = {h1, h2}
    Elems = {e1, e2, e3}
    NULL = NULL
SPECIFICATION MCSpec
INVARIANTS WellLinked LoopOnCourse
PROPERTIES ImplementsLists DrainEmpties
