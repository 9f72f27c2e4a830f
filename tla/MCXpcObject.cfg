SPECIFICATION FairSpec
CONSTANTS
    Objects = {o1, o2, o3, o4}
    Handles = {h1, h2}
    Keys = {k1}
    NoKey = NoKey
    Indices = {0, 1}
    RefMod = 6
    Practices = {}
INVARIANTS HandleSafe SoleOwner CountExact NoLeak
PROPERTIES
    NoResurrection
    HeapDrains
