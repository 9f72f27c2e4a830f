SPECIFICATION Spec
CONSTANTS
    Objects = {o1, o2, o3}
    Handles = {h1, h2}
    Keys = {k1}
    NoKey = NoKey
    Indices = {0, 1}
    RefMod = 6
    Practices = {"retain_borrowed"}
SYMMETRY MCSymmetry
INVARIANTS
    HandleSafe
