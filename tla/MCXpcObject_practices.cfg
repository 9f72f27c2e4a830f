SPECIFICATION Spec
CONSTANTS
    Objects = {o1, o2, o3, o4}
    Handles = {h1, h2, h3}
    Keys = {k1, k2}
    NoKey = NoKey
    Indices = {0, 1}
    RefMod = 7
    Practices = {"overwrite", "index"}
SYMMETRY MCSymmetry
INVARIANTS
    HandleSafe
    SizeField
