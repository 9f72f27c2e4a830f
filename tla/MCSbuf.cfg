CONSTANTS
    Bytes = {"x", " "}
    Space = " "
    Lengths = {0, 3}
    Kinds <- MCKinds
    Strings <- MCStrings
    Pads = {1, 2}
    MinExtend = 2
    MaxExtend = 4
    MaxSent = 3
    MaxUnder = 1
    MaxNested = 2
SPECIFICATION FairSpec
INVARIANTS Integrity NothingLost BlocksAccounted SectionExact
PROPERTY CallsReturn
