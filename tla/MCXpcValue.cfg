CONSTANTS
    HalfBits = 3
    Junk = 1
    MaxDepth = 4
    MaxParts = 4
    Names <- MCNames
    Given <- MCGiven
SPECIFICATION Spec
INVARIANTS
    RoundTrip
    HashTravels
    HashIgnoresOrder
    CopyIsFaithful
    GettersTravel
    DescriptionShowsStructure
CHECK_DEADLOCK FALSE
