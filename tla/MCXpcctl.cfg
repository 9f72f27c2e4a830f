CONSTANTS
    Kind <- Kinds
    Entries <- Tree
    Plist <- Lists
    Args <- Arguments
    MaxDepth = 3
    MaxNesting = 4
SPECIFICATION FairSpec
INVARIANTS EveryListSent SocketOpened 
PROPERTY Ends
CHECK_DEADLOCK FALSE
