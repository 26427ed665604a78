CONSTANTS
    c1 = c1
    c2 = c2
    c3 = c3
    Clients = {c1, c2, c3}
    Size <- Sizes
    Kind <- Kinds
    HeaderBytes = 2
    BUFFER_SIZE = 3
    SizeMod = 8
    SplitHeader = FALSE
    MaxFaults = 1
SPECIFICATION FairSpec
INVARIANTS
    LengthIsTheRest
    
PROPERTY SnippetIsReceived
CHECK_DEADLOCK FALSE
