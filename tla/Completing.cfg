SPECIFICATION FairSpec
CONSTANTS
    p1 = p1
    p2 = p2
    Provider = {p1, p2, p3}
    Price <- MCPrice
    Honest <- AllButP1
    Reliable <- AllButP1
    NumItems = 3
    ChunkSize = 2
    Redundancy = 2
    StartBalance = 60
    Value = {right, wrong}
    Right = right
    NoResult = NoResult
    Nobody = Nobody
CHECK_DEADLOCK FALSE
PROPERTY JobCompletes
