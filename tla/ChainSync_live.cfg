SPECIFICATION FairSpec
CONSTANTS
    Label = {1, 2}
    Block <- TreeSmall
    MaxHeight = 3
    Nil = Nil
    Peer = {p1}
    Free = Free
    Starts <- AnyStoreOrNone
    HeadGossip <- SomeHeads
    MaxFailures = 1
    TornReplies = FALSE

    
PROPERTIES
    
    CatchUp
