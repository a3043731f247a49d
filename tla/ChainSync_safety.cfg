SPECIFICATION Spec
CONSTANTS
    Label = {1, 2}
    Block <- TreeForked
    MaxHeight = 3
    Nil = Nil
    Peer = {p1, p2}
    Free = Free
    Starts <- AnyStore
    HeadGossip <- NoHeads
    MaxFailures = 1
    TornReplies = FALSE
INVARIANTS
    IInv
    TypeOK
    
    StoreIsChain
    TxnIndexIsChain
    
    NoNilBlock
    ForkPointFound
    
PROPERTIES
    ImplementsLongestChain
