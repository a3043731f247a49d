SPECIFICATION Spec
CHECK_DEADLOCK FALSE
CONSTANTS
    alice = alice
    bob = bob
    Owner = {alice, bob}
    Amount = {1, 2}
    Subsidy = 2
    Miners <- ThreeBlocks
    MaxSent = 2
    PackLimit = 2
    MaxReorg = 1
    SelfPayment = FALSE
INVARIANTS
    TypeOK
    
    PoolClosed
    IndexIsChain
