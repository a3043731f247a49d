SPECIFICATION FairSpec
CONSTANTS
    seed = seed
    a = a
    b = b
    Node = {seed, a, b}
    Seed = seed
    Group <- Groups
    GroupNum <- Numbers
    MaxGroupNum = 3
    MaxStops = 2
    MaxRaces = 1
INVARIANTS
    TypeOK
    GroupsTrue
PROPERTIES
    AllKnown
    NeighboursFound
