SPECIFICATION Spec
CHECK_DEADLOCK FALSE
CONSTANTS
    Radix = 3
    Width = 4
    Absent = Absent
    Starts <- ByteEdges
    MaxNew = 2
    MaxForks = 1
    MaxDepth = 1
    MaxCrashes = 1
INVARIANTS
    TypeOK
    CacheFresh
    ChainOnDisk
    IndexesFollow
    HeadsReachable
