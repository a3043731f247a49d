SPECIFICATION FairSpec
CONSTANTS
    n1 = n1
    n2 = n2
    g1 = g1
    g2 = g2
    Node = {n1}
    Goroutine = {g1, g2}
    Home <- OneNode
    Runs = {"Sync", "SendCMD"}
    Nobody = Nobody
CHECK_DEADLOCK FALSE
PROPERTIES
    EveryRunEnds
