SPECIFICATION Spec
CONSTANTS
    n1 = n1
    n2 = n2
    g1 = g1
    g2 = g2
    Node = {n1, n2}
    Goroutine = {g1, g2}
    Home <- Everywhere
    Runs <- WithoutSend
    Nobody = Nobody
INVARIANTS
    TypeOK
    Ordered
    NoCircularWait
SYMMETRY Symmetry
