SPECIFICATION Spec
CONSTANTS
    m0 = m0
    m1 = m1
    m2 = m2
    m3 = m3
    Group = {0, 1}
    GroupOf <- Owners
    Txn = {"g0", "g1", m0, m1, m2, m3, "ab", "ac", "bc", "ba"}
    Vin <- AllInputs
    Vout <- AllOutputs
    Genesis <- Firsts
    MaxLost = 1
INVARIANTS
    TypeOK
    
    CoinsArrive
CHECK_DEADLOCK FALSE
SYMMETRY Symmetry
