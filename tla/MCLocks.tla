------------------------------ MODULE MCLocks ------------------------------
EXTENDS Locks
CONSTANTS n1, n2, g1, g2
Everywhere == [g \in {g1, g2} |-> {n1, n2}]
OneNode == [g \in {g1, g2} |-> {n1}]
WithoutSend == DOMAIN Path \ {"SendCMD"}
Symmetry == Permutations({n1, n2}) \cup Permutations({g1, g2})
=============================================================================
