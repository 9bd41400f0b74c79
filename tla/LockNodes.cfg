SPECIFICATION Spec
CONSTANTS
    c1 = c1
    c2 = c2
    n1 = n1
    n2 = n2
    Callers = {c1, c2}
    Nodes = {n1, n2}
    NodeOf <- TwoNodes
    MaxAcq = 2
SYMMETRY NodeSwap
INVARIANTS LeaseProtects NoLostRelease NoDoubleClose
CHECK_DEADLOCK FALSE
