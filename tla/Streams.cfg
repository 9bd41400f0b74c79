SPECIFICATION Spec
CONSTANTS
    g1 = g1
    g2 = g2
    bob = bob
    None = None
    MaxMs = 1
    MaxSeq = 1
    NodeSize = 2
    Clients = {c1, c2}
    Groups = {g1, g2}
    Consumers = {alice, bob}
    ShortNames = {bob}
    Producers = {p1}
    IIDs = {i1, i2}
    Durations = {100}
    Maxsizes = {1}
    MaxGen = 1
    AddTrims <- XAddTrims
    Trims <- XTrims
    Workloads <- AllWork
INVARIANTS   RetryRecognised TrimsAgree
PROPERTY NewIDsAscend
SYMMETRY ClientSymmetry
