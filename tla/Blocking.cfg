SPECIFICATION Spec
CONSTANTS
    c1 = c1
    c2 = c2
    p1 = p1
    k1 = k1
    k2 = k2
    Nil = Nil
    Clients = {c1, c2}
    Producers = {p1}
    Keys = {k1, k2}
    Elems = {1, 2}
    StringKeys = {k2}
    Commands <- MixedCommands
    MaxCalls = 1
    MaxRetries = 1
CHECK_DEADLOCK FALSE
SYMMETRY ClientSymmetry
INVARIANTS ExactlyOnce NoLostWakeup NoLeakedWaiter
PROPERTY FifoService
