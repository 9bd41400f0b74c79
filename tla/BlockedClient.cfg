SPECIFICATION BothSpec
CONSTANTS
    Admins = {a1, a2}
    MaxBlocks = 3
    Clients = {c1}
    Producers = {p1}
    Keys = {k1, k2}
    Elems = {1, 2}
    StringKeys = {}
    Commands <- LoneCommands
    MaxCalls = 2
    MaxRetries = 1
    Nil = Nil
    k1 = k1
    k2 = k2
INVARIANTS ErrorFlagIsCurrent ErrorReported
PROPERTIES UnblockEndsWait BlockedClientServed
CHECK_DEADLOCK FALSE
