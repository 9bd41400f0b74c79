SPECIFICATION Spec
CONSTANTS
    Clients = {c1, c2}
    Keys = {k1, k2}
    Serialized = {k1}
    c1 = c1
    c2 = c2
    MaxCmds <- Budget
    MaxRetries = 1
    Free = Free
INVARIANTS RepliesMatchStore NoAbortStorm
PROPERTIES LocalWatchHolds ExecIsAtomic
CHECK_DEADLOCK FALSE
