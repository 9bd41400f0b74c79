SPECIFICATION SqlSpec
CONSTANTS
    i1 = i1
    i2 = i2
    n1 = n1
    w1 = w1
    w2 = w2
    Sessions = {i1, i2, r1}
    Issuers = {i1, i2}
    Connected = {i1, i2}
    Names = {n1, n2}
    Columns = {"a", "b"}
    Bodies <- OneBody
    MaxColumns = 2
    Registered <- OneTable
    MaxDDL = 2
    Writers = {w1, w2}
    PKs = {1, 2}
    Vals = {1, 2}
    MaxIds = 2
    MaxRetries = 2
    Savepoints = {"a"}
    Scenarios <- SqlScenarios
SYMMETRY IssuersSym
INVARIANTS ReadersFresh EntriesCoverRows UniqueHolds ScansSeeOwnWrites ReadsHold
CHECK_DEADLOCK FALSE
