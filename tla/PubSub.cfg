SPECIFICATION FairSpec
CONSTANTS
    ch = ch
    p = p
    c1 = c1
    c2 = c2
    Conns = {c1, c2}
    Channels = {ch}
    Patterns = {p}
    Matches <- OnePattern
    QueueSize = 2
    MaxSessions <- SessionBounds
    Scenarios <- TwoScenarios
INVARIANTS TransitionsBalance ConfirmedFirst 
PROPERTY SubscriberServed
CHECK_DEADLOCK FALSE
