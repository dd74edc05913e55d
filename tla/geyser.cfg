SPECIFICATION MCFairSpec
CONSTANTS
    m1 = m1
    m2 = m2
    m3 = m3
    d1 = d1
    d2 = d2
    d3 = d3
    w1 = w1
    None = None
    Messages = {m1, m2, m3}
    Muted = {m2}
    Unsubscribed = {m3}
    Deposits = {d1, d2, d3}
    Workers = {w1}
    MaxFound = 2
    MaxFaults = 1
    MaxRestarts = 1
INVARIANTS
    GeyserTypeOK
    CountedOnce
    CreditIsShown
    SyncedIsCredited
PROPERTIES
    EveryMessageIsStored
    EveryDepositIsCredited
CHECK_DEADLOCK FALSE
