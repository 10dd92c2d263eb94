SPECIFICATION Spec
CONSTANTS
    t1 = t1
    t2 = t2
    c1 = c1
    c2 = c2
    NoTab = NoTab
    Tabs <- TwoTabs
    Calls <- MCCalls
    TabOf <- CallEach
    MaxPairs = 3
    MaxFaults = 0
CHECK_DEADLOCK FALSE
SYMMETRY MCSymmetry
INVARIANTS
    TypeOK
    OneLiveTokenPerLogin
    StoredPairDiesInTransit
PROPERTIES
    EndedLoginStaysEnded
