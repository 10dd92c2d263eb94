SPECIFICATION Spec
CHECK_DEADLOCK FALSE
CONSTANTS
    t1 = t1
    t2 = t2
    c1 = c1
    c2 = c2
    NoTab = NoTab
    Tabs <- OneTab
    Calls <- MCCalls
    TabOf <- BothInOne
    MaxPairs = 2
    MaxFaults = 1
PROPERTIES
    OnlyLoginFillsStore
