SPECIFICATION MCSpec
CONSTANTS
    Tabs = {t1, t2}
    u1 = u1
    t1 = t1
    Users = {u1}
    Anon = anon
    Keys = {k}
    Owner <- MCOwner
    Outcomes = {"done"}
    MaxLoops = 2
    MaxTurns = 4
    Among = 1
INVARIANT
    RunningIsPolled
PROPERTY
    PolledEntrySettles
CHECK_DEADLOCK FALSE
