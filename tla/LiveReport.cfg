SPECIFICATION Spec
CONSTANTS
    h1 = h1
    h2 = h2
    m1 = m1
    Hosts <- MCHosts
    Mounts <- MCMounts
    TicksPerDay = 2
    MaxClock = 2
    LookbackDays = 1
    CacheTtl = 1
    Limits <- MCLimits
    ManyCritical = 2
    Values <- MCValues
    LogSizes <- MCLogSizes
    Users <- MCUsers
    Answers <- MCAnswers
    MaxRecords = 2
    Queried <- MCQueried
    Callers = {a}
CHECK_DEADLOCK FALSE
INVARIANT EveryClusterHasItsReport
