SPECIFICATION FairSpec
CONSTANTS
    j1 = j1
    j2 = j2
    j3 = j3
    u1 = u1
    u2 = u2
    Jobs <- MCTwoJobs
    Users <- MCUsers
    Owner <- MCOneOwner
    CallLimit = 2
    MaxJobs = 1
    MaxChain = 2
    MaxDay = 1
INVARIANT DoneIsBilledOnce
PROPERTY LoadedJobSettles
