SPECIFICATION Spec
CONSTANTS
    j1 = j1
    j2 = j2
    j3 = j3
    u1 = u1
    u2 = u2
    Jobs <- MCJobs
    Users <- MCUsers
    Owner <- MCOwner
    CallLimit = 1
    MaxJobs = 2
    MaxChain = 1
    MaxDay = 1
INVARIANTS
    TypeOK
    OvershootBoundedByOverlap
SYMMETRY MCSymmetry
PROPERTIES
    OldestDroppedFirst
    ImplementsJobBoard
