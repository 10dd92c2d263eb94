SPECIFICATION ReqSpec
CONSTANTS
    a1 = a1
    a2 = a2
    u1 = u1
    s1 = s1
    s2 = s2
    Idle = Idle
    Users <- MCUsers
    Admins <- MCAdmins
    Seeded = a1
    Slots <- MCSlots
    RecoveryWindow = 1
    MaxTime = 1
CHECK_DEADLOCK FALSE
INVARIANTS
    ReqTypeOK
    NoAdminEverDeleted
SYMMETRY MCSymmetry
PROPERTIES
    WindowMovesByReview
    DeletedWakesOnlyByName
    OnlyAdminsRestore
