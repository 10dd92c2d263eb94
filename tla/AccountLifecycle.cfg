SPECIFICATION Spec
CONSTANTS
    a1 = a1
    a2 = a2
    u1 = u1
    u2 = u2
    Users <- MCUsers
    Admins <- MCAdmins
    Seeded = a1
    RecoveryWindow = 2
    MaxTime = 5
INVARIANTS
    TypeOK
    SomeAdminCanAct
    NoAdminUnderReview
    RecoveryInsideWindow
PROPERTIES
    WindowNeverMoves
    DormantWakesOnlyByName
