SPECIFICATION Spec
CONSTANTS
    v1 = v1
    an1 = an1
    admin1 = admin1
    admin2 = admin2
    yesterday = yesterday
    none = none
    nobody = nobody
    Views <- MCViews
    Analyses <- MCAnalyses
    Days <- MCDays
    NoDay = none
    Admins <- MCAdmins
    Nobody = nobody
    MaxVersion = 1
SYMMETRY MCSymmetry
INVARIANTS
    TypeOK
    CachedSourceIsCurrent
    LockHeldOnlyWhileReading
PROPERTIES
    OnlyTrendsMoveTheDay
