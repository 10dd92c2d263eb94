SPECIFICATION Spec
CONSTANTS
    boss = boss
    ann = ann
    m1 = m1
    retired = retired
    t1 = t1
    t2 = t2
    Users <- MCUsers
    Admins <- MCAdmins
    Models <- MCModels
    Registry <- MCRegistry
    Plans <- MCPlans
    Kpis <- MCKpis
    Limits <- MCLimits
    Threads <- MCThreads
    MaxRequests = 3
    MaxRestarts = 1
    SmtpConfigured = TRUE
    InviteRights <- MCInviteRights
    AccessBodies <- MCAccessBodies
    PlanBodies <- MCPlanBodies
    Fields <- MCFields
    FieldTask <- MCFieldTask
    DefaultLevel = 80
    Levels <- MCLevels
    FileTypes <- MCFileTypes
    HostNames <- MCHostNames
SYMMETRY MCSymmetry
CHECK_DEADLOCK FALSE
INVARIANTS
    TypeOK
    SomebodyHasThePassword
    NoHiddenFile
PROPERTIES
    ColumnsKeepTheirOwners
    DeletionSucceeds
    LimitsMoveByName
