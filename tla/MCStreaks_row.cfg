SPECIFICATION Spec
CONSTANTS
    Users = {u, v}
    Restorers = {u, v}
    MaxDay = 6
    MonthLength = 4
    RestoreWindow = 2
    RestoreMonthlyQuota = 1
    Milestones = {2, 3}
SYMMETRY Symmetry
CHECK_DEADLOCK FALSE
INVARIANTS
    StreaksTypeOK
    StreakIsEarned
    LossAnnouncedOnce
    MilestonesOnce
