SPECIFICATION Spec
CONSTANTS
    Users = {u, v}
    Restorers = {u, v}
    MaxDay = 4
    MonthLength = 4
    RestoreWindow = 2
    RestoreMonthlyQuota = 1
    Milestones = {2, 3}
CHECK_DEADLOCK FALSE
INVARIANT RestoresWithinQuota
