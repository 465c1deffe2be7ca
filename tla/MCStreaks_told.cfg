SPECIFICATION FairSpec
CONSTANTS
    Users = {u, v}
    Restorers = {u}
    MaxDay = 6
    MonthLength = 4
    RestoreWindow = 2
    RestoreMonthlyQuota = 1
    Milestones = {}
CHECK_DEADLOCK FALSE
PROPERTY LossTold
