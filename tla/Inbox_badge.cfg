SPECIFICATION InboxLiveSpec
CONSTANTS
    MaxSocks = 3
    MaxMsgs = 1
    MaxChanges = 1
    MaxFaults = 1
    NetCap = 2
CHECK_DEADLOCK FALSE
PROPERTIES
    BadgeHeals
