SPECIFICATION Spec
CONSTANTS
    a1 = a1
    a2 = a2
    b1 = b1
    fr = fr
    en = en
    None = None
    Sessions = {a1, a2, b1}
    Langs <- MCLangs
    Speaks <- MCSpeaks
    Wants <- MCWants
    Bots = {}
    Rooms = {r1, r2, r3, r4}
    MaxConcurrent = 0
    Free = {a1}
    TutorMode = {}
CHECK_DEADLOCK FALSE
INVARIANT NoDeadRoom
