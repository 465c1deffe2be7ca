SPECIFICATION Spec
CONSTANTS
    a1 = a1
    a2 = a2
    b1 = b1
    fr = fr
    en = en
    None = None
    Sessions = {a1, b1}
    Langs <- MCLangs
    Speaks <- TwoSpeaks
    Wants <- TwoWants
    Bots = {t1, t2}
    Rooms = {r1, r2, r3}
    MaxConcurrent = 1
    Free = {b1}
    TutorMode = {a1}
CHECK_DEADLOCK FALSE
INVARIANTS
    TypeOK
    BotCapacity
    NoAbandonedBot
