SPECIFICATION Spec
CONSTANTS
    MaxConns = 2
    MaxMatches = 2
    MaxDrops = 1
    NetCap = 1
    QueueCap = 2
    MaxPartners = 2
    Countdown = 2
    MaxTalk = 1
    UpCap = 1
    DownCap = 1
    MaxFails = 1
    Modes <- MCModes
    NoText = NoText
    NoProfile = NoProfile
    Texts <- MCTexts
    PII <- MCPII
    Mistaken <- MCMistaken
    Corrected <- MCCorrected
    Playlist <- MCPlaylist
    Drafts <- MCDrafts
    Trimmed <- MCTrimmed
    CacheMax = 1
    MaxMsgs = 2
    MaxMounts = 2
    MaxSelects = 2
    MaxIds = 2
    MaxVersions = 2
    WireCap = 2
    HistMax = 1
    MaxLog = 2
    MaxEdits = 1
    MaxSocketDrops = 1
    BusCap = 1
    Days = 2
    MaxTokens = 2
    MaxLosses = 1
    MaxAsked = 2
    Langs = {fr, en}
    NoLang = NoLang
    MaxPolls = 2
    MaxStarts = 1
    MaxPays = 1
    MaxHearts = 2
    MinPoints = 2
    MaxMiss = 1
    MaxFaults = 1
    MaxPlays = 2
    MaxReads = 1
    Courses = {ja, ko}
    NoCourse = NoCourse
    Lessons = 2
    Script = 1
    MaxCalls = 2
    MaxVocabCalls = 2
    MaxRequests = 2
    MaxAsks = 1
    Accounts = {ann}
    Nobody = Nobody
    Faults = TRUE
    MaxReqs = 3
    MaxLinks = 1
    MaxForms = 1
    Words = {w1}
    Batch = 1
    MaxGrades = 2
    Premium = TRUE
    MaxHist = 6
    MaxPuts = 2
    Pictures = {pic1, pic2}
    NoPicture = NoPicture
    MaxPhotos = 2
    Tabs = {t1, t2}
    Deliveries = {d1, d2}
    MaxCustomers = 2
    MaxEvents = 2
    MaxEffects = 2
VIEW View
CHECK_DEADLOCK FALSE
INVARIANTS
    TypeOK
    MessagesOfThisPeer
    SearchHasSocket
    TandemInStep
    NextForThisPartner
    FriendsAgree
    MadeIsKept
    WarnedBeforePII
    TranslatedOnce
    SavedIsThisWord
    ThreadConverges
    OneTokenPerLoss
    PaidOnce
    NoHoleInPath
    LinkOnce
    CertifiedPhoto
    NoEventLost
    MirrorSettles
PROPERTIES
    CorrectionsMoveForward
    CountsThisPair
    RecallNeverShortens
    EditsNotLeftBehind
