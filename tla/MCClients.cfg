SPECIFICATION FairSpec
CONSTANTS
    Parts = {"page", "chip", "widget", "store", "scanner", "country", "account"}
    Callbacks = {"none", "good", "malformed"}
    StatusReplies = {"confirmed", "other", "missing"}
    MaxLate = 2
    Taps = {1}
    Chunks <- ChunkCounts
    MaxStarts = 2
    MaxPolls = 1
    MaxPhones = 1
    Reporters = {r1}
    MaxBirths = 2
    Links = {a, b}
    MaxScans = 3
    MaxMounts = 1
    MaxChanges = 1
    OtherBuilders = {o1}
    Codes = {1, 2}
    Groups <- PresetLists
    Millis = {1}
    MaxLateRoots = 1
    Tabs = {t1}
    Ids = {i1}
    MaxKeys = 3
    MaxRequests = 2
INVARIANTS
    TypeOK
    NothingLeftRunning
    VerifiedWasAccepted
    AcceptedButError
    UndisturbedReadIsWhole
    OneTrueResult
    FailedThoughAccepted
    OneScanUnlessReplaced
    ResultWasAnswered
    RootIsOfTheSelection
    AccountMatchesChain
    StoredKeyWorks
PROPERTIES
    AttemptEnds
    ReadSettles
    ResultComes
    GoesBackOnlyByRace
    WorkingKeyDropped
CHECK_DEADLOCK FALSE
