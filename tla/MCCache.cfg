CONSTANTS
    a = a  b = b  c = c  t1 = t1  t2 = t2
    Keys = {a, b}
    Tasks = {t1, t2}
    Dims = {"x", "y"}
    BodySize <- Sizes
    MaxSize = 2
    Inactive = 0
    Settings <- TheSettings
    MaxTime = 1
    NoEntry = NoEntry  NoHash = NoHash  NoTask = NoTask
    Indexed = {a, b, c}
    SizeOfKey <- IndexedSizes
    SizeLimit = 2
    InactiveAfter = 1
    Batch = 2
    Now = 3
    MaxHits = 1
    NotScheduled = NotScheduled
    Mixes <- TheMixes
    Total = 5
    NoMix = NoMix  NoHeader = NoHeader  NoRange = NoRange
    NotCached = NotCached  NoFetch = NoFetch  NoAnswer = NoAnswer
SPECIFICATION CacheSpec
INVARIANTS IndexConsistent FilesMatchIndex LoopsCorrect
    NothingServedTooOld AnswersTheAsker RefreshesConfirmed
PROPERTY IndexedFilesNeverDeleted
SYMMETRY TaskSymmetry
CHECK_DEADLOCK FALSE
