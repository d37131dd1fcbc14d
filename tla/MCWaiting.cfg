CONSTANTS
    p1 = p1  p2 = p2  r1 = r1  r2 = r2  r3 = r3  fa = fa  fb = fb
    Procs = {p1, p2}
    Requests = {r1, r2, r3}
    Home <- TwoAndOne
    Fingerprints = {fa, fb}
    Fp <- OneKind
    Forced = {r2, r3}
    LockAge = 1
    SharedIndex = TRUE
    ShmMayFail = {r3}
    MayCrash = {p2}
    NoFp = NoFp  NoLock = NoLock  NoRecord = NoRecord
    NoReader = NoReader  NoTarget = NoTarget
    Readers = {f1}
    BodyLength = 2
    EntryLimits = {1, 2}
    QueueDepth = 1
    BodyLimit = 2
    MaxFrames = 3
    Callers = {c1, c2}
    MaxConnects = 3
SPECIFICATION WaitingSpec
INVARIANTS BodiesWhole PendingMeansConnecting
PROPERTIES WaiterResumes ReaderWakes AnswerReleased WaitersResume
CHECK_DEADLOCK FALSE
