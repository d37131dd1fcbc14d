CONSTANTS
    p1 = p1  p2 = p2  r1 = r1  r2 = r2  r3 = r3  fa = fa  fb = fb
    Procs = {p1, p2}
    Requests = {r1, r2, r3}
    Home <- OneAndTwo
    Fingerprints = {fa, fb}
    Fp <- OneKind
    Forced = {}
    LockAge = 0
    SharedIndex = TRUE
    ShmMayFail = {}
    MayCrash = {}
    NoFp = NoFp  NoLock = NoLock  NoRecord = NoRecord
    NoReader = NoReader  NoTarget = NoTarget
SPECIFICATION FairSpec
PROPERTY ExternalReaderTerminates
