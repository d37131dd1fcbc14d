CONSTANTS
    w1 = w1  w2 = w2  k1 = k1  v1 = v1  rule = rule
    Workers = {w1, w2}
    Started = {w1, w2}
    Keys = {k1}
    Vals = {v1}
    Rules = {rule}
    Batches <- BlindBatches
    RingCapacity = 2
    MayReject = FALSE
    MayDieWriting = FALSE
    MaxSeq = 3
    MaxRebuilds = 0
    NoEntry = NoEntry  NoKey = NoKey  NoVal = NoVal
SPECIFICATION Spec
INVARIANT CaughtUpMeansEqual
CHECK_DEADLOCK FALSE
