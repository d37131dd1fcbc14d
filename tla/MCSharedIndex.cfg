CONSTANTS
    w1 = w1  w2 = w2  k1 = k1  v1 = v1  rule = rule
    Workers = {w1, w2}
    Started = {w1}
    Keys = {k1}
    Vals = {v1}
    Rules = {rule}
    Batches <- AllBatches
    RingCapacity = 1
    MayReject = TRUE
    MayDieWriting = TRUE
    MaxSeq = 2
    MaxRebuilds = 1
    NoEntry = NoEntry  NoKey = NoKey  NoVal = NoVal
SPECIFICATION FairSpec
INVARIANT IndexSound
PROPERTIES Converges ImplementsReplicatedIndex
CHECK_DEADLOCK FALSE
