CONSTANTS
    Readers = {f1}
    BodyLength = 2
    EntryLimits = {2}
    QueueDepth = 1
SPECIFICATION FillBodySpec
INVARIANT EndedReadersAreComplete
CHECK_DEADLOCK FALSE
