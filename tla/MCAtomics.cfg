CONSTANTS
    x = x
    y = y
    Threads = {t1, t2}
    Cells <- MCCells
    Values <- MCValues
    Initial = 0
    Combine <- MCCombine
    MaxCalls = 2
    Calls <- MixedCalls
SPECIFICATION FairSpec
INVARIANTS TypeOK PendingAreLast
PROPERTIES ImplementsSeqMemory CallsReturn
CHECK_DEADLOCK FALSE
