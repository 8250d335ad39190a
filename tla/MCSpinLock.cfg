CONSTANT Threads = {t1, t2, t3}
SPECIFICATION FairSpec
INVARIANTS TypeOK MutualExclusion CellTellsOwned
PROPERTIES ImplementsLock SomeoneGetsIn
