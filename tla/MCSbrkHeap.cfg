CONSTANTS
    W = 5
    Header = 1
    Base = 4
    Limit = 16
    Sizes <- MCSizes
    Counts <- MCCounts
SPECIFICATION Spec
INVARIANTS BuffersDisjoint NothingElseLeaks
