CONSTANTS
    a = a
    b = b
    NL = NL
    Bytes <- MCBytes
    Data <- MCData
    WriteCap = 3
    Errs = {EIO}
    MaxBytes = 6
SPECIFICATION FairSpec
INVARIANTS TypeOK NothingLost InBuffer EmptyIsRewound WriteTellsTaken QuietMeansSent
PROPERTIES ImplementsOutStream CallsReturn
CHECK_DEADLOCK FALSE
