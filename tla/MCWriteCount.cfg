CONSTANTS
    a = a
    b = b
    NL = NL
    Bytes <- MCBytes
    Data <- MCData
    WriteCap = 3
    Errs = {EIO}
    MaxBytes = 6
SPECIFICATION Spec
INVARIANT WriteReturnsBytesWritten
CHECK_DEADLOCK FALSE
