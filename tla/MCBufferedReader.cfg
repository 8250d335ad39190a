CONSTANTS
    Bytes <- MCBytes
    Input <- MCInput
    Caps = {0, 1, 2, 3, 4}
    ReadCap = 2
    Errs = {EIO}
SPECIFICATION Spec
INVARIANTS TypeOK NothingLost EmptyMeansDry
PROPERTIES PeekedComesNext ImplementsInStream
