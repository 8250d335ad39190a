CONSTANTS
    Addrs <- MCAddrs
    Texts <- MCTexts
    Chars = {1}
    DefaultCap = 2
    MaxCap = 3
    MaxObjects = 3
    None = None
    Lost = Lost
SPECIFICATION Spec
INVARIANTS TypeOK BufferHoldsCap NothingLeaks SeenIsText
PROPERTIES StraysOnlyIf ImplementsTextBuffer
