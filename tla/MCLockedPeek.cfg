CONSTANTS
    Threads <- MCThreads
    Readers <- MCThreads
    Printers <- MCPrinters
    HooksCap = 1
    MaxPrints = 0
    MaxCalls = 1
    MaxIn = 2
    None = None
SPECIFICATION Spec
INVARIANTS BytesOnce
