CONSTANTS
    Threads <- MCThreads
    Readers <- MCReaders
    Printers <- MCPrinters
    HooksCap = 3
    MaxPrints = 2
    MaxCalls = 4
    MaxIn = 1
    None = None
SPECIFICATION Spec
INVARIANTS TypeOK TiedFirst SentOnce ExitSendsAll HooksInReverse 
PROPERTIES StraysOnlyIf
