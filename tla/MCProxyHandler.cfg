SPECIFICATION FairSpec
CONSTANTS
    Workers = {w1, w2}
    Messages <- Various
    Words <- Vocabulary
    BufSize = 21
    HostSize = 3
    KeySize = 4
    NoRequest = NoRequest
    NoHost = NoHost
    Entries = {e1, e2}
    NoKey = NoKey
    NoEntry = NoEntry
    InitCapacity = 1
    MaxAppend = 2
    MaxChunk = 1
    MaxSize = 2
INVARIANTS
    CallsInOrder
    ServedWhole
    SentInOrder
    RequestAsMeant
    SharersAskedSame
PROPERTIES
    EveryClientClosed
