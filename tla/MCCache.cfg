SPECIFICATION SchedSpec
CONSTANTS
    Users = {u1, u2, u3}
    Keys = {k1}
    Entries = {e1, e2}
    NoKey = NoKey
    NoEntry = NoEntry
    InitCapacity = 1
    MaxAppend = 2
    MaxChunk = 1
    MaxSize = 3
INVARIANTS
    TypeOK
    RefcntExact
    OneFetchPerKey
    NoUseAfterFree
    IdleEntriesSealed
    NoOrphanedWaiter
    NoLeak
    CopiesInBounds
PROPERTIES
    SealedContent
    StoresResponses
    SettledReadersLeave
