SPECIFICATION Spec
CONSTANTS
    Users = {u1, u2}
    Keys = {k1}
    Entries = {e1}
    NoKey = NoKey
    NoEntry = NoEntry
    InitCapacity = 1
    MaxAppend = 1
    MaxChunk = 1
    MaxSize = 1
INVARIANT
    ReleaseLogReadsLiveEntry
