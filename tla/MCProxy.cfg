SPECIFICATION FairProxySpec
CONSTANTS
    Workers = {w1, w2, w3}
    Tasks = {t1, t2, t3}
    NoTask = NoTask
    NoThread = NoThread
INVARIANTS
    OneOwner
    TableOutlivesWorkers
    ListIsQueue
    EnoughAwake
PROPERTIES
    FifoWorkQueue
    EveryConnectionClosed
    ProxyReturns
