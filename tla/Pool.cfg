SPECIFICATION FairSpec
CONSTANTS
    h1 = h1
    h2 = h2
    c1 = c1
    NULL = NULL
    Handlers <- TwoHandlers
    Conns <- OneConn
    Inserts = 2
    Entries = {"create", "get", "ping"}
INVARIANTS
    PoolAccounted
    HoldersWork
    QueueAccurate
    CloseFindsNoHolder
PROPERTIES
    RequestsFinish
    ProbesEnd
    AbandonedFinish
    AbandonedSlotsReturn
    ShutdownEnds
