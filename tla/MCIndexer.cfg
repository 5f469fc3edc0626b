SPECIFICATION FairSpec
CONSTANTS
    t1 = t1
    t2 = t2
    e1 = e1
    e2 = e2
    d1 = d1
    d2 = d2
    Tx = {t1, t2}
    Empty = {e1}
    Deployment = {d1, d2}
    Watched <- MCWatched
    confirmations = 0
    batchSize = 2
    reorgWindow = 2
    MidBatch = {"cursor"}
    MaxHeight = 3
    MaxReorgs = 2
    MaxFailures = 1
    MaxLost = 1
    MaxRestarts = 1
INVARIANTS
    TypeOK
    StoredBlocksOfCursor
PROPERTIES
    MirrorsOneHistory
    OnlyReplacedDeleted
    CatchesUp
