SPECIFICATION MFairSpec
CONSTANTS
    t1 = t1
    t2 = t2
    e1 = e1
    e2 = e2
    d1 = d1
    d2 = d2
    Tx = {t1}
    Empty = {e1}
    Deployment = {d1}
    Watched <- MCWatched
    confirmations = 1
    batchSize = 2
    reorgWindow = 4
    MidBatch = {"cursor"}
    MaxHeight = 3
    MaxReorgs = 2
    MaxFailures = 1
    MaxLost = 0
    MaxRestarts = 0
INVARIANTS
    ListedAreKnown
PROPERTIES
    RiskSettles
