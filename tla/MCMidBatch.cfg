SPECIFICATION Spec
CONSTANTS
    t1 = t1
    t2 = t2
    e1 = e1
    e2 = e2
    d1 = d1
    d2 = d2
    Tx = {t1}
    Empty = {e1, e2}
    Deployment = {d1}
    Watched <- MCWatched
    confirmations = 0
    batchSize = 2
    reorgWindow = 4
    MidBatch = {"batch"}
    MaxHeight = 2
    MaxReorgs = 1
    MaxFailures = 0
    MaxLost = 0
    MaxRestarts = 0
PROPERTIES
    MirrorsOneHistory
