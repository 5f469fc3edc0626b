SPECIFICATION FairSpec
CONSTANTS
    unfreeze = unfreeze
    Op = {unfreeze}
    Change <- MCChange
    Delay = 1
    MaxTime = 3
    MaxSchedules = 2
    MaxFaults = 1
    MaxRuns = 1
INVARIANTS
    NotLeftStale
    SuccessIsMined
PROPERTIES
    QueueSettles
    OwnFieldOnly
