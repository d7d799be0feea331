\* One client, two connections; ids 0 to 4, the first 1 or 3.
SPECIFICATION Spec
CONSTANTS
    MaxID = 4
    CacheSize = 2
    Kind <- MCKinds
    FirstID = {1, 3}
    MaxOps = 4
    MaxQueue = 2
    MaxResends = 1
    MaxConnections = 2
CHECK_DEADLOCK FALSE
INVARIANTS
    TypeOK
    RepeatsNeedAnUncheckedID
    
    RepliesAreNotCrossed
    InOrderClientSurvives
