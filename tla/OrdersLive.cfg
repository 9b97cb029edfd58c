CONSTANTS
    Live = {o1, o2}
    Paper = {}
    Handlers = {h1}
    Reconciler = reconciler
    NoIntent = NoIntent
    Qty = 1
    BatchSize = 2
    PlainErrors = FALSE
    SlowQueue = FALSE
    MaxPlaces = 1
    MaxSyncs = 0
    MaxCancels = 1
    MaxCalls = 6
    MaxFaults = 1
SPECIFICATION FairSpec
INVARIANT NoMoneyUnrecorded
PROPERTY RowsConverge
