CONSTANTS
    Live = {o1}
    Paper = {}
    Handlers = {h1}
    Reconciler = reconciler
    NoIntent = NoIntent
    Qty = 2
    BatchSize = 1
    PlainErrors = TRUE
    SlowQueue = FALSE
    MaxPlaces = 1
    MaxSyncs = 0
    MaxCancels = 0
    MaxCalls = 6
    MaxFaults = 0
SPECIFICATION Spec
INVARIANT NoMoneyUnrecorded
