CONSTANTS
    Live = {o1}
    Paper = {p1}
    Handlers = {h1, h2}
    Reconciler = reconciler
    NoIntent = NoIntent
    Qty = 2
    BatchSize = 1
    PlainErrors = TRUE
    SlowQueue = TRUE
    MaxPlaces = 2
    MaxSyncs = 1
    MaxCancels = 1
    MaxCalls = 2
    MaxFaults = 1
SPECIFICATION Spec
INVARIANT RowsClaimOnlyTheTruth
PROPERTY ImplementsLedger
SYMMETRY HandlerSymmetry
