CONSTANTS
    Callers = {c1, c2}
    Capacity = 2
    Rate = 2
    Scale = 3
    Weights = {1}
    Late = 0
    MaxTime = 9
    LastCall = 9
    MaxCalls = 9
    MaxRestarts = 1
    NoOrder = NoOrder
    Quantity = 2
    RecvWindow = 1
    Timeout = 2
    LastJob = 0
    MaxJobs = 2
SPECIFICATION FairAdaptersSpec
INVARIANTS WindowBudget AnswersAreTrue SafeToGiveUp
PROPERTY JobsEnd
CHECK_DEADLOCK FALSE
