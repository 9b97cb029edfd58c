SPECIFICATION Spec
CONSTANTS
    SarStep <- MCSarStep
    SarMaxStep <- MCSarMaxStep
    NumericTolerance <- MCTolerance
    MinHistory = 0
    Setups <- MCSetups
    Bars <- MCBars
    StillBar <- MCStillBar
    MaxBars = 5
    Charted <- MCCharted
INVARIANTS
    NumbersStayInRange
    ReadyInTime
    WindowSuffices
    RebuiltAgrees
    NeverRepaints
CHECK_DEADLOCK FALSE
