CONSTANTS
    Tokens = {t1, t2, t3}
    NoToken = NoToken
    Calls = {q1, q2}
    MaxChanges = 1
    MaxFaults = 1
    Devices = {d1}
    NoDevice = NoDevice
SPECIFICATION Spec
INVARIANTS OldSessionsDie OneHeirPerLogin FalseAlarmsHaveACause BrowserKeepsUp
SYMMETRY BrowserSymmetry
CHECK_DEADLOCK FALSE
