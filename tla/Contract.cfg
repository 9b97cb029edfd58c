CONSTANTS
    owner = owner
    user = user
    self = self
    Addresses <- Everyone
    Contract = self
    Deployer = owner
    FirstTreasury = owner
    FirstCharger = owner
    MaxChargeAmount = 1
    Period = 2
    Amounts = {1, 2}
    MaxTime = 3
    MaxDepth = 2
    MaxSettings = 2
SPECIFICATION Spec
INVARIANTS
    OneChargePerPeriod
    ChargeableIsExact
