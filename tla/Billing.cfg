CONSTANTS
    alice = alice
    bob = bob
    Users = {alice}
    Wallets = {w1}
    Nobody = Nobody
    NoWallet = NoWallet
    HolderOf <- AliceHoldsAll
    Requests = {r1}
    MaxChallenges = 1
    MaxUnlinks = 1
    Confirmations = 1
    Span = 2
    Period = 1
    Grace = 1
    MaxBlocks = 4
    MaxReorgs = 1
    MaxFaults = 1
    LinkedFirst = TRUE
    LapseJob = TRUE
SPECIFICATION FairSpec
PROPERTIES ConfirmedChargesAreCredited ImplementsPaidTime
INVARIANTS CreditsAreFinal NothingIsSkipped
CHECK_DEADLOCK FALSE
