SPECIFICATION PagesSpec
CONSTANTS
    alice = alice
    Tabs = {t1, t2}
    Runner = runner
    Pairs = {p1, p2}
    NoPair = noPair
    MaxPrice = 2
    Unreadable = unreadable
    Null = null
    MaxRules = 2
    MaxLoads = 3
    MaxSaves = 2
    MaxEdits = 2
    Slots = {s1, s2, s3}
    NoRow = noRow
    FirstRows = 1
    MaxRows = 2
    MaxRequests = 3
    MaxElsewhere = 1
    Users = {alice}
    User = alice
    Wallets = {w1, w2}
    Nobody = nobody
    NoWallet = noWallet
    HolderOf <- AliceHoldsAll
    Requests = {r1, r2}
    MaxChallenges = 2
    MaxUnlinks = 1
    MaxReloads = 1
    MaxSent = 2
    SarStep <- MCSarStep
    SarMaxStep <- MCSarMaxStep
    NumericTolerance <- MCTolerance
    Tried = {"RSI", "MACD"}
    FirstOffered = "RSI"
    Templates = {"customRules", "rsiReversal"}
    FirstTemplate = "customRules"
    MaxFormEdits = 3
INVARIANTS
    RulesCanBeObeyed
    GoneRowsStayGone
    QuietPagesAreTrue
    SubscribersAreProven
    DefaultsStay
    BuiltBotsRun
PROPERTIES
    LimitsStay
CHECK_DEADLOCK FALSE
