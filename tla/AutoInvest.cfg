SPECIFICATION AutoSpec
CONSTANTS
    Requests = {c1, c2}
    Bots = {b1, b2, b3}
    NoBot = NoBot
    Offers <- MCOffers
    MaxBots = 3
    MaxEnables = 2
SYMMETRY Symmetry
INVARIANTS
    OnePortfolio
    OffMeansOff
    PortfoliosAreWhole
CHECK_DEADLOCK FALSE
