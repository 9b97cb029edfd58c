SPECIFICATION AccountsSpec
CONSTANTS
    Accounts = {a1, a2}
    Calls = {c1, c2}
    NoAccount = NoAccount
    MaxAccounts = 1
SYMMETRY Symmetry
INVARIANTS
    RevokedForGood
    StatusIsTheLastAnswer
