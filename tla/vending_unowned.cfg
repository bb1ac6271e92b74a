SPECIFICATION VendingSpec
CONSTANTS
    p = p
    u1 = u1
    u2 = u2
    x = x
    y = y
    Users = {p, u1, u2}
    Plat = p
    NoUser = NoUser
    Assets = {x}
    InitialOwner <- UnownedAndTreasury
    InitialCredits <- Modest
    Floor <- LowFloor
    Offers = {300}
    ControlPairs <- Nobody
    FixedTarget = 0
    BlindTarget = 0
    SwampTarget = 0
    MaxListings = 1
    Budgets = {215, 217}
INVARIANTS
    VendingTypeOK
    BudgetHeldWhileQuoted
    ConveyancesAccounted
    VendedOnce
PROPERTIES
    TitleIsExchanged
    PrivateTitleIsSafe
CHECK_DEADLOCK FALSE
