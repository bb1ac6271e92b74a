SPECIFICATION TasksSpec
CONSTANTS
    p = p
    u1 = u1
    u2 = u2
    x = x
    y = y
    z = z
    Users = {p, u1, u2}
    Plat = p
    NoUser = NoUser
    Assets = {z}
    InitialOwner <- Mixed
    InitialCredits <- Rich
    Floor <- LowFloor
    Offers = {500}
    ControlPairs <- Nobody
    FixedTarget = 0
    BlindTarget = 0
    SwampTarget = 0
    MaxListings = 1
    Budgets = {}
    MaxCrashes = 0
PROPERTY
    EveryHoldSettles
CHECK_DEADLOCK FALSE
