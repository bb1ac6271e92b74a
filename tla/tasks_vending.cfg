SPECIFICATION TasksSpec
CONSTANTS
    p = p
    u1 = u1
    u2 = u2
    x = x
    y = y
    z = z
    Users = {p, u1, u2}
    Plat = p
    NoUser = NoUser
    Assets = {y}
    InitialOwner <- Treasury
    InitialCredits <- Rich
    Floor <- LowFloor
    Offers = {500}
    ControlPairs <- Nobody
    FixedTarget = 0
    BlindTarget = 1
    SwampTarget = 0
    MaxListings = 2
    Budgets = {217}
    MaxCrashes = 1
PROPERTIES
    SettlesUnlessVended
CHECK_DEADLOCK FALSE
