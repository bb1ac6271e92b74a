SPECIFICATION Spec
CONSTANTS
    p = p
    u1 = u1
    u2 = u2
    u3 = u3
    w = w
    x = x
    y = y
    z = z
    Users = {p, u1, u2}
    Plat = p
    NoUser = NoUser
    Assets = {w, x, y, z}
    InitialOwner <- TreasuryAndUnowned
    InitialCredits <- Rich
    Floor <- LowFloor
    Offers = {500, 601}
    ControlPairs <- Nobody
    FixedTarget = 1
    BlindTarget = 1
    SwampTarget = 1
    MaxListings = 4
INVARIANTS
    TitleChain
PROPERTIES
    TitleIsTraded
CHECK_DEADLOCK FALSE
