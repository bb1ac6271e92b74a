SPECIFICATION Spec
CONSTANTS
    p = p
    u1 = u1
    u2 = u2
    u3 = u3
    w = w
    x = x
    y = y
    z = z
    Users = {p, u1, u2, u3}
    Plat = p
    NoUser = NoUser
    Assets = {x, y}
    InitialOwner <- BothPrivate
    InitialCredits <- Poor
    Floor <- LowFloor
    Offers = {199, 200, 300}
    ControlPairs <- U1ControlsU2
    FixedTarget = 0
    BlindTarget = 0
    SwampTarget = 0
    MaxListings = 3
INVARIANTS
    TypeOK
    FundedLeader
    HoldsOnlyWhileOpen
    ListedMeansForSale
    CreditsConserved
PROPERTIES
    HeldCreditsComeBack
    LeadingOfferRises
CHECK_DEADLOCK FALSE
