SPECIFICATION ExternalSpec
CONSTANTS
    p = p
    s = s
    u1 = u1
    u2 = u2
    x = x
    Users = {p, s, u1, u2}
    Plat = p
    NoUser = NoUser
    Assets = {x}
    InitialOwner <- OfTheSeller
    InitialCredits <- SomeCredits
    Floor <- LowFloor
    Offers = {200}
    ControlPairs <- Nobody
    FixedTarget = 0
    BlindTarget = 0
    SwampTarget = 0
    MaxListings = 2
    Authorized = {s}
    Buyers <- OneEach
    Quotes = {1, 2}
    Package = 30
    PackageQuotes = {2}
    MaxPayments = 1
    Customers = {u1, u2}
INVARIANTS
    SettledAtQuote
    SoldOnce
    CreditsArePaidFor
PROPERTIES
    MovesOnSettlement
    PaidIsDelivered
CHECK_DEADLOCK FALSE
