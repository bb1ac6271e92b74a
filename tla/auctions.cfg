SPECIFICATION Spec
CONSTANTS
    u1 = u1
    u2 = u2
    Auctions = {a, b}
    Users = {u1, u2}
    NoUser = NoUser
    InitialCredits <- FewCredits
    MaxCrashes = 1
INVARIANTS
    PriceCountsBids
    WinnerHasBid
    BidsArePaid
PROPERTIES
    NoBidAfterEnd
    ExpiredEnds
CHECK_DEADLOCK FALSE
