SPECIFICATION Spec
CONSTANTS
    u1 = u1
    u2 = u2
    p1 = p1
    Users = {u1, u2}
    Plat = Plat
    Nobody = Nobody
    InitialCredits <- Pocket
    Posts = {p1}
    Author <- ByU2
    Payments = {x}
    Images = {i}
    Threads = {t1, t2}
    MaxOperations = 3
INVARIANTS
    WalletTypeOK
    BalanceIsBooked
    PaidOnce
CHECK_DEADLOCK FALSE
