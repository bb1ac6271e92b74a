SPECIFICATION Spec
CONSTANTS
    Coins = {1}
    Parcels = {}
    Payouts = {t}
    Urls = {u1, u2}
    NoUrl = NoUrl
    Gates = {"prepare", "submit", "register"}
    Callers = {c1, c2}
    MaxCrashes = 1
    MaxSigned = 3
    MaxIcons = 2
    Orders = {o1, o2}
    Edges = {e1, e2}
    Challenges = {h1, h2}
    NoEdge = NoEdge
    Serves <- AllServed
    NoChallenge = NoChallenge
CONSTRAINT Apart
SYMMETRY Interchangeable
INVARIANTS
    ImageIsOnChain
    SentOnce
    ActiveIsOnChain
PROPERTIES
    ClaimsAreSeparate
    RevokedClaimsNothing
CHECK_DEADLOCK FALSE
