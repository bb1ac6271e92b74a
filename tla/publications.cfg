SPECIFICATION Spec
CONSTANTS
    Coins = {1, 2}
    Parcels = {d}
    Payouts = {}
    Urls = {}
    NoUrl = NoUrl
    Gates = {"prepare", "submit", "register"}
    Callers = {c1}
    MaxCrashes = 1
    MaxSigned = 2
    MaxIcons = 0
    Orders = {d}
    Edges = {}
    Challenges = {}
    NoEdge = NoEdge
    Serves <- AllServed
    NoChallenge = NoChallenge
PROPERTIES
    SignedForGood
    PublishedUnlessStuck
    SignedUnlessKilled
CHECK_DEADLOCK FALSE
