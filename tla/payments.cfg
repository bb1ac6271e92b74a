SPECIFICATION FairSpec
CONSTANTS
    small = small
    large = large
    coin = coin
    h1 = h1
    h2 = h2
    Intents = {small, coin}
    ZeroConf = {small}
    Deferred = {coin}
    Hooks = {h1, h2}
    NoIntent = NoIntent
INVARIANTS
    PaidForReal
PROPERTIES
    AcceptanceIsFinal
    SettledIsDelivered
CHECK_DEADLOCK FALSE
