SPECIFICATION Spec
CONSTANTS
    small = small
    large = large
    coin = coin
    h1 = h1
    h2 = h2
    Intents = {large}
    ZeroConf = {}
    Deferred = {}
    Hooks = {h1, h2}
    NoIntent = NoIntent
INVARIANT
    FulfilledForGood
CHECK_DEADLOCK FALSE
