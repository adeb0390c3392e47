SPECIFICATION FairSpec
CONSTANTS
    OrderIds = {o1, o2, o3, o4}
    Prices = {1, 2}
    Quantities = {0, 1, 2}
    QuantityBits = 2
    NoTrade = NoTrade
INVARIANTS IndexAgrees BookAtRest
PROPERTIES TradesAreFills PriceTimePriority MatchingEnds
