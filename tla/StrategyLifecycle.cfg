SPECIFICATION FairSpec
CONSTANTS
    Block = 2
    Floor = 2
    Grade <- AtTheFloor
    Pairs = 2
    Variations = 2
    MinTrades = 2
    MaxLosses = 1
    MaxFailures = 3
    MaxTrades = 2
    MaxFaults = 1
INVARIANTS PoolBounded TradedIsPromoted
PROPERTIES Unblocked
