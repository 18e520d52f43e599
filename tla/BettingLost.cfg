SPECIFICATION Spec
CONSTANTS
    Blocks <- MCBlocks
    Genesis = "g"
    NoBlock = "null"
    Parent <- MCParent
    BettingBlocks <- MCBettingBlocks
    Spends <- MCSpends
    Creates <- MCCreates
    FlushOrder <- MCFlushOrder
    MaxCrashes = 2
INVARIANTS
    HeightMeansComplete
CHECK_DEADLOCK FALSE
