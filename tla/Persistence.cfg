SPECIFICATION Spec
CONSTANTS
    Blocks <- MCBlocks
    Genesis = "g"
    NoBlock = "null"
    Parent <- MCParent
    BettingBlocks <- MCBettingBlocks
    Spends <- MCSpends
    Creates <- MCCreates
    FlushOrder <- MCFlushOrder
    MaxCrashes = 2
INVARIANTS
    CoinsFollowTip
    EvoFollowsTip
    CoinsWithinIndex
    CrashesHarmless
CHECK_DEADLOCK FALSE
