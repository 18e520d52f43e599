SPECIFICATION MCFairSpec
CONSTANTS
    Blocks <- MCBlocks
    Genesis = "g"
    None = "none"
    Parent <- MCParent
    ChainWork <- MCChainWork
    Address <- MCAddress
    ContextBad = {"a1"}
    ConnectBad = {"c2"}
    CacheMissed = {}
    Locks = {"b2"}
    Commands = {"invalidate", "reconsider", "precious"}
    MaxCommands = 1
    MaxRestarts = 0
    Mixes = {"lock", "operator"}
PROPERTIES
    EventuallyBest
