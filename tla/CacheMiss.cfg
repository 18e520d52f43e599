SPECIFICATION MCSpec
CONSTANTS
    Blocks <- MCBlocks
    Genesis = "g"
    None = "none"
    Parent <- MCParent
    ChainWork <- MCChainWork
    Address <- MCAddress
    ContextBad = {}
    ConnectBad = {}
    CacheMissed = {"c2"}
    Locks = {}
    Commands = {}
    MaxCommands = 0
    MaxRestarts = 0
    Mixes = {"operator"}
INVARIANTS
    ForwardProgress
