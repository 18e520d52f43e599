SPECIFICATION MCSpec
CONSTANTS
    Blocks <- MCBlocks
    Genesis = "g"
    None = "none"
    Parent <- MCParent
    ChainWork <- MCChainWork
    Address <- MCAddress
    ContextBad = {}
    ConnectBad = {"c2"}
    CacheMissed = {}
    Locks = {"b2"}
    Commands = {"invalidate", "reconsider", "precious"}
    MaxCommands = 2
    MaxRestarts = 1
    Mixes = {"locks", "operator"}
INVARIANTS
    CandidatesExact
    FailedListed
    FailedHasCause
    ActiveChainUsable
    TipIsBest
    ForwardProgress
    LockHeld
