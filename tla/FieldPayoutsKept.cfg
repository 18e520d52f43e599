SPECIFICATION MCSpec
CONSTANTS
    Pools = {"fieldSettle"}
    Txs <- MCTxs
    BaseView <- FieldView
    MarketOdds <- MCMarketOdds
    BaseHeight = 20
    V3Start = 10
    V4Start = 15
    QuickGamesEnd = 100
    Timespan = 15
    MaxUndoDepth = 3
    PlaceTimeout = 120
    COIN = 100
    MinBet = 25
    MaxBet = 10000
    MaxParlayBet = 4000
    MaxParlayLegs = 5
    BlockTimes = {800}
    Proofs = {1}
    MaxHeight = 24
    MaxBlockTxs = 2
    PlaceMarketSize = 2
    ShowMarketSize = 3
    WORD = 6
    MaintenanceHeight = 1000
INVARIANTS
    Restored
