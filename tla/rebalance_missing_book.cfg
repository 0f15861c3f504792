SPECIFICATION Spec
CONSTANTS
    Assets <- MCAssets
    LeaderPositions <- MCLeaderPositions
    Books <- MCBooks
    OwnOrders <- MCOwnOrders
    MaxOpenDebit <- MCCap
    MaxEventLoss <- MCMaxLoss
    Bits = 3
    Ticks = 10
    FeeRate = 1
    FeeScale = 10
    CopyRatio = 1
    MinOrderSize = 2
    Epsilon = 0
    MaxPriceDrift = 2
    MaxSlippageBps = 2000
    MaxMoves = 4
PROPERTIES
    BlindSellsNoMore
