\* A market order, a limit order, a closer and every maintenance job.
SPECIFICATION FairSpec
CONSTANTS
    r1 = r1
    m1 = m1
    c1 = c1
    None = None
    Refused = Refused
    MarketOrders = {m1}
    LimitOrders = {r1}
    StopLimitOrders = {}
    Closers = {c1}
    EstimateUnits = 2
    Estimate <- MCEstimate
    MaxMargin = 3
    FillMargins = {1}
    OpeningBalance = 4
    Fee = 1
    Commission = 1
    Profits = {1}
    Losses = {2}
    ClosePnls <- MCClosePnls
    FloatingPnls = {0}
    Jobs = {"repair", "sweep", "startup"}
    MaxCrashes = 1
    MaxFaults = 1
CHECK_DEADLOCK FALSE
INVARIANT TypeOK
 
PROPERTY StuckOrdersResolved
