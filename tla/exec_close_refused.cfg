\* A loss beyond the balance.
SPECIFICATION Spec
CONSTANTS
    m1 = m1
    c1 = c1
    None = None
    Refused = Refused
    MarketOrders = {m1}
    LimitOrders = {}
    StopLimitOrders = {}
    Closers = {c1}
    EstimateUnits = 2
    Estimate <- MCEstimate
    MaxMargin = 3
    FillMargins = {1, 3}
    OpeningBalance = 3
    Fee = 1
    Commission = 1
    Profits = {1}
    Losses = {4}
    ClosePnls <- MCClosePnls
    FloatingPnls = {0}
    Jobs = {}
    MaxCrashes = 0
    MaxFaults = 0
CHECK_DEADLOCK FALSE
INVARIANT NoCloseRefused
