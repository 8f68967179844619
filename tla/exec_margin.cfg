\* Market, limit and stop-limit order of one account, no maintenance jobs.
SPECIFICATION Spec
CONSTANTS
    m1 = m1
    r1 = r1
    s1 = s1
    c1 = c1
    c2 = c2
    None = None
    Refused = Refused
    MarketOrders = {m1}
    LimitOrders = {r1}
    StopLimitOrders = {s1}
    Closers = {c1, c2}
    EstimateUnits = 2
    Estimate <- MCEstimate
    MaxMargin = 3
    FillMargins = {1, 3}
    OpeningBalance = 4
    Fee = 1
    Commission = 1
    Profits = {1}
    Losses = {4}
    ClosePnls <- MCClosePnls
    FloatingPnls = {0, 1}
    Jobs = {}
    MaxCrashes = 1
    MaxFaults = 1
CHECK_DEADLOCK FALSE
INVARIANT MarginConserved
INVARIANT SettledOnce
INVARIANT LedgerNeverOverstates
