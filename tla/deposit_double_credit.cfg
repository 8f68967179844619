SPECIFICATION Spec
CONSTANTS
    d1 = d1
    rd = rd
    rw = rw
    p1 = p1
    h1 = h1
    h2 = h2
    a1 = a1
    a2 = a2
    NoPartner = NoPartner
    Partners = {p1}
    Deposits = {d1}
    Handlers = {h1, h2}
    DepositAmount = 2
    MaxPspFaults = 1
    Requests = {rd, rw}
    Amount <- MCAmount
    Admins = {a1, a2}
    Pnls <- MCPnls
    MaxLedger = 3
CHECK_DEADLOCK FALSE
INVARIANT CreditedOnce
