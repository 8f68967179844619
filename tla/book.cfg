\* Two workers: the two legs of an OCO pair with a cancellation and a failed
\* call, or an expiring trailing stop and everything that can go wrong once.
SPECIFICATION MCSpec
CONSTANTS
    w1 = w1
    w2 = w2
    a = a
    b = b
    t = t
    NoOrder = NoOrder
    Workers = {w1, w2}
    Orders = {a, b, t}
    Trailing = {t}
    Expiring = {t}
    Pairs = {{a, b}}
    Sibling <- MCSibling
    SecondLegs = {b}
    MaxTrails = 1
    MaxCancels = 1
    MaxFaults = 1
    MaxLost = 1
    MaxRestarts = 1
CHECK_DEADLOCK FALSE
INVARIANT TypeOK
INVARIANT ExecutedOnce
INVARIANT ResolvedOnce
PROPERTY NoResurrection
PROPERTY ExpiringResolved
