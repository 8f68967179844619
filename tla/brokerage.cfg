SPECIFICATION Spec
CONSTANTS
    Parts = {"eod", "stops", "signal", "feeds", "dial", "state", "exposure",
             "sandbox", "quotes", "paper"}
    EodWorkers = {"w1", "w2"}
    Held = {"p1"}
    ClassOf <- MCClass
    FirstDow = 3
    MaxDays = 2
    MaxEodFaults = 1
    Scanners = {"w1", "w2"}
    Tuners = {"w1"}
    Followers = {"u1"}
    TelemetrySpells = 0
    MinSamples = 1
    MaxSpells = 1
    MaxSignals = 2
    MaxFollowed = 1
    MaxVersions = 2
    MaxSignalFaults = 1
    Moves <- MCMoves
    OwnStops <- MCStops
    breakEvenTrigger = 4
    trailingActivation = 6
    atrTrail = 8
    MaxMoves = 2
    MaxOwnMoves = 2
    MaxStopFaults = 1
    Replicas = {"r1", "r2"}
    Levels = {1, 2}
    Garbage = 9
    SanityBound = 3
    FeedDead = 2
    CircuitBreak = 1
    StaleAfter = 1
    MaxRelayed = 1
    MaxMarketMoves = 1
    MaxGarbage = 1
    MaxFeedFaults = 1
    MaxFeeds = 3
    Batches = 3
    MaxPolls = 2
    MaxDrops = 3
    Processes = {"w1", "w2"}
    MaxChanges = 2
    MaxProcessRestarts = 1
    MaxWriteFaults = 1
    Mids = {5, 7}
    Quantities = {1, 2}
    Amounts = {4}
    SeedCapital = 8
    Leverage = 2
    MaxTickets = 3
    Orders = {"o1", "o2", "o3"}
    Asked <- MCAsked
    Servants = {"w1"}
    Prices = {1}
    GrossLimit = 1
    NetLimit = 1
    Tiers = {1, 2}
    MinPositions = 2
    MaxHhi = 40
    Compounding <- MCCompounding
    Client = "u2"
    UserTtl = 1
    MaxUserRevocations = 1
    MaxRestarts = 1
    Step = 20
    MarketPrices = {2000, 2100}
    Daily <- MCDaily
    RealSpread = 40
    HalfSpread = 20
    Bases = {0, 80}
    volatilityThreshold = 40
    volatilityFactor = 15
    maxSpreadMultiplier = 50
    eventMultiplier = 30
    Terms <- MCTerms
    ESMA_LEVERAGE_CAP = 30
    DepthLevels = 3
    TickStep = 10
    SlippageOfLarge = 20
    Tolerance = 40
    MaxPriceTicks = 3
    MaxBaseChanges = 1
    PaperCalls = {"c1", "c2"}
    PaperPrices = {4, 8}
    HalfSpreadOfPaper = 1
    PAPER_START_BALANCE = 6
    PaperLeverage = 2
    MaxPaperCalls = 3
CHECK_DEADLOCK FALSE
INVARIANT EodSound
INVARIANT StopsSound
 
INVARIANT ExposureSound
INVARIANT MarketDataSound
INVARIANT BrokerStateSound
