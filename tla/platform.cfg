SPECIFICATION Spec
CONSTANTS
    Signers = {"w1", "w2"}
    MaxRotations = 2
    MaxKeyFaults = 1
    Requests = {"r1", "r2"}
    MaxClock = 1
    MaxSessions = 2
    MaxEnrolments = 1
    MaxChallenges = 1
    MaxRevocations = 1
    Calls = {"c1", "c2"}
    Reviews <- MCReviews
    MaxUploads = 1
    MaxRequests = 1
    MaxKycFaults = 1
    Writers = {"w1", "w2"}
    MaxEntries = 3
    MaxTime = 2
    Tabs = {"t1", "t2"}
    Hosts = {"h1", "h2"}
    STRIKE_LIMIT = 2
    NodeTtl = 2
    MaxPushes = 1
    MaxConnects = 2
    MaxHostFaults = 1
    Handlers = {"h1", "h2"}
    MaxPuts = 2
    MaxScans = 2
    MaxDeliveries = 3
    MaxStoreFaults = 1
    Inbound = {"c1", "c2"}
    Kinds <- MCKinds
    Limit = 1
    MaxRate = 1
    Threshold = 2
    Window = 1
    MaxInbound = 2
    MaxTicks = 1
    MaxStepUps = 1
    MaxRedisFaults = 1
    Conns = {"c1", "c2"}
    FixOrders = {"o1"}
    MaxPerIp = 1
    MaxLogons = 1
    News = {"e1"}
    Changers = {"q1", "q2"}
    MaxNoticeFaults = 2
    Desks = {"w1", "w2"}
    Incidents = {"i1", "i2", "i3"}
    AlertOf <- MCAlertOf
    DedupWindow = 2
    MaxClock5 = 4
    Agents = {"g1", "g2"}
    MaxStatusChanges = 2
    Visits = {"v1", "v2"}
    Tickers = {"EURUSD", "XAUUSD"}
    Favorites <- MCFavorites
    MaxLists = 2
    MaxListChanges = 4
CHECK_DEADLOCK FALSE
INVARIANT IdentitySound
 
INVARIANT ChainUnbroken
INVARIANT DoorsSound
INVARIANT RealtimeSound
INVARIANT NoticesSound
