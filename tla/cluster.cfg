SPECIFICATION Spec
CONSTANTS
    w1 = w1
    w2 = w2
    w3 = w3
    Workers = {w1, w2}
    Bodies <- MCBodies
    Uuids = {1, 2, 3, 4, 5}
    MaxLeaseFaults = 1
    Replicas = {w1, w2, w3}
    MaxFeedFaults = 2
    Servers = {w1, w2}
    MaxToggles = 3
    MaxSwitchFaults = 1
    Evaluators = {w1, w2}
    Watched = {"database", "marketData"}
    RecoveryCycles = 2
    MaxForced = 1
    MaxWeather = 2
    MaxNews = 1
    Brokers = {w1, w2}
    MaxMoves = 2
    MaxDisturbances = 1
CHECK_DEADLOCK FALSE
INVARIANT ExclusiveUnlessLost
INVARIANT SoleLeader
INVARIANT StopReachesAll
PROPERTY LeasedJobRunsAgain
PROPERTY AgreementsSettle
